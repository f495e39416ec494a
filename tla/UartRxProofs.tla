---------------------------- MODULE UartRxProofs ----------------------------
(***************************************************************************)
(* Proofs about the receiving side of the UART driver, for any number of   *)
(* tasks, sizes of the FIFO and of the ring, lengths read and bytes.       *)
(*                                                                         *)
(* Ctl says who may be where: a call keeps rx_mux to its last step, and    *)
(* rx_buffer_full_flg tells the handler and the calls who may touch        *)
(* rx_data_buf.  With it every step moves bytes along the line, cuts a     *)
(* stretch out of it or lets the next byte come in.  A stretch that is cut *)
(* out is recorded as dropped unless a stash is written over unread bytes, *)
(* which StashFits excludes.  LenInv balances rx_buffered_len against      *)
(* what the half-done handler and calls have still to add or to take off.  *)
(***************************************************************************)
EXTENDS UartRx, SequenceTheorems, FiniteSetTheorems, TLAPS

\* The bytes that are somewhere, in the order they are to be delivered.
Line == got \o rest \o ring \o stash \o rxfifo

\* l is in the order of the line, holds nothing twice and nothing of L.
InOrder(l, L, n) ==
  /\ \A i, j \in DOMAIN l : i < j => l[i] < l[j]
  /\ ElementsOf(l) \cap L = {}
  /\ ElementsOf(l) \cup L \subseteq 1 .. n - 1

\* Nothing is missing.
Whole(l, L, n) == 1 .. n - 1 \subseteq ElementsOf(l) \cup L

\* The places of a call, as in TypeOK.
PCs == {"idle", "loop", "copy", "return", "stash", "count", "clear", "enable", "done", "sub",
        "f_disable", "f_return", "f_drop", "f_receive", "f_sub", "f_give", "f_stash", "f_count", "f_clear", "f_enable"}

\* What the variables hold.
Types ==
  /\ sameCpu \in BOOLEAN /\ rx_buffer_full_flg \in BOOLEAN
  /\ next \in Nat \ {0} /\ held \in Nat /\ rx_stash_len \in Nat /\ rx_buffered_len \in Int
  /\ rxfifo \in Seq(Nat) /\ stash \in Seq(Nat) /\ ring \in Seq(Nat) /\ rest \in Seq(Nat) /\ got \in Seq(Nat)
  /\ isrPc \in {"idle", "send", "count", "full", "flag"}
  /\ pc \in [Tasks -> PCs]
  /\ op \in [Tasks -> [length : Nat, copied : Nat]]

\* rx_mux is held by whoever is in a call, but for its last step.
MuxInv == \A t \in Tasks : pc[t] \notin {"idle", "sub"} => rx_mux = t

\* A call has sent the stash and not yet cleared the flag.
SendingPCs == {"count", "clear", "f_count", "f_clear"}
Sending(t) == pc[t] \in SendingPCs

\* What the flag, the place in the handler and the place of a task tell of rx_data_buf.
StashInv ==
  /\ isrPc \in {"send", "full", "flag"} => ~ rx_buffer_full_flg /\ rx_stash_len = Len(stash)
  /\ isrPc = "count" => ~ rx_buffer_full_flg /\ stash = <<>>
  /\ isrPc = "idle" /\ ~ rx_buffer_full_flg => stash = <<>>
  /\ \A t \in Tasks : Sending(t) => rx_buffer_full_flg /\ stash = <<>>
  /\ rx_buffer_full_flg => rx_stash_len = Len(stash) \/ \E t \in Tasks : Sending(t)

\* Only a call of uart_read_bytes has copied anything.
ReadPCs == {"loop", "copy", "return", "stash", "count", "clear", "enable", "done", "sub"}
OpInv == \A t \in Tasks : op[t].copied # 0 => pc[t] \in ReadPCs

\* A call has sent the stash and not yet counted it; has taken bytes and not yet
\* taken them off the count.
Counting == \E t \in Tasks : pc[t] \in {"count", "f_count"}
Taken == \E t \in Tasks : pc[t] = "f_sub"

\* One element for each byte a call has copied and not taken off the count.
CopiedBytes == {x \in Tasks \X Nat : x[2] \in 1 .. op[x[1]].copied}

\* rx_buffered_len is right but for what the handler and the calls have still to do.
LenInv ==
  /\ IsFiniteSet(CopiedBytes)
  /\ rx_buffered_len + (IF isrPc = "count" \/ Counting THEN rx_stash_len ELSE 0)
       = Len(ring) + Len(rest) + Cardinality(CopiedBytes) + (IF Taken THEN held ELSE 0)
  /\ (sameCpu /\ isrPc = "count") \/ Counting => rx_stash_len <= Len(ring)

\* The control invariant, and with it the order of the line.
Ctl == Types /\ MuxInv /\ StashInv /\ OpInv
Inv == Ctl /\ InOrder(Line, lost, next)

\* A call sends a stash only where it and the unread bytes fit.  The code
\* makes sure of more (Room), except when the tick xRingbufferSend waits for
\* is over by the time it has free_space_sem; then it does not look again.
StashFits ==
  \A t \in Tasks : pc[t] \in {"stash", "f_stash"} /\ pc'[t] \in {"count", "f_count"} =>
                  Len(ring) + Len(stash) < RxBufferSize

(* What the sequences of bytes obey.                                       *)
LEMMA Joining ==
  /\ \A s, t \in Seq(Nat) : s \o t \in Seq(Nat) /\ Len(s \o t) = Len(s) + Len(t)
  /\ \A s, t, u \in Seq(Nat) : (s \o t) \o u = s \o (t \o u)
  /\ \A s \in Seq(Nat) : s \o <<>> = s /\ <<>> \o s = s
  /\ \A s \in Seq(Nat), n \in Nat : Append(s, n) = s \o <<n>>
  /\ <<>> \in Seq(Nat) /\ \A n \in Nat : <<n>> \in Seq(Nat)
<1>1. \A s, t \in Seq(Nat) : s \o t \in Seq(Nat) /\ Len(s \o t) = Len(s) + Len(t)
  BY ConcatProperties
<1>2. ASSUME NEW s \in Seq(Nat), NEW t \in Seq(Nat), NEW u \in Seq(Nat) PROVE (s \o t) \o u = s \o (t \o u)
  BY ConcatAssociative
<1>3. \A s \in Seq(Nat) : s \o <<>> = s /\ <<>> \o s = s
  BY ConcatEmptySeq
<1>4. \A s \in Seq(Nat), n \in Nat : Append(s, n) = s \o <<n>>
  BY AppendIsConcat
<1>5. <<>> \in Seq(Nat) /\ \A n \in Nat : <<n>> \in Seq(Nat)
  OBVIOUS
<1> QED
  BY <1>1, <1>2, <1>3, <1>4, <1>5

(* A sequence is its first part and the others.                            *)
LEMMA Cutting ==
  ASSUME NEW s \in Seq(Nat), NEW n \in 0 .. Len(s)
  PROVE  /\ SubSeq(s, 1, n) \in Seq(Nat) /\ SubSeq(s, n + 1, Len(s)) \in Seq(Nat)
         /\ SubSeq(s, 1, n) \o SubSeq(s, n + 1, Len(s)) = s
         /\ Len(SubSeq(s, 1, n)) = n /\ Len(SubSeq(s, n + 1, Len(s))) = Len(s) - n
<1>1. Len(s) \in Nat /\ \A i \in 1 .. Len(s) : s[i] \in Nat
  OBVIOUS
<1>2. SubSeq(s, 1, n) \in Seq(Nat) /\ Len(SubSeq(s, 1, n)) = n
  <2>1. n \in Int /\ \A i \in 1 .. n : s[i] \in Nat
    BY <1>1
  <2>2. SubSeq(s, 1, n) \in Seq(Nat) /\ Len(SubSeq(s, 1, n)) = IF 1 <= n THEN n - 1 + 1 ELSE 0
    BY <2>1, SubSeqProperties
  <2> QED
    BY <1>1, <2>2
<1>3. SubSeq(s, n + 1, Len(s)) \in Seq(Nat) /\ Len(SubSeq(s, n + 1, Len(s))) = Len(s) - n
  <2>1. n + 1 \in Int /\ Len(s) \in Int /\ \A i \in n + 1 .. Len(s) : s[i] \in Nat
    BY <1>1
  <2>2. /\ SubSeq(s, n + 1, Len(s)) \in Seq(Nat)
        /\ Len(SubSeq(s, n + 1, Len(s))) = IF n + 1 <= Len(s) THEN Len(s) - (n + 1) + 1 ELSE 0
    BY <2>1, SubSeqProperties
  <2> QED
    BY <1>1, <2>2
<1>4. SubSeq(s, 1, n) \o SubSeq(s, n + 1, Len(s)) = SubSeq(s, 1, Len(s))
  <2>1. 1 \in 1 .. Len(s) + 1 /\ n \in 1 - 1 .. Len(s) /\ Len(s) \in n .. Len(s)
    BY <1>1
  <2> QED
    BY <2>1, ConcatAdjacentSubSeq
<1> QED
  BY <1>2, <1>3, <1>4, SubSeqFull

\* Concatenation, kept from being expanded.
Cat(s, t) == s \o t

(* The laws of concatenation that are needed.                              *)
LEMMA Cats ==
  /\ \A s, t \in Seq(Nat) : Cat(s, t) \in Seq(Nat)
  /\ \A s, t, u \in Seq(Nat) : Cat(Cat(s, t), u) = Cat(s, Cat(t, u))
  /\ \A s \in Seq(Nat) : Cat(s, <<>>) = s /\ Cat(<<>>, s) = s
  BY Joining DEF Cat

\* The line made of the five places in which a byte can be.
Joined(g, r, q, s, x) == Cat(Cat(Cat(Cat(g, r), q), s), x)

(* What is read, and what is still to come.                                *)
LEMMA Groups ==
  ASSUME NEW g \in Seq(Nat), NEW r \in Seq(Nat), NEW q \in Seq(Nat), NEW s \in Seq(Nat), NEW x \in Seq(Nat)
  PROVE  Joined(g, r, q, s, x) = Cat(Cat(g, r), Cat(Cat(q, s), x))
<1>1. Cat(g, r) \in Seq(Nat) /\ Cat(q, s) \in Seq(Nat)
  BY Cats
<1>2. Cat(Cat(Cat(g, r), q), s) = Cat(Cat(g, r), Cat(q, s))
  BY <1>1, Cats
<1>3. Cat(Cat(Cat(g, r), Cat(q, s)), x) = Cat(Cat(g, r), Cat(Cat(q, s), x))
  BY <1>1, Cats
<1> QED
  BY <1>2, <1>3 DEF Joined

(* What moves of bytes do to the line: nothing ...                         *)
LEMMA FifoRead ==
  ASSUME NEW g \in Seq(Nat), NEW r \in Seq(Nat), NEW q \in Seq(Nat), NEW x \in Seq(Nat)
  PROVE  Joined(g, r, q, <<>>, x) = Joined(g, r, q, x, <<>>)
<1>1. Cat(g, r) \in Seq(Nat)
  BY Cats
<1>2. Cat(Cat(g, r), q) \in Seq(Nat)
  BY <1>1, Cats
<1>3. Cat(Cat(Cat(g, r), q), x) \in Seq(Nat) /\ Cat(Cat(Cat(g, r), q), <<>>) = Cat(Cat(g, r), q)
  BY <1>2, Cats
<1>4. Cat(Cat(Cat(Cat(g, r), q), x), <<>>) = Cat(Cat(Cat(g, r), q), x)
  BY <1>3, Cats
<1> QED
  BY <1>3, <1>4 DEF Joined

(* The stash goes into the ring.                                           *)
LEMMA StashJoins ==
  ASSUME NEW g \in Seq(Nat), NEW r \in Seq(Nat), NEW q \in Seq(Nat), NEW s \in Seq(Nat), NEW x \in Seq(Nat)
  PROVE  Joined(g, r, q, s, x) = Joined(g, r, Cat(q, s), <<>>, x)
<1>1. Cat(g, r) \in Seq(Nat)
  BY Cats
<1>2. Cat(Cat(g, r), q) \in Seq(Nat)
  BY <1>1, Cats
<1>3. Cat(Cat(Cat(g, r), q), s) = Cat(Cat(g, r), Cat(q, s)) /\ Cat(Cat(Cat(g, r), q), s) \in Seq(Nat)
  BY <1>1, <1>2, Cats
<1>4. Cat(Cat(Cat(g, r), Cat(q, s)), <<>>) = Cat(Cat(g, r), Cat(q, s))
  BY <1>3, Cats
<1> QED
  BY <1>3, <1>4 DEF Joined

(* A piece of the ring is lent.                                            *)
LEMMA PieceLent ==
  ASSUME NEW g \in Seq(Nat), NEW r \in Seq(Nat), NEW q \in Seq(Nat), NEW s \in Seq(Nat), NEW x \in Seq(Nat)
  PROVE  Joined(g, <<>>, Cat(r, q), s, x) = Joined(g, r, q, s, x)
<1>1. Cat(g, <<>>) = g /\ Cat(g, Cat(r, q)) = Cat(Cat(g, r), q)
  BY Cats
<1> QED
  BY <1>1 DEF Joined

(* A part of the piece is given to the caller.                             *)
LEMMA PieceCopied ==
  ASSUME NEW g \in Seq(Nat), NEW r \in Seq(Nat), NEW u \in Seq(Nat), NEW q \in Seq(Nat), NEW s \in Seq(Nat),
         NEW x \in Seq(Nat)
  PROVE  Joined(g, Cat(r, u), q, s, x) = Joined(Cat(g, r), u, q, s, x)
<1>1. Cat(g, Cat(r, u)) = Cat(Cat(g, r), u)
  BY Cats
<1> QED
  BY <1>1 DEF Joined

\* m is l without the stretch b.
IsCut(l, m, b) == \E a, c \in Seq(Nat) : l = Cat(Cat(a, b), c) /\ m = Cat(a, c)

(* ... or a stretch is cut out.                                            *)
LEMMA CutFifo ==
  ASSUME NEW g \in Seq(Nat), NEW r \in Seq(Nat), NEW q \in Seq(Nat), NEW s \in Seq(Nat), NEW x \in Seq(Nat)
  PROVE  IsCut(Joined(g, r, q, s, x), Joined(g, r, q, s, <<>>), x)
<1>1. Cat(g, r) \in Seq(Nat)
  BY Cats
<1>2. Cat(Cat(g, r), q) \in Seq(Nat)
  BY <1>1, Cats
<1>3. Cat(Cat(Cat(g, r), q), s) \in Seq(Nat)
  BY <1>2, Cats
<1>4. PICK a \in Seq(Nat) : a = Cat(Cat(Cat(g, r), q), s)
  BY <1>3
<1>5. Cat(a, x) \in Seq(Nat) /\ <<>> \in Seq(Nat)
  BY Cats, Joining
<1>6. Cat(Cat(a, x), <<>>) = Cat(a, x)
  BY <1>5, Cats
<1>7. Joined(g, r, q, s, x) = Cat(Cat(a, x), <<>>) /\ Joined(g, r, q, s, <<>>) = Cat(a, <<>>)
  BY <1>4, <1>6 DEF Joined
<1> QED
  BY <1>5, <1>7 DEF IsCut

(* The rest of a piece is dropped.                                         *)
LEMMA CutRest ==
  ASSUME NEW g \in Seq(Nat), NEW r \in Seq(Nat), NEW q \in Seq(Nat), NEW s \in Seq(Nat), NEW x \in Seq(Nat)
  PROVE  IsCut(Joined(g, r, q, s, x), Joined(g, <<>>, q, s, x), r)
<1>1. Cat(q, s) \in Seq(Nat)
  BY Cats
<1>2. Cat(Cat(q, s), x) \in Seq(Nat)
  BY <1>1, Cats
<1>3. Joined(g, r, q, s, x) = Cat(Cat(g, r), Cat(Cat(q, s), x))
  BY Groups
<1>4. ASSUME NEW e \in Seq(Nat) PROVE Joined(g, e, q, s, x) = Cat(Cat(g, e), Cat(Cat(q, s), x))
  BY Groups
<1>5. <<>> \in Seq(Nat) /\ Cat(g, <<>>) = g
  BY Cats, Joining
<1>6. Joined(g, <<>>, q, s, x) = Cat(g, Cat(Cat(q, s), x))
  BY <1>4, <1>5
<1> QED
  BY <1>2, <1>3, <1>6 DEF IsCut

(* The first bytes of the ring are dropped.                                *)
LEMMA CutRing ==
  ASSUME NEW g \in Seq(Nat), NEW r \in Seq(Nat), NEW u \in Seq(Nat), NEW q \in Seq(Nat), NEW s \in Seq(Nat),
         NEW x \in Seq(Nat)
  PROVE  IsCut(Joined(g, r, Cat(u, q), s, x), Joined(g, r, q, s, x), u)
<1>1. Cat(q, s) \in Seq(Nat)
  BY Cats
<1>2. Cat(Cat(q, s), x) \in Seq(Nat)
  BY <1>1, Cats
<1>3. PICK a \in Seq(Nat) : a = Cat(g, r)
  BY Cats
<1>4. Joined(g, r, q, s, x) = Cat(a, Cat(Cat(q, s), x))
  BY <1>3, Groups
<1>5. Joined(a, u, q, s, x) = Cat(Cat(a, u), Cat(Cat(q, s), x))
  BY Groups
<1>6. Cat(a, Cat(u, q)) = Cat(Cat(a, u), q)
  BY Cats
<1>7. Joined(g, r, Cat(u, q), s, x) = Joined(a, u, q, s, x)
  BY <1>3, <1>6 DEF Joined
<1> QED
  BY <1>2, <1>4, <1>5, <1>7 DEF IsCut

(* The next byte comes in at the end.                                      *)
LEMMA JoinedAppend ==
  ASSUME NEW g \in Seq(Nat), NEW r \in Seq(Nat), NEW q \in Seq(Nat), NEW s \in Seq(Nat), NEW x \in Seq(Nat),
         NEW n \in Nat
  PROVE  /\ Joined(g, r, q, s, x) \in Seq(Nat)
         /\ Joined(g, r, q, s, Append(x, n)) = Append(Joined(g, r, q, s, x), n)
<1>1. Cat(g, r) \in Seq(Nat)
  BY Cats
<1>2. Cat(Cat(g, r), q) \in Seq(Nat)
  BY <1>1, Cats
<1>3. Cat(Cat(Cat(g, r), q), s) \in Seq(Nat)
  BY <1>2, Cats
<1>4. PICK a \in Seq(Nat) : a = Cat(Cat(Cat(g, r), q), s)
  BY <1>3
<1>5. PICK o \in Seq(Nat) : o = <<n>>
  BY Joining
<1>6. Cat(a, x) \in Seq(Nat) /\ Cat(a, Cat(x, o)) = Cat(Cat(a, x), o)
  BY Cats
<1>7. Append(x, n) = Cat(x, o) /\ Append(Cat(a, x), n) = Cat(Cat(a, x), o)
  <2>1. \A s_ \in Seq(Nat) : Append(s_, n) = Cat(s_, o)
    BY <1>5, Joining DEF Cat
  <2> QED
    BY <1>6, <2>1
<1> QED
  BY <1>4, <1>6, <1>7 DEF Joined

(* What is left when a stretch is taken out of the middle.                 *)
LEMMA Middle ==
  ASSUME NEW a \in Seq(Nat), NEW b \in Seq(Nat), NEW c \in Seq(Nat)
  PROVE  LET l == a \o b \o c
             m == a \o c
         IN /\ l \in Seq(Nat) /\ m \in Seq(Nat)
            /\ ElementsOf(l) = ElementsOf(m) \cup ElementsOf(b)
            /\ (\A i, j \in DOMAIN l : i < j => l[i] < l[j]) =>
                 (\A i, j \in DOMAIN m : i < j => m[i] < m[j]) /\ ElementsOf(m) \cap ElementsOf(b) = {}
<1> DEFINE l == a \o b \o c
           m == a \o c
<1>1. PICK A \in Nat, B \in Nat, C \in Nat : A = Len(a) /\ B = Len(b) /\ C = Len(c) /\ DOMAIN b = 1 .. B
  OBVIOUS
<1>2. /\ a \o b \in Seq(Nat) /\ Len(a \o b) = A + B
      /\ \A i \in 1 .. A + B : (a \o b)[i] = IF i <= A THEN a[i] ELSE b[i - A]
  BY <1>1, ConcatProperties
<1>3. /\ l \in Seq(Nat) /\ Len(l) = A + B + C
      /\ \A i \in 1 .. A + B + C : l[i] = IF i <= A + B THEN (a \o b)[i] ELSE c[i - (A + B)]
  BY <1>1, <1>2, ConcatProperties
<1>4. /\ m \in Seq(Nat) /\ Len(m) = A + C
      /\ \A i \in 1 .. A + C : m[i] = IF i <= A THEN a[i] ELSE c[i - A]
  BY <1>1, ConcatProperties
<1> HIDE DEF l, m
<1>5. DOMAIN l = 1 .. A + B + C /\ DOMAIN m = 1 .. A + C /\ \A i \in DOMAIN l : l[i] \in Nat
  BY <1>3, <1>4
<1>6. \A i \in 1 .. A + C : m[i] = IF i <= A THEN l[i] ELSE l[i + B]
  <2> SUFFICES ASSUME NEW i \in 1 .. A + C PROVE m[i] = IF i <= A THEN l[i] ELSE l[i + B]
    OBVIOUS
  <2>1. CASE i <= A
    <3>1. i \in 1 .. A + B /\ i \in 1 .. A + B + C /\ i <= A + B
      BY <2>1
    <3>2. l[i] = (a \o b)[i]
      BY <1>3, <3>1
    <3>3. (a \o b)[i] = a[i] /\ m[i] = a[i]
      BY <1>2, <1>4, <2>1, <3>1
    <3> QED
      BY <2>1, <3>2, <3>3
  <2>2. CASE i > A
    <3>1. i + B \in 1 .. A + B + C /\ ~ (i + B <= A + B) /\ (i + B) - (A + B) = i - A
      BY <2>2
    <3>2. l[i + B] = c[i - A]
      BY <1>3, <3>1
    <3>3. m[i] = c[i - A]
      BY <1>4, <2>2
    <3> QED
      BY <2>2, <3>2, <3>3
  <2> QED
    BY <2>1, <2>2
<1>7. \A i \in 1 .. B : b[i] = l[A + i]
  <2> SUFFICES ASSUME NEW i \in 1 .. B PROVE b[i] = l[A + i]
    OBVIOUS
  <2>1. A + i \in 1 .. A + B /\ A + i \in 1 .. A + B + C /\ A + i <= A + B /\ ~ (A + i <= A) /\ (A + i) - A = i
    OBVIOUS
  <2>2. l[A + i] = (a \o b)[A + i]
    BY <1>3, <2>1
  <2>3. (a \o b)[A + i] = b[i]
    BY <1>2, <2>1
  <2> QED
    BY <2>2, <2>3
<1>8. ElementsOf(l) = ElementsOf(m) \cup ElementsOf(b)
  <2>1. ElementsOf(m) \subseteq ElementsOf(l)
    <3>1. ASSUME NEW i \in 1 .. A + C PROVE m[i] \in ElementsOf(l)
      <4> DEFINE u == IF i <= A THEN i ELSE i + B
      <4>1. u \in 1 .. A + B + C
        OBVIOUS
      <4>2. m[i] = l[u]
        BY <1>6
      <4> HIDE DEF u
      <4> QED
        BY <1>5, <4>1, <4>2 DEF ElementsOf
    <3> QED
      BY <1>5, <3>1 DEF ElementsOf
  <2>2. ElementsOf(b) \subseteq ElementsOf(l)
    <3>1. ASSUME NEW i \in 1 .. B PROVE b[i] \in ElementsOf(l)
      <4>1. A + i \in 1 .. A + B + C
        OBVIOUS
      <4> QED
        BY <1>5, <1>7, <4>1 DEF ElementsOf
    <3> QED
      BY <1>1, <3>1 DEF ElementsOf
  <2>3. ASSUME NEW k \in 1 .. A + B + C PROVE l[k] \in ElementsOf(m) \cup ElementsOf(b)
    <3>1. CASE k <= A
      <4>0. k \in 1 .. A + C
        BY <3>1
      <4>1. k \in 1 .. A + C /\ m[k] = l[k]
        BY <1>6, <3>1, <4>0
      <4> QED
        BY <1>5, <4>1 DEF ElementsOf
    <3>2. CASE k > A /\ k <= A + B
      <4>1. k - A \in 1 .. B /\ A + (k - A) = k
        BY <3>2
      <4> QED
        BY <1>1, <1>7, <4>1 DEF ElementsOf
    <3>3. CASE k > A + B
      <4>1. k - B \in 1 .. A + C /\ ~ (k - B <= A) /\ (k - B) + B = k
        BY <3>3
      <4> QED
        BY <1>5, <1>6, <4>1 DEF ElementsOf
    <3> QED
      BY <3>1, <3>2, <3>3
  <2>4. ElementsOf(l) \subseteq ElementsOf(m) \cup ElementsOf(b)
    BY <1>5, <2>3 DEF ElementsOf
  <2> QED
    BY <2>1, <2>2, <2>4
<1>9. ASSUME \A i, j \in DOMAIN l : i < j => l[i] < l[j]
      PROVE  (\A i, j \in DOMAIN m : i < j => m[i] < m[j]) /\ ElementsOf(m) \cap ElementsOf(b) = {}
  <2>1. \A i, j \in DOMAIN m : i < j => m[i] < m[j]
    <3> SUFFICES ASSUME NEW i \in DOMAIN m, NEW j \in DOMAIN m, i < j PROVE m[i] < m[j]
      OBVIOUS
    <3> DEFINE u == IF i <= A THEN i ELSE i + B
               v == IF j <= A THEN j ELSE j + B
    <3>1. u \in 1 .. A + B + C /\ v \in 1 .. A + B + C /\ u < v
      BY <1>5
    <3>2. m[i] = l[u] /\ m[j] = l[v]
      BY <1>5, <1>6
    <3> QED
      BY <1>5, <1>9, <3>1, <3>2
  <2>2. \A i, j \in 1 .. A + B + C : i # j => l[i] # l[j]
    <3> SUFFICES ASSUME NEW i \in 1 .. A + B + C, NEW j \in 1 .. A + B + C, i # j PROVE l[i] # l[j]
      OBVIOUS
    <3>1. i < j \/ j < i
      OBVIOUS
    <3>2. l[i] \in Nat /\ l[j] \in Nat /\ (i < j => l[i] < l[j]) /\ (j < i => l[j] < l[i])
      BY <1>5, <1>9
    <3> QED
      BY <3>1, <3>2
  <2>3. ASSUME NEW i \in 1 .. A + C, NEW j \in 1 .. B PROVE m[i] # b[j]
    <3> DEFINE u == IF i <= A THEN i ELSE i + B
    <3>1. u \in 1 .. A + B + C /\ A + j \in 1 .. A + B + C /\ u # A + j
      OBVIOUS
    <3>2. m[i] = l[u] /\ b[j] = l[A + j]
      BY <1>6, <1>7
    <3> QED
      BY <2>2, <3>1, <3>2
  <2>4. ElementsOf(m) \cap ElementsOf(b) = {}
    BY <1>1, <1>5, <2>3 DEF ElementsOf
  <2> QED
    BY <2>1, <2>4
<1> QED
  BY <1>3, <1>4, <1>8, <1>9 DEF l, m

(* Taking a stretch out of the middle, with or without a note of it.       *)
LEMMA TakeOut ==
  ASSUME NEW a \in Seq(Nat), NEW b \in Seq(Nat), NEW c \in Seq(Nat), NEW L, NEW n \in Nat, InOrder(Cat(Cat(a, b), c), L, n)
  PROVE  /\ InOrder(Cat(a, c), L \cup ElementsOf(b), n) /\ InOrder(Cat(a, c), L, n)
         /\ Whole(Cat(Cat(a, b), c), L, n) => Whole(Cat(a, c), L \cup ElementsOf(b), n)
<1> DEFINE l == a \o b \o c
           m == a \o c
<1>1. /\ ElementsOf(l) = ElementsOf(m) \cup ElementsOf(b)
      /\ (\A i, j \in DOMAIN l : i < j => l[i] < l[j]) =>
                 (\A i, j \in DOMAIN m : i < j => m[i] < m[j]) /\ ElementsOf(m) \cap ElementsOf(b) = {}
  BY Middle
<1>2. InOrder(l, L, n)
  BY DEF Cat
<1> HIDE DEF l, m
<1>3. \A i, j \in DOMAIN m : i < j => m[i] < m[j]
  BY <1>1, <1>2 DEF InOrder
<1>4. /\ ElementsOf(m) \cap (L \cup ElementsOf(b)) = {} /\ ElementsOf(m) \cup L \subseteq 1 .. n - 1
      /\ ElementsOf(b) \subseteq 1 .. n - 1
  BY <1>1, <1>2 DEF InOrder
<1>5. Whole(l, L, n) => Whole(m, L \cup ElementsOf(b), n)
  BY <1>1 DEF Whole
<1>6. InOrder(m, L \cup ElementsOf(b), n) /\ InOrder(m, L, n)
  BY <1>3, <1>4 DEF InOrder
<1> QED
  BY <1>5, <1>6 DEF l, m, Cat

(* The next byte on the line, put at the end or lost.                      *)
LEMMA OneMore ==
  ASSUME NEW l \in Seq(Nat), NEW L, NEW n \in Nat \ {0}, InOrder(l, L, n)
  PROVE  /\ InOrder(Append(l, n), L, n + 1) /\ InOrder(l, L \cup {n}, n + 1)
         /\ Whole(l, L, n) => Whole(Append(l, n), L, n + 1) /\ Whole(l, L \cup {n}, n + 1)
<1>1. /\ Append(l, n) \in Seq(Nat) /\ Len(Append(l, n)) = Len(l) + 1
      /\ \A i \in 1 .. Len(l) : Append(l, n)[i] = l[i]
      /\ Append(l, n)[Len(l) + 1] = n
  BY AppendProperties
<1>2. DOMAIN l = 1 .. Len(l) /\ DOMAIN Append(l, n) = 1 .. Len(l) + 1 /\ Len(l) \in Nat
  BY <1>1, LenProperties
<1>3. \A i \in DOMAIN l : l[i] \in 1 .. n - 1
  BY DEF InOrder, ElementsOf
<1>4. ElementsOf(Append(l, n)) = ElementsOf(l) \cup {n}
  BY <1>1, <1>2 DEF ElementsOf
<1>5. n \notin ElementsOf(l) /\ n \notin L
  BY DEF InOrder
<1>6. 1 .. n = 1 .. n - 1 \cup {n} /\ n + 1 - 1 = n
  OBVIOUS
<1>7. \A i, j \in DOMAIN Append(l, n) : i < j => Append(l, n)[i] < Append(l, n)[j]
  BY <1>1, <1>2, <1>3 DEF InOrder
<1> QED
  BY <1>4, <1>5, <1>6, <1>7 DEF InOrder, Whole
-----------------------------------------------------------------------------
USE UartAssumption

(* A step of a task moves its place only.                                  *)
LEMMA Moves ==
  ASSUME Types, NEW t \in Tasks, NEW from, NEW to \in PCs, At(t, from, to)
  PROVE  /\ pc' \in [Tasks -> PCs] /\ pc[t] = from /\ pc'[t] = to
         /\ \A u \in Tasks \ {t} : pc'[u] = pc[u]
  BY DEF Types, At

(* Only one task is in a call.                                             *)
LEMMA Alone ==
  ASSUME MuxInv, NEW t \in Tasks, pc[t] \notin {"idle", "sub"} \/ rx_mux = "none"
  PROVE  \A u \in Tasks \ {t} : pc[u] \in {"idle", "sub"}
  BY DEF MuxInv

(* What a step of a task that leaves the stash alone need show.            *)
LEMMA TaskFrame ==
  ASSUME Types, MuxInv, StashInv, OpInv, NEW t \in Tasks, NEW from \in PCs, NEW to \in PCs, At(t, from, to),
         \/ rx_mux' = rx_mux /\ (from \in {"idle", "sub"} => to \in {"idle", "sub"})
         \/ rx_mux = "none" /\ rx_mux' = t
         \/ from \notin {"idle", "sub"} /\ to \in {"idle", "sub"},
         from \in SendingPCs <=> to \in SendingPCs,
         stash' = stash, rx_stash_len' = rx_stash_len, rx_buffer_full_flg' = rx_buffer_full_flg, isrPc' = isrPc,
         \A u \in Tasks \ {t} : op'[u] = op[u],
         op'[t].copied # 0 => to \in ReadPCs
  PROVE  MuxInv' /\ StashInv' /\ OpInv' /\ pc' \in [Tasks -> PCs]
<1>1. /\ pc' \in [Tasks -> PCs] /\ pc[t] = from /\ pc'[t] = to
      /\ \A u \in Tasks \ {t} : pc'[u] = pc[u]
  BY Moves
<1>2. MuxInv'
  BY <1>1, Alone DEF MuxInv
<1>3. \A u \in Tasks : Sending(u)' <=> Sending(u)
  BY <1>1 DEF Sending
<1>4. StashInv'
  BY <1>3 DEF StashInv
<1>5. OpInv'
  BY <1>1 DEF OpInv
<1> QED
  BY <1>1, <1>2, <1>4, <1>5

(* Nobody is in a call and nothing is buffered.                            *)
LEMMA InitCtl == Init => Ctl
<1> SUFFICES ASSUME Init PROVE Ctl
  OBVIOUS
<1>1. Types
  <2>1. sameCpu \in BOOLEAN
    BY DEF Init
  <2>2. pc \in [Tasks -> PCs]
    BY DEF Init, PCs
  <2>3. op \in [Tasks -> [length : Nat, copied : Nat]]
    BY DEF Init, Idle
  <2>4. rxfifo \in Seq(Nat) /\ stash \in Seq(Nat) /\ ring \in Seq(Nat) /\ rest \in Seq(Nat) /\ got \in Seq(Nat)
    BY DEF Init
  <2>5. next = 1 /\ held = 0 /\ rx_stash_len = 0 /\ rx_buffered_len = 0 /\ rx_buffer_full_flg = FALSE /\ isrPc = "idle"
    BY DEF Init
  <2>6. next \in Nat \ {0} /\ held \in Nat /\ rx_stash_len \in Nat /\ rx_buffered_len \in Int
    BY <2>5
  <2>7. rx_buffer_full_flg \in BOOLEAN /\ isrPc \in {"idle", "send", "count", "full", "flag"}
    BY <2>5
  <2> QED
    BY <2>1, <2>2, <2>3, <2>4, <2>6, <2>7 DEF Types
<1>2. MuxInv /\ StashInv
  BY DEF Init, MuxInv, StashInv, Sending, SendingPCs
<1>3. OpInv
  BY DEF Init, OpInv, Idle
<1> QED
  BY <1>1, <1>2, <1>3 DEF Ctl

(* The line and the handler.                                               *)
LEMMA HandlerCtl ==
  ASSUME Ctl, ByteArrives \/ Isr
  PROVE  Ctl'
<1>1. pc' = pc /\ op' = op /\ rx_mux' = rx_mux /\ sameCpu' = sameCpu /\ got' = got /\ rest' = rest /\ held' = held
  BY DEF ByteArrives, Isr, IsrRead, IsrStillFull, IsrSend, IsrCount, IsrDisable, IsrFlag, IsrOverflow,
         taskVars, ringVars
<1>2. MuxInv' /\ OpInv' /\ \A t \in Tasks : Sending(t)' <=> Sending(t)
  BY <1>1 DEF Ctl, MuxInv, OpInv, Sending
<1>3. Types'
  <2>1. CASE ByteArrives
    <3>1. rxfifo' \in Seq(Nat)
      <4>1. Append(rxfifo, next) \in Seq(Nat)
        BY AppendProperties DEF Ctl, Types
      <4> QED
        BY <2>1, <4>1 DEF ByteArrives, Ctl, Types
    <3> QED
      BY <1>1, <2>1, <3>1 DEF ByteArrives, Ctl, Types, drvVars, ringVars
  <2>2. CASE IsrRead
    BY <1>1, <2>2 DEF IsrRead, Ctl, Types, ringVars
  <2>3. CASE IsrStillFull
    BY <1>1, <2>3 DEF IsrStillFull, Ctl, Types, ringVars, drvVars, hwVars
  <2>4. CASE IsrSend
    <3>1. ring' \in Seq(Nat) /\ stash' \in Seq(Nat)
      <4>1. ring \o stash \in Seq(Nat)
        BY ConcatProperties DEF Ctl, Types
      <4>2. ring \in Seq(Nat) /\ stash \in Seq(Nat) /\ <<>> \in Seq(Nat)
        BY DEF Ctl, Types
      <4>3. (ring' = ring \o stash /\ stash' = <<>>) \/ (ring' = ring /\ stash' = stash)
        BY <2>4 DEF IsrSend
      <4> QED
        BY <4>1, <4>2, <4>3
    <3> QED
      BY <1>1, <2>4, <3>1 DEF IsrSend, Ctl, Types, hwVars
  <2>5. CASE IsrCount
    BY <1>1, <2>5 DEF IsrCount, Ctl, Types, hwVars, ringVars
  <2>6. CASE IsrDisable \/ IsrFlag
    BY <1>1, <2>6 DEF IsrDisable, IsrFlag, Ctl, Types, hwVars, ringVars, drvVars
  <2>7. CASE IsrOverflow
    BY <1>1, <2>7 DEF IsrOverflow, Ctl, Types, ringVars, drvVars
  <2> QED
    BY <2>1, <2>2, <2>3, <2>4, <2>5, <2>6, <2>7 DEF Isr
<1>4. StashInv'
  <2>1. CASE ByteArrives \/ IsrStillFull \/ IsrOverflow
    BY <1>2, <2>1 DEF ByteArrives, IsrStillFull, IsrOverflow, Ctl, StashInv, drvVars
  <2>2. CASE IsrRead
    BY <1>2, <2>2 DEF IsrRead, Ctl, StashInv
  <2>3. CASE IsrSend
    BY <1>2, <2>3 DEF IsrSend, Ctl, StashInv
  <2>4. CASE IsrCount \/ IsrDisable \/ IsrFlag
    BY <1>2, <2>4 DEF IsrCount, IsrDisable, IsrFlag, Ctl, StashInv, drvVars
  <2> QED
    BY <2>1, <2>2, <2>3, <2>4 DEF Isr
<1> QED
  BY <1>2, <1>3, <1>4 DEF Ctl

(* Sending the stash, as reading and flushing both do.                     *)
LEMMA SendStashCtl ==
  ASSUME Ctl, NEW t \in Tasks, NEW here \in PCs, NEW sent \in PCs, NEW next_ \in PCs, SendStash(t, here, sent, next_),
         here \notin SendingPCs \cup {"idle", "sub"}, sent \in SendingPCs, next_ \notin SendingPCs \cup {"idle", "sub"},
         op[t].copied # 0 => sent \in ReadPCs /\ next_ \in ReadPCs
  PROVE  Ctl'
<1>1. Types /\ MuxInv /\ StashInv /\ OpInv
  BY DEF Ctl
<1>2. op' = op /\ rx_mux' = rx_mux /\ isrPc' = isrPc /\ rx_stash_len' = rx_stash_len
      /\ rx_buffer_full_flg' = rx_buffer_full_flg
  BY DEF SendStash
<1>3. CASE At(t, here, sent) /\ rx_buffer_full_flg /\ ring' = Written(ring \o stash) /\ stash' = <<>>
  <2>1. /\ pc' \in [Tasks -> PCs] /\ pc[t] = here /\ pc'[t] = sent
        /\ \A u \in Tasks \ {t} : pc'[u] = pc[u]
    BY <1>1, <1>3, Moves
  <2>2. MuxInv'
    BY <1>1, <1>2, <2>1, Alone DEF MuxInv, SendingPCs
  <2>3. OpInv'
    BY <1>1, <1>2, <2>1 DEF OpInv
  <2>4. Sending(t)'
    BY <2>1 DEF Sending
  <2>5. StashInv'
    BY <1>1, <1>2, <1>3, <2>4 DEF StashInv, Types
  <2>6. ring' \in Seq(Nat)
    <3>1. ring \o stash \in Seq(Nat)
      BY <1>1, ConcatProperties DEF Types
    <3>2. SubSeq(ring \o stash, RxBufferSize + 1, Len(ring \o stash)) \in Seq(Nat)
      <4> DEFINE s == ring \o stash
      <4>1. s \in Seq(Nat)
        BY <3>1
      <4> HIDE DEF s
      <4>2. \A i \in RxBufferSize + 1 .. Len(s) : s[i] \in Nat
        BY <4>1
      <4>3. SubSeq(s, RxBufferSize + 1, Len(s)) \in Seq(Nat)
        BY <4>1, <4>2, SubSeqProperties
      <4> QED
        BY <4>3 DEF s
    <3> QED
      BY <1>3, <3>1, <3>2 DEF Written
  <2>7. Types'
    BY <1>1, <1>2, <1>3, <2>1, <2>6 DEF Types, SendStash, hwVars
  <2> QED
    BY <2>2, <2>3, <2>5, <2>7 DEF Ctl
<1>4. CASE At(t, here, next_) /\ UNCHANGED <<ring, stash>>
  <2>1. MuxInv' /\ StashInv' /\ OpInv' /\ pc' \in [Tasks -> PCs]
    BY <1>1, <1>2, <1>4, TaskFrame
  <2>2. Types'
    BY <1>1, <1>2, <1>4, <2>1 DEF Types, SendStash, hwVars
  <2> QED
    BY <2>1, <2>2 DEF Ctl
<1> QED
  BY <1>3, <1>4 DEF SendStash

(* The flag is cleared once the stash is sent.                             *)
LEMMA ClearFlagCtl ==
  ASSUME Ctl, NEW t \in Tasks, NEW here \in PCs, NEW next_ \in PCs, ClearFlag(t, here, next_),
         here \in SendingPCs, next_ \notin SendingPCs \cup {"idle", "sub"},
         op[t].copied # 0 => next_ \in ReadPCs
  PROVE  Ctl'
<1>1. Types /\ MuxInv /\ StashInv /\ OpInv
  BY DEF Ctl
<1>2. /\ op' = op /\ rx_mux' = rx_mux /\ isrPc' = isrPc /\ rx_stash_len' = rx_stash_len /\ stash' = stash
      /\ rx_buffer_full_flg' = FALSE
  BY DEF ClearFlag
<1>3. /\ pc' \in [Tasks -> PCs] /\ pc[t] = here /\ pc'[t] = next_
      /\ \A u \in Tasks \ {t} : pc'[u] = pc[u]
  BY <1>1, Moves DEF ClearFlag
<1>4. here \notin {"idle", "sub"} /\ \A u \in Tasks \ {t} : pc[u] \in {"idle", "sub"}
  BY <1>1, <1>3, Alone DEF SendingPCs
<1>5. MuxInv'
  BY <1>1, <1>2, <1>3, <1>4 DEF MuxInv
<1>6. OpInv'
  BY <1>1, <1>2, <1>3 DEF OpInv
<1>7. Sending(t) /\ \A u \in Tasks : ~ Sending(u)'
  BY <1>3, <1>4 DEF Sending, SendingPCs
<1>8. rx_buffer_full_flg /\ stash = <<>> /\ isrPc = "idle"
  BY <1>1, <1>7 DEF StashInv, Types
<1>9. StashInv'
  BY <1>2, <1>7, <1>8 DEF StashInv
<1>10. Types'
  BY <1>1, <1>2, <1>3 DEF Types, ClearFlag, hwVars, ringVars
<1> QED
  BY <1>5, <1>6, <1>9, <1>10 DEF Ctl

(* The bytes are counted: nothing here depends on it.                      *)
LEMMA CountStashCtl ==
  ASSUME Ctl, NEW t \in Tasks, NEW here \in PCs, NEW next_ \in PCs, CountStash(t, here, next_),
         here \in SendingPCs, next_ \in SendingPCs, op[t].copied # 0 => next_ \in ReadPCs
  PROVE  Ctl'
<1>1. Types /\ MuxInv /\ StashInv /\ OpInv
  BY DEF Ctl
<1>2. /\ op' = op /\ rx_mux' = rx_mux /\ isrPc' = isrPc /\ rx_stash_len' = rx_stash_len /\ stash' = stash
      /\ rx_buffer_full_flg' = rx_buffer_full_flg /\ At(t, here, next_)
  BY DEF CountStash
<1>3. here \notin {"idle", "sub"}
  BY DEF SendingPCs
<1>4. MuxInv' /\ StashInv' /\ OpInv' /\ pc' \in [Tasks -> PCs]
  BY <1>1, <1>2, <1>3, TaskFrame
<1>5. Types'
  BY <1>1, <1>2, <1>4 DEF Types, CountStash, hwVars, ringVars
<1> QED
  BY <1>4, <1>5 DEF Ctl

(* The steps of uart_read_bytes.                                           *)
LEMMA ReadCtl ==
  ASSUME Ctl, NEW t \in Tasks, Read(t) \/ ReadSteps(t)
  PROVE  Ctl'
<1>1. Types /\ MuxInv /\ StashInv /\ OpInv
  BY DEF Ctl
<1>2. \A u \in Tasks : op[u].copied \in Nat /\ op[u].length \in Nat
  BY <1>1 DEF Types
<1> USE DEF PCs, SendingPCs, ReadPCs
<1>3. CASE Read(t)
  <2>1. PICK length \in Lengths : ReadBytes(t, length)
    BY <1>3 DEF Read
  <2>2. /\ At(t, "idle", "loop") /\ rx_mux = "none" /\ rx_mux' = t /\ stash' = stash /\ rx_stash_len' = rx_stash_len
        /\ rx_buffer_full_flg' = rx_buffer_full_flg /\ isrPc' = isrPc
    BY <2>1 DEF ReadBytes, TakeMux, drvVars
  <2>3. op' \in [Tasks -> [length : Nat, copied : Nat]] /\ op'[t].copied = 0 /\ \A u \in Tasks \ {t} : op'[u] = op[u]
    BY <1>1, <2>1 DEF ReadBytes, Types
  <2>4. MuxInv' /\ StashInv' /\ OpInv' /\ pc' \in [Tasks -> PCs]
    BY <1>1, <2>2, <2>3, TaskFrame
  <2>5. Types'
    BY <1>1, <2>1, <2>2, <2>3, <2>4 DEF Types, ReadBytes, hwVars, drvVars, ringVars
  <2> QED
    BY <2>4, <2>5 DEF Ctl
<1>4. CASE ReadReceive(t)
  <2>1. /\ At(t, "loop", "copy") /\ rx_mux' = rx_mux /\ stash' = stash /\ rx_stash_len' = rx_stash_len
        /\ rx_buffer_full_flg' = rx_buffer_full_flg /\ isrPc' = isrPc /\ op' = op
    BY <1>4 DEF ReadReceive, drvVars
  <2>2. MuxInv' /\ StashInv' /\ OpInv' /\ pc' \in [Tasks -> PCs]
    BY <1>1, <2>1, TaskFrame
  <2>3. held' \in Nat /\ ring' \in Seq(Nat) /\ rest' \in Seq(Nat)
    <3>1. CASE UNCHANGED ringVars
      BY <1>1, <3>1 DEF Types, ringVars
    <3>2. CASE \E n \in 1 .. Len(ring) : Lend(n) /\ rest' = SubSeq(ring, 1, n)
      <4>1. PICK n \in 1 .. Len(ring) : held' = n /\ ring' = SubSeq(ring, n + 1, Len(ring)) /\ rest' = SubSeq(ring, 1, n)
        BY <3>2 DEF Lend
      <4>0. ring \in Seq(Nat)
        BY <1>1 DEF Types
      <4>2. ring \in Seq(Nat) /\ Len(ring) \in Nat /\ \A i \in 1 .. Len(ring) : ring[i] \in Nat
        BY ONLY <4>0
      <4>3. SubSeq(ring, n + 1, Len(ring)) \in Seq(Nat) /\ SubSeq(ring, 1, n) \in Seq(Nat)
        BY <4>2, SubSeqProperties
      <4> QED
        BY <4>1, <4>2, <4>3
    <3> QED
      BY <1>4, <3>1, <3>2 DEF ReadReceive
  <2>4. Types'
    BY <1>1, <1>4, <2>1, <2>2, <2>3 DEF Types, ReadReceive, hwVars, drvVars
  <2> QED
    BY <2>2, <2>4 DEF Ctl
<1>5. CASE ReadLeave(t)
  <2>1. /\ At(t, "loop", "done") /\ rx_mux' = rx_mux /\ stash' = stash /\ rx_stash_len' = rx_stash_len
        /\ rx_buffer_full_flg' = rx_buffer_full_flg /\ isrPc' = isrPc /\ op' = op
    BY <1>5 DEF ReadLeave, drvVars
  <2>2. MuxInv' /\ StashInv' /\ OpInv' /\ pc' \in [Tasks -> PCs]
    BY <1>1, <2>1, TaskFrame
  <2>3. Types'
    BY <1>1, <1>5, <2>1, <2>2 DEF Types, ReadLeave, hwVars, drvVars, ringVars
  <2> QED
    BY <2>2, <2>3 DEF Ctl
<1>6. CASE ReadCopy(t)
  <2> DEFINE n == IF Len(rest) > op[t].length THEN op[t].length ELSE Len(rest)
             to == IF n = Len(rest) THEN "return" ELSE "loop"
  <2>1. /\ At(t, "copy", to) /\ rx_mux' = rx_mux /\ stash' = stash /\ rx_stash_len' = rx_stash_len
        /\ rx_buffer_full_flg' = rx_buffer_full_flg /\ isrPc' = isrPc
    BY <1>6 DEF ReadCopy, drvVars
  <2>2. rest \in Seq(Nat) /\ got \in Seq(Nat) /\ Len(rest) \in Nat /\ n \in 0 .. Len(rest) /\ n <= op[t].length
    BY <1>1, <1>2 DEF Types
  <2>3. /\ op' = [op EXCEPT ![t] = [length |-> @.length - n, copied |-> @.copied + n]]
        /\ got' = got \o SubSeq(rest, 1, n) /\ rest' = SubSeq(rest, n + 1, Len(rest))
    BY <1>6 DEF ReadCopy
  <2>4. to \in {"return", "loop"}
    OBVIOUS
  <2> HIDE DEF n, to
  <2>5. op' \in [Tasks -> [length : Nat, copied : Nat]] /\ \A u \in Tasks \ {t} : op'[u] = op[u]
    <3>1. op[t].length - n \in Nat /\ op[t].copied + n \in Nat
      <4>1. op[t].length \in Nat /\ op[t].copied \in Nat
        BY <1>2
      <4>2. n \in Nat /\ n <= op[t].length
        BY ONLY <2>2
      <4> QED
        BY ONLY <4>1, <4>2
    <3>2. [length |-> op[t].length - n, copied |-> op[t].copied + n] \in [length : Nat, copied : Nat]
      BY <3>1
    <3>3. op \in [Tasks -> [length : Nat, copied : Nat]]
      BY <1>1 DEF Types
    <3> QED
      BY <2>3, <3>2, <3>3
  <2>6. MuxInv' /\ StashInv' /\ OpInv' /\ pc' \in [Tasks -> PCs]
    BY <1>1, <2>1, <2>4, <2>5, TaskFrame
  <2>7. got' \in Seq(Nat) /\ rest' \in Seq(Nat)
    <3>1. \A i \in 1 .. Len(rest) : rest[i] \in Nat
      BY <2>2
    <3>2. SubSeq(rest, 1, n) \in Seq(Nat)
      <4>1. \A i \in 1 .. n : rest[i] \in Nat
        BY <2>2, <3>1
      <4>2. n \in Int
        BY <2>2
      <4> QED
        BY <4>1, <4>2, SubSeqProperties
    <3>3. SubSeq(rest, n + 1, Len(rest)) \in Seq(Nat)
      <4>1. \A i \in n + 1 .. Len(rest) : rest[i] \in Nat
        BY <2>2, <3>1
      <4>2. n + 1 \in Int /\ Len(rest) \in Int
        BY <2>2
      <4> QED
        BY <4>1, <4>2, SubSeqProperties
    <3> QED
      BY <2>2, <2>3, <3>2, <3>3, ConcatProperties
  <2>8. Types'
    BY <1>1, <1>6, <2>1, <2>5, <2>6, <2>7 DEF Types, ReadCopy, hwVars, drvVars
  <2> QED
    BY <2>6, <2>8 DEF Ctl
<1>7. CASE ReadReturn(t)
  <2>1. /\ At(t, "return", "stash") /\ rx_mux' = rx_mux /\ stash' = stash /\ rx_stash_len' = rx_stash_len
        /\ rx_buffer_full_flg' = rx_buffer_full_flg /\ isrPc' = isrPc /\ op' = op
    BY <1>7 DEF ReadReturn, drvVars
  <2>2. MuxInv' /\ StashInv' /\ OpInv' /\ pc' \in [Tasks -> PCs]
    BY <1>1, <2>1, TaskFrame
  <2>3. Types'
    BY <1>1, <1>7, <2>1, <2>2 DEF Types, ReadReturn, hwVars, drvVars
  <2> QED
    BY <2>2, <2>3 DEF Ctl
<1>8. CASE ReadStash(t)
  BY <1>8, SendStashCtl DEF ReadStash
<1>9. CASE ReadCount(t)
  BY <1>9, CountStashCtl DEF ReadCount
<1>10. CASE ReadClear(t)
  BY <1>10, ClearFlagCtl DEF ReadClear
<1>11. CASE ReadEnable(t)
  <2>1. /\ At(t, "enable", "loop") /\ rx_mux' = rx_mux /\ stash' = stash /\ rx_stash_len' = rx_stash_len
        /\ rx_buffer_full_flg' = rx_buffer_full_flg /\ isrPc' = isrPc /\ op' = op
    BY <1>11 DEF ReadEnable, drvVars
  <2>2. MuxInv' /\ StashInv' /\ OpInv' /\ pc' \in [Tasks -> PCs]
    BY <1>1, <2>1, TaskFrame
  <2>3. Types'
    BY <1>1, <1>11, <2>1, <2>2 DEF Types, ReadEnable, hwVars, drvVars, ringVars
  <2> QED
    BY <2>2, <2>3 DEF Ctl
<1>12. CASE ReadGiveMux(t)
  <2>1. /\ At(t, "done", "sub") /\ stash' = stash /\ rx_stash_len' = rx_stash_len
        /\ rx_buffer_full_flg' = rx_buffer_full_flg /\ isrPc' = isrPc /\ op' = op
    BY <1>12 DEF ReadGiveMux, drvVars
  <2>2. MuxInv' /\ StashInv' /\ OpInv' /\ pc' \in [Tasks -> PCs]
    BY <1>1, <2>1, TaskFrame
  <2>3. Types'
    BY <1>1, <1>12, <2>1, <2>2 DEF Types, ReadGiveMux, hwVars, drvVars, ringVars
  <2> QED
    BY <2>2, <2>3 DEF Ctl
<1>13. CASE ReadSubtract(t)
  <2>1. /\ At(t, "sub", "idle") /\ rx_mux' = rx_mux /\ stash' = stash /\ rx_stash_len' = rx_stash_len
        /\ rx_buffer_full_flg' = rx_buffer_full_flg /\ isrPc' = isrPc
    BY <1>13 DEF ReadSubtract
  <2>2. /\ op' \in [Tasks -> [length : Nat, copied : Nat]] /\ op'[t].copied = 0
        /\ \A u \in Tasks \ {t} : op'[u] = op[u]
    BY <1>1, <1>13 DEF ReadSubtract, Types, Idle
  <2>3. MuxInv' /\ StashInv' /\ OpInv' /\ pc' \in [Tasks -> PCs]
    BY <1>1, <2>1, <2>2, TaskFrame
  <2>4. rx_buffered_len' \in Int
    BY <1>1, <1>2, <1>13 DEF ReadSubtract, Types
  <2>5. Types'
    BY <1>1, <1>13, <2>1, <2>2, <2>3, <2>4 DEF Types, ReadSubtract, hwVars, ringVars
  <2> QED
    BY <2>3, <2>5 DEF Ctl
<1> QED
  BY <1>3, <1>4, <1>5, <1>6, <1>7, <1>8, <1>9, <1>10, <1>11, <1>12, <1>13 DEF ReadSteps

(* The steps of uart_flush.                                                *)
LEMMA FlushCtl ==
  ASSUME Ctl, NEW t \in Tasks, Flush(t) \/ FlushSteps(t)
  PROVE  Ctl'
<1>1. Types /\ MuxInv /\ StashInv /\ OpInv
  BY DEF Ctl
<1> USE DEF PCs, SendingPCs, ReadPCs
<1>2. pc[t] \notin ReadPCs => op[t].copied = 0
  BY <1>1 DEF OpInv
<1>3. CASE Flush(t)
  <2>1. /\ At(t, "idle", "f_disable") /\ rx_mux = "none" /\ rx_mux' = t /\ stash' = stash /\ rx_stash_len' = rx_stash_len
        /\ rx_buffer_full_flg' = rx_buffer_full_flg /\ isrPc' = isrPc /\ op' = op
    BY <1>3 DEF Flush, TakeMux, drvVars
  <2>2. pc[t] = "idle"
    BY <2>1 DEF At
  <2>3. MuxInv' /\ StashInv' /\ OpInv' /\ pc' \in [Tasks -> PCs]
    BY <1>1, <1>2, <2>1, <2>2, TaskFrame
  <2>4. Types'
    BY <1>1, <1>3, <2>1, <2>3 DEF Types, Flush, hwVars, drvVars, ringVars
  <2> QED
    BY <2>3, <2>4 DEF Ctl
<1>4. CASE FlushDisable(t)
  <2>1. /\ At(t, "f_disable", IF held > 0 THEN "f_return" ELSE "f_receive") /\ rx_mux' = rx_mux /\ stash' = stash /\ rx_stash_len' = rx_stash_len
        /\ rx_buffer_full_flg' = rx_buffer_full_flg /\ isrPc' = isrPc /\ op' = op /\ pc[t] = "f_disable"
    BY <1>4 DEF FlushDisable, drvVars, At
  <2>2. MuxInv' /\ StashInv' /\ OpInv' /\ pc' \in [Tasks -> PCs]
    BY <1>1, <1>2, <2>1, TaskFrame
  <2>3. Types'
    BY <1>1, <1>4, <2>1, <2>2 DEF Types, FlushDisable, hwVars, drvVars, ringVars
  <2> QED
    BY <2>2, <2>3 DEF Ctl
<1>5. CASE FlushReturn(t)
  <2>1. /\ At(t, "f_return", "f_drop") /\ rx_mux' = rx_mux /\ stash' = stash /\ rx_stash_len' = rx_stash_len
        /\ rx_buffer_full_flg' = rx_buffer_full_flg /\ isrPc' = isrPc /\ op' = op /\ pc[t] = "f_return"
    BY <1>5 DEF FlushReturn, drvVars, At
  <2>2. MuxInv' /\ StashInv' /\ OpInv' /\ pc' \in [Tasks -> PCs]
    BY <1>1, <1>2, <2>1, TaskFrame
  <2>3. Types'
    BY <1>1, <1>5, <2>1, <2>2 DEF Types, FlushReturn, hwVars, drvVars
  <2> QED
    BY <2>2, <2>3 DEF Ctl
<1>6. CASE FlushDrop(t)
  <2>1. /\ At(t, "f_drop", "f_receive") /\ rx_mux' = rx_mux /\ stash' = stash /\ rx_stash_len' = rx_stash_len
        /\ rx_buffer_full_flg' = rx_buffer_full_flg /\ isrPc' = isrPc /\ op' = op /\ pc[t] = "f_drop"
    BY <1>6 DEF FlushDrop, drvVars, At
  <2>2. MuxInv' /\ StashInv' /\ OpInv' /\ pc' \in [Tasks -> PCs]
    BY <1>1, <1>2, <2>1, TaskFrame
  <2>3. rx_buffered_len' \in Int /\ rest' \in Seq(Nat)
    BY <1>1, <1>6 DEF FlushDrop, Types
  <2>4. Types'
    BY <1>1, <1>6, <2>1, <2>2, <2>3 DEF Types, FlushDrop, hwVars
  <2> QED
    BY <2>2, <2>4 DEF Ctl
<1>7. CASE FlushReceive(t)
  <2>1. PICK to \in {"f_sub", "f_enable"} : At(t, "f_receive", to)
    BY <1>7 DEF FlushReceive
  <2>2. /\ rx_mux' = rx_mux /\ stash' = stash /\ rx_stash_len' = rx_stash_len
        /\ rx_buffer_full_flg' = rx_buffer_full_flg /\ isrPc' = isrPc /\ op' = op /\ pc[t] = "f_receive"
    BY <1>7, <2>1 DEF FlushReceive, drvVars, At
  <2>3. MuxInv' /\ StashInv' /\ OpInv' /\ pc' \in [Tasks -> PCs]
    BY <1>1, <1>2, <2>1, <2>2, TaskFrame
  <2>4. held' \in Nat /\ ring' \in Seq(Nat)
    <3>1. CASE UNCHANGED <<ring, held>>
      BY <1>1, <3>1 DEF Types
    <3>2. CASE \E n \in 1 .. Len(ring) : Lend(n)
      <4>1. PICK n \in 1 .. Len(ring) : held' = n /\ ring' = SubSeq(ring, n + 1, Len(ring))
        BY <3>2 DEF Lend
      <4>0. ring \in Seq(Nat)
        BY <1>1 DEF Types
      <4>2. ring \in Seq(Nat) /\ Len(ring) \in Nat /\ \A i \in 1 .. Len(ring) : ring[i] \in Nat
        BY ONLY <4>0
      <4>3. SubSeq(ring, n + 1, Len(ring)) \in Seq(Nat)
        BY <4>2, SubSeqProperties
      <4> QED
        BY <4>1, <4>2, <4>3
    <3> QED
      BY <1>7, <3>1, <3>2 DEF FlushReceive
  <2>5. Types'
    BY <1>1, <1>7, <2>2, <2>3, <2>4 DEF Types, FlushReceive, hwVars, drvVars
  <2> QED
    BY <2>3, <2>5 DEF Ctl
<1>8. CASE FlushSubtract(t)
  <2>1. /\ At(t, "f_sub", "f_give") /\ rx_mux' = rx_mux /\ stash' = stash /\ rx_stash_len' = rx_stash_len
        /\ rx_buffer_full_flg' = rx_buffer_full_flg /\ isrPc' = isrPc /\ op' = op /\ pc[t] = "f_sub"
    BY <1>8 DEF FlushSubtract, drvVars, At
  <2>2. MuxInv' /\ StashInv' /\ OpInv' /\ pc' \in [Tasks -> PCs]
    BY <1>1, <1>2, <2>1, TaskFrame
  <2>3. rx_buffered_len' \in Int
    BY <1>1, <1>8 DEF FlushSubtract, Types
  <2>4. Types'
    BY <1>1, <1>8, <2>1, <2>2, <2>3 DEF Types, FlushSubtract, hwVars, ringVars
  <2> QED
    BY <2>2, <2>4 DEF Ctl
<1>9. CASE FlushGive(t)
  <2>1. /\ At(t, "f_give", "f_stash") /\ rx_mux' = rx_mux /\ stash' = stash /\ rx_stash_len' = rx_stash_len
        /\ rx_buffer_full_flg' = rx_buffer_full_flg /\ isrPc' = isrPc /\ op' = op /\ pc[t] = "f_give"
    BY <1>9 DEF FlushGive, drvVars, At
  <2>2. MuxInv' /\ StashInv' /\ OpInv' /\ pc' \in [Tasks -> PCs]
    BY <1>1, <1>2, <2>1, TaskFrame
  <2>3. Types'
    BY <1>1, <1>9, <2>1, <2>2 DEF Types, FlushGive, hwVars, drvVars
  <2> QED
    BY <2>2, <2>3 DEF Ctl
<1>10. CASE FlushStash(t)
  <2>1. pc[t] = "f_stash"
    BY <1>10 DEF FlushStash, SendStash, At
  <2> QED
    BY <1>2, <1>10, <2>1, SendStashCtl DEF FlushStash
<1>11. CASE FlushCount(t)
  <2>1. pc[t] = "f_count"
    BY <1>11 DEF FlushCount, CountStash, At
  <2> QED
    BY <1>2, <1>11, <2>1, CountStashCtl DEF FlushCount
<1>12. CASE FlushClear(t)
  <2>1. pc[t] = "f_clear"
    BY <1>12 DEF FlushClear, ClearFlag, At
  <2> QED
    BY <1>2, <1>12, <2>1, ClearFlagCtl DEF FlushClear
<1>13. CASE FlushEnable(t)
  <2>1. /\ At(t, "f_enable", "idle") /\ stash' = stash /\ rx_stash_len' = rx_stash_len
        /\ rx_buffer_full_flg' = rx_buffer_full_flg /\ isrPc' = isrPc /\ op' = op /\ pc[t] = "f_enable"
    BY <1>13 DEF FlushEnable, drvVars, At
  <2>2. MuxInv' /\ StashInv' /\ OpInv' /\ pc' \in [Tasks -> PCs]
    BY <1>1, <1>2, <2>1, TaskFrame
  <2>3. Types'
    BY <1>1, <1>13, <2>1, <2>2 DEF Types, FlushEnable, drvVars, ringVars
  <2> QED
    BY <2>2, <2>3 DEF Ctl
<1> QED
  BY <1>3, <1>4, <1>5, <1>6, <1>7, <1>8, <1>9, <1>10, <1>11, <1>12, <1>13 DEF FlushSteps
-----------------------------------------------------------------------------
\* What a step does to the line and to the record of what was dropped.
LineKept == Line' = Line /\ lost' = lost /\ next' = next

\* A stretch b is gone; it is recorded.
Dropped == \E b \in Seq(Nat) : IsCut(Line, Line', b) /\ lost' = lost \cup ElementsOf(b) /\ next' = next

\* A stretch is gone without trace: a stash was written over it.
Overrun == ~ StashFits /\ lost' = lost /\ next' = next /\ \E b \in Seq(Nat) : IsCut(Line, Line', b)

\* All that a byte on the line depends on.
Bytes == <<got, rest, ring, stash, rxfifo, lost, next>>

(* The line in the form the lemmas above speak of.                         *)
LEMMA LineIs ==
  Line = Joined(got, rest, ring, stash, rxfifo) /\ Line' = Joined(got', rest', ring', stash', rxfifo')
BY DEF Line, Joined, Cat

(* Every place holds a sequence of bytes.                                  *)
LEMMA SeqTypes ==
  ASSUME Types
  PROVE  /\ rxfifo \in Seq(Nat) /\ stash \in Seq(Nat) /\ ring \in Seq(Nat) /\ rest \in Seq(Nat) /\ got \in Seq(Nat)
         /\ Line \in Seq(Nat)
<1>1. rxfifo \in Seq(Nat) /\ stash \in Seq(Nat) /\ ring \in Seq(Nat) /\ rest \in Seq(Nat) /\ got \in Seq(Nat)
  BY DEF Types
<1>2. 0 \in Nat
  OBVIOUS
<1>3. Joined(got, rest, ring, stash, rxfifo) \in Seq(Nat)
  BY ONLY <1>1, <1>2, JoinedAppend
<1> QED
  BY <1>1, <1>3, LineIs

(* A step that moves no byte.                                              *)
LEMMA StillLine ==
  ASSUME UNCHANGED Bytes
  PROVE  LineKept
BY LineIs DEF Bytes, LineKept

(* uart_reset_fifo drops what is in the FIFO.                              *)
LEMMA FifoEmptied ==
  ASSUME Types, rxfifo' = <<>>, lost' = lost \cup ElementsOf(rxfifo), next' = next,
         got' = got, rest' = rest, ring' = ring, stash' = stash
  PROVE  Dropped
<1>1. rxfifo \in Seq(Nat) /\ stash \in Seq(Nat) /\ ring \in Seq(Nat) /\ rest \in Seq(Nat) /\ got \in Seq(Nat)
  BY SeqTypes
<1>2. IsCut(Joined(got, rest, ring, stash, rxfifo), Joined(got, rest, ring, stash, <<>>), rxfifo)
  BY ONLY <1>1, CutFifo
<1>3. IsCut(Line, Line', rxfifo)
  BY <1>2, LineIs
<1> QED
  BY <1>1, <1>3 DEF Dropped

(* A stash sent where it fits is moved, not lost.                          *)
LEMMA StashFilled ==
  ASSUME Types, ring' = ring \o stash, stash' = <<>>,
         got' = got, rest' = rest, rxfifo' = rxfifo, lost' = lost, next' = next
  PROVE  LineKept
<1>1. rxfifo \in Seq(Nat) /\ stash \in Seq(Nat) /\ ring \in Seq(Nat) /\ rest \in Seq(Nat) /\ got \in Seq(Nat)
  BY SeqTypes
<1>2. Joined(got, rest, ring, stash, rxfifo) = Joined(got, rest, Cat(ring, stash), <<>>, rxfifo)
  BY ONLY <1>1, StashJoins
<1>3. ring' = Cat(ring, stash)
  BY DEF Cat
<1> QED
  BY <1>2, <1>3, LineIs DEF LineKept

(* The handler moves bytes or resets the FIFO.                             *)
LEMMA HandlerLine ==
  ASSUME Ctl, Isr
  PROVE  LineKept \/ Dropped
<1>1. Types /\ StashInv
  BY DEF Ctl
<1>2. CASE IsrRead
  <2>1. stash = <<>> /\ stash' = rxfifo /\ rxfifo' = <<>> /\ got' = got /\ rest' = rest /\ ring' = ring
        /\ lost' = lost /\ next' = next
    BY <1>1, <1>2 DEF IsrRead, StashInv, ringVars
  <2>2. rxfifo \in Seq(Nat) /\ ring \in Seq(Nat) /\ rest \in Seq(Nat) /\ got \in Seq(Nat)
    BY <1>1, SeqTypes
  <2>3. Joined(got, rest, ring, <<>>, rxfifo) = Joined(got, rest, ring, rxfifo, <<>>)
    BY ONLY <2>2, FifoRead
  <2> QED
    BY <2>1, <2>3, LineIs DEF LineKept
<1>3. CASE IsrSend
  <2>1. got' = got /\ rest' = rest /\ rxfifo' = rxfifo /\ lost' = lost /\ next' = next
    BY <1>3 DEF IsrSend, hwVars
  <2>2. CASE ring' = ring \o stash /\ stash' = <<>>
    BY <1>1, <2>1, <2>2, StashFilled
  <2>3. CASE ring' = ring /\ stash' = stash
    BY <2>1, <2>3, StillLine DEF Bytes
  <2> QED
    BY <1>3, <2>2, <2>3 DEF IsrSend
<1>4. CASE IsrOverflow
  <2>1. /\ rxfifo' = <<>> /\ lost' = lost \cup ElementsOf(rxfifo) /\ next' = next
        /\ got' = got /\ rest' = rest /\ ring' = ring /\ stash' = stash
    BY <1>4 DEF IsrOverflow, drvVars, ringVars
  <2> QED
    BY <1>1, <2>1, FifoEmptied
<1>5. CASE IsrStillFull \/ IsrCount \/ IsrDisable \/ IsrFlag
  <2>1. UNCHANGED Bytes
    BY <1>5 DEF IsrStillFull, IsrCount, IsrDisable, IsrFlag, hwVars, drvVars, ringVars, Bytes
  <2> QED
    BY <2>1, StillLine
<1> QED
  BY <1>2, <1>3, <1>4, <1>5 DEF Isr

(* A call that sends the stash moves it, or writes over unread bytes.      *)
LEMMA SendStashLine ==
  ASSUME Ctl, NEW t \in Tasks, NEW here \in {"stash", "f_stash"}, NEW sent \in {"count", "f_count"},
         NEW next_, SendStash(t, here, sent, next_)
  PROVE  LineKept \/ Overrun
<1>1. Types
  BY DEF Ctl
<1>2. got' = got /\ rest' = rest /\ rxfifo' = rxfifo /\ lost' = lost /\ next' = next
  BY DEF SendStash, hwVars
<1>3. CASE ring' = ring /\ stash' = stash
  BY <1>2, <1>3, StillLine DEF Bytes
<1>4. CASE At(t, here, sent) /\ ring' = Written(ring \o stash) /\ stash' = <<>>
  <2>0. rxfifo \in Seq(Nat) /\ stash \in Seq(Nat) /\ ring \in Seq(Nat) /\ rest \in Seq(Nat) /\ got \in Seq(Nat)
    BY <1>1, SeqTypes
  <2>1. CASE Len(ring \o stash) < RxBufferSize
    <3>1. ring' = ring \o stash
      BY <1>4, <2>1 DEF Written
    <3> QED
      BY <1>1, <1>2, <1>4, <3>1, StashFilled
  <2>2. CASE ~ (Len(ring \o stash) < RxBufferSize)
    <3>1. PICK w \in Seq(Nat) : w = Cat(ring, stash) /\ Len(w) = Len(ring) + Len(stash)
      <4>1. ring \o stash \in Seq(Nat) /\ Len(ring \o stash) = Len(ring) + Len(stash)
        BY ONLY <2>0, Joining
      <4> QED
        BY ONLY <4>1 DEF Cat
    <3>2. ring' = SubSeq(w, RxBufferSize + 1, Len(w))
      BY <1>4, <2>2, <3>1 DEF Written, Cat
    <3>3. RxBufferSize \in 0 .. Len(w)
      <4>1. w = ring \o stash /\ Len(w) \in Nat
        BY <3>1 DEF Cat
      <4> QED
        BY <2>2, <4>1
    <3>4. PICK b \in Seq(Nat) : w = Cat(b, ring') /\ ring' \in Seq(Nat)
      BY ONLY <3>2, <3>3, w \in Seq(Nat), Cutting DEF Cat
    <3>5. Joined(got, rest, ring, stash, rxfifo) = Joined(got, rest, w, <<>>, rxfifo)
      <4>1. Joined(got, rest, ring, stash, rxfifo) = Joined(got, rest, Cat(ring, stash), <<>>, rxfifo)
        BY ONLY <2>0, StashJoins
      <4> QED
        BY <3>1, <4>1
    <3>6. IsCut(Joined(got, rest, Cat(b, ring'), <<>>, rxfifo), Joined(got, rest, ring', <<>>, rxfifo), b)
      <4>1. ASSUME NEW e \in Seq(Nat), NEW q \in Seq(Nat)
            PROVE  IsCut(Joined(got, rest, Cat(b, q), e, rxfifo), Joined(got, rest, q, e, rxfifo), b)
        BY ONLY <2>0, CutRing, b \in Seq(Nat), q \in Seq(Nat), e \in Seq(Nat)
      <4>2. <<>> \in Seq(Nat)
        OBVIOUS
      <4> QED
        BY <3>4, <4>1, <4>2
    <3>7. IsCut(Line, Line', b)
      BY <1>2, <1>4, <3>4, <3>5, <3>6, LineIs
    <3>8. ~ StashFits
      <4>1. pc[t] = here /\ pc'[t] = sent
        BY <1>1, <1>4 DEF Types, At
      <4>2. ~ (Len(ring) + Len(stash) < RxBufferSize)
        BY <2>2, <3>1 DEF Cat
      <4> QED
        BY <4>1, <4>2 DEF StashFits
    <3> QED
      BY <1>2, <3>4, <3>7, <3>8 DEF Overrun
  <2> QED
    BY <2>1, <2>2
<1> QED
  BY <1>3, <1>4 DEF SendStash

(* uart_read_bytes drops nothing by itself.                                *)
LEMMA ReadLine ==
  ASSUME Ctl, NEW t \in Tasks, Read(t) \/ ReadSteps(t)
  PROVE  LineKept \/ Overrun
<1>1. Types
  BY DEF Ctl
<1>2. rxfifo \in Seq(Nat) /\ stash \in Seq(Nat) /\ ring \in Seq(Nat) /\ rest \in Seq(Nat) /\ got \in Seq(Nat)
  BY <1>1, SeqTypes
<1>3. CASE ReadReceive(t)
  <2>1. got' = got /\ stash' = stash /\ rxfifo' = rxfifo /\ lost' = lost /\ next' = next
    BY <1>3 DEF ReadReceive, drvVars, hwVars
  <2>2. CASE UNCHANGED ringVars
    BY <2>1, <2>2, StillLine DEF Bytes, ringVars
  <2>3. CASE rest = <<>> /\ \E n \in 1 .. Len(ring) : Lend(n) /\ rest' = SubSeq(ring, 1, n)
    <3>1. PICK n \in 1 .. Len(ring) : ring' = SubSeq(ring, n + 1, Len(ring)) /\ rest' = SubSeq(ring, 1, n)
      BY <2>3 DEF Lend
    <3>2. n \in 0 .. Len(ring)
      BY <1>2
    <3>3. PICK r \in Seq(Nat), q \in Seq(Nat) : ring = Cat(r, q) /\ rest' = r /\ ring' = q
      BY ONLY <1>2, <3>1, <3>2, Cutting DEF Cat
    <3>4. Joined(got, <<>>, Cat(r, q), stash, rxfifo) = Joined(got, r, q, stash, rxfifo)
      BY ONLY <1>2, r \in Seq(Nat), q \in Seq(Nat), PieceLent
    <3> QED
      BY <2>1, <2>3, <3>3, <3>4, LineIs DEF LineKept
  <2> QED
    BY <1>3, <2>2, <2>3 DEF ReadReceive
<1>4. CASE ReadCopy(t)
  <2> DEFINE n == IF Len(rest) > op[t].length THEN op[t].length ELSE Len(rest)
  <2>1. n \in 0 .. Len(rest)
    BY <1>1, <1>2 DEF Types
  <2>2. got' = got \o SubSeq(rest, 1, n) /\ rest' = SubSeq(rest, n + 1, Len(rest))
    BY <1>4 DEF ReadCopy
  <2>3. ring' = ring /\ stash' = stash /\ rxfifo' = rxfifo /\ lost' = lost /\ next' = next
    BY <1>4 DEF ReadCopy, drvVars, hwVars
  <2> HIDE DEF n
  <2>4. PICK r \in Seq(Nat), u \in Seq(Nat) : rest = Cat(r, u) /\ got' = Cat(got, r) /\ rest' = u
    BY ONLY <1>2, <2>1, <2>2, Cutting DEF Cat
  <2>5. Joined(got, Cat(r, u), ring, stash, rxfifo) = Joined(Cat(got, r), u, ring, stash, rxfifo)
    BY ONLY <1>2, r \in Seq(Nat), u \in Seq(Nat), PieceCopied
  <2> QED
    BY <2>3, <2>4, <2>5, LineIs DEF LineKept
<1>5. CASE ReadStash(t)
  BY <1>5, SendStashLine DEF ReadStash
<1>6. CASE Read(t) \/ ReadLeave(t) \/ ReadReturn(t) \/ ReadEnable(t) \/ ReadGiveMux(t)
  <2>1. UNCHANGED Bytes
    BY <1>6 DEF Read, ReadBytes, ReadLeave, ReadReturn, ReadEnable, ReadGiveMux, hwVars, drvVars, ringVars, Bytes
  <2> QED
    BY <2>1, StillLine
<1>7. CASE ReadCount(t) \/ ReadClear(t) \/ ReadSubtract(t)
  <2>1. UNCHANGED Bytes
    BY <1>7 DEF ReadCount, ReadClear, CountStash, ClearFlag, ReadSubtract, hwVars, drvVars, ringVars, Bytes
  <2> QED
    BY <2>1, StillLine
<1> QED
  BY <1>3, <1>4, <1>5, <1>6, <1>7 DEF ReadSteps

(* uart_flush records what it drops.                                       *)
LEMMA FlushLine ==
  ASSUME Ctl, NEW t \in Tasks, Flush(t) \/ FlushSteps(t)
  PROVE  LineKept \/ Dropped \/ Overrun
<1>1. Types
  BY DEF Ctl
<1>2. rxfifo \in Seq(Nat) /\ stash \in Seq(Nat) /\ ring \in Seq(Nat) /\ rest \in Seq(Nat) /\ got \in Seq(Nat)
  BY <1>1, SeqTypes
<1>3. CASE FlushDrop(t)
  <2>1. /\ rest' = <<>> /\ lost' = lost \cup ElementsOf(rest) /\ next' = next
        /\ got' = got /\ ring' = ring /\ stash' = stash /\ rxfifo' = rxfifo
    BY <1>3 DEF FlushDrop, hwVars
  <2>2. IsCut(Joined(got, rest, ring, stash, rxfifo), Joined(got, <<>>, ring, stash, rxfifo), rest)
    BY ONLY <1>2, CutRest
  <2>3. IsCut(Line, Line', rest)
    BY <2>1, <2>2, LineIs
  <2> QED
    BY <1>2, <2>1, <2>3 DEF Dropped
<1>4. CASE FlushReceive(t)
  <2>1. got' = got /\ rest' = rest /\ stash' = stash /\ rxfifo' = rxfifo /\ next' = next
    BY <1>4 DEF FlushReceive, drvVars, hwVars
  <2>2. CASE UNCHANGED <<ring, held, lost>>
    BY <2>1, <2>2, StillLine DEF Bytes
  <2>3. CASE \E n \in 1 .. Len(ring) : Lend(n) /\ lost' = lost \cup ElementsOf(SubSeq(ring, 1, n))
    <3>1. PICK n \in 1 .. Len(ring) : /\ ring' = SubSeq(ring, n + 1, Len(ring))
                                      /\ lost' = lost \cup ElementsOf(SubSeq(ring, 1, n))
      BY <2>3 DEF Lend
    <3>2. n \in 0 .. Len(ring)
      BY <1>2
    <3>3. PICK b \in Seq(Nat), q \in Seq(Nat) : ring = Cat(b, q) /\ ring' = q /\ lost' = lost \cup ElementsOf(b)
      BY ONLY <1>2, <3>1, <3>2, Cutting DEF Cat
    <3>4. IsCut(Joined(got, rest, Cat(b, q), stash, rxfifo), Joined(got, rest, q, stash, rxfifo), b)
      BY ONLY <1>2, b \in Seq(Nat), q \in Seq(Nat), CutRing
    <3>5. IsCut(Line, Line', b)
      BY <2>1, <3>3, <3>4, LineIs
    <3> QED
      BY <2>1, <3>3, <3>5 DEF Dropped
  <2> QED
    BY <1>4, <2>2, <2>3 DEF FlushReceive
<1>5. CASE FlushEnable(t)
  <2>1. /\ rxfifo' = <<>> /\ lost' = lost \cup ElementsOf(rxfifo) /\ next' = next
        /\ got' = got /\ rest' = rest /\ ring' = ring /\ stash' = stash
    BY <1>5 DEF FlushEnable, drvVars, ringVars
  <2> QED
    BY <1>1, <2>1, FifoEmptied
<1>6. CASE FlushStash(t)
  BY <1>6, SendStashLine DEF FlushStash
<1>7. CASE Flush(t) \/ FlushDisable(t) \/ FlushReturn(t) \/ FlushSubtract(t) \/ FlushGive(t)
  <2>1. UNCHANGED Bytes
    BY <1>7 DEF Flush, FlushDisable, FlushReturn, FlushSubtract, FlushGive, hwVars, drvVars, ringVars, Bytes
  <2> QED
    BY <2>1, StillLine
<1>8. CASE FlushCount(t) \/ FlushClear(t)
  <2>1. UNCHANGED Bytes
    BY <1>8 DEF FlushCount, FlushClear, CountStash, ClearFlag, hwVars, drvVars, ringVars, Bytes
  <2> QED
    BY <2>1, StillLine
<1> QED
  BY <1>3, <1>4, <1>5, <1>6, <1>7, <1>8 DEF FlushSteps

(* Every step keeps the bytes that are somewhere in order, and nothing     *)
(* goes missing unless a stash is written over unread bytes.               *)
LEMMA StepOrder ==
  ASSUME Ctl, InOrder(Line, lost, next), [Next]_vars
  PROVE  /\ InOrder(Line, lost, next)'
         /\ StashFits /\ Whole(Line, lost, next) => Whole(Line, lost, next)'
<1>1. Types
  BY DEF Ctl
<1>2. Line \in Seq(Nat) /\ next \in Nat /\ next \in Nat \ {0}
  BY <1>1, SeqTypes DEF Types
<1>3. CASE LineKept
  BY <1>3 DEF LineKept
<1>4. ASSUME NEW b \in Seq(Nat), IsCut(Line, Line', b)
      PROVE  /\ InOrder(Line', lost \cup ElementsOf(b), next) /\ InOrder(Line', lost, next)
             /\ Whole(Line, lost, next) => Whole(Line', lost \cup ElementsOf(b), next)
  <2>1. PICK a \in Seq(Nat), c \in Seq(Nat) : Line = Cat(Cat(a, b), c) /\ Line' = Cat(a, c)
    BY <1>4 DEF IsCut
  <2>2. InOrder(Cat(Cat(a, b), c), lost, next)
    BY <2>1
  <2>3. /\ InOrder(Cat(a, c), lost \cup ElementsOf(b), next) /\ InOrder(Cat(a, c), lost, next)
        /\ Whole(Cat(Cat(a, b), c), lost, next) => Whole(Cat(a, c), lost \cup ElementsOf(b), next)
    BY ONLY <1>2, <2>2, a \in Seq(Nat), b \in Seq(Nat), c \in Seq(Nat), TakeOut
  <2> QED
    BY <2>1, <2>3
<1>5. CASE Dropped
  <2>1. PICK b \in Seq(Nat) : IsCut(Line, Line', b) /\ lost' = lost \cup ElementsOf(b) /\ next' = next
    BY <1>5 DEF Dropped
  <2> QED
    BY <1>4, <2>1
<1>6. CASE Overrun
  BY <1>4, <1>6 DEF Overrun
<1>7. CASE ByteArrives
  <2>1. /\ InOrder(Append(Line, next), lost, next + 1) /\ InOrder(Line, lost \cup {next}, next + 1)
        /\ Whole(Line, lost, next) =>
             Whole(Append(Line, next), lost, next + 1) /\ Whole(Line, lost \cup {next}, next + 1)
    BY ONLY <1>2, OneMore, InOrder(Line, lost, next)
  <2>2. next' = next + 1 /\ got' = got /\ rest' = rest /\ ring' = ring /\ stash' = stash
    BY <1>7 DEF ByteArrives, drvVars, ringVars
  <2>3. CASE rxfifo' = Append(rxfifo, next) /\ lost' = lost
    <3>1. rxfifo \in Seq(Nat) /\ stash \in Seq(Nat) /\ ring \in Seq(Nat) /\ rest \in Seq(Nat) /\ got \in Seq(Nat)
      BY <1>1, SeqTypes
    <3>2. Joined(got, rest, ring, stash, Append(rxfifo, next)) = Append(Joined(got, rest, ring, stash, rxfifo), next)
      BY ONLY <1>2, <3>1, JoinedAppend
    <3>3. Line' = Append(Line, next)
      BY <2>2, <2>3, <3>2, LineIs
    <3> QED
      BY <2>1, <2>2, <2>3, <3>3
  <2>4. CASE rxfifo' = rxfifo /\ lost' = lost \cup {next}
    <3>1. Line' = Line
      BY <2>2, <2>4, LineIs
    <3> QED
      BY <2>1, <2>2, <2>4, <3>1
  <2> QED
    BY <1>7, <2>3, <2>4 DEF ByteArrives
<1>8. CASE UNCHANGED vars
  <2>1. UNCHANGED Bytes
    BY <1>8 DEF vars, hwVars, drvVars, ringVars, Bytes
  <2> QED
    BY <1>3, <2>1, StillLine
<1> QED
  BY <1>3, <1>5, <1>6, <1>7, <1>8, HandlerLine, ReadLine, FlushLine DEF Next
-----------------------------------------------------------------------------
\* The same for any value of op.
CopiedOf(o) == {x \in Tasks \X Nat : x[2] \in 1 .. o[x[1]].copied}

(* A call that copies n more bytes.                                        *)
LEMMA MoreCopied ==
  ASSUME NEW o \in [Tasks -> [length : Nat, copied : Nat]], NEW o2 \in [Tasks -> [length : Nat, copied : Nat]],
         NEW t \in Tasks, NEW n \in Nat, o2[t].copied = o[t].copied + n,
         \A u \in Tasks \ {t} : o2[u].copied = o[u].copied,
         IsFiniteSet(CopiedOf(o))
  PROVE  IsFiniteSet(CopiedOf(o2)) /\ Cardinality(CopiedOf(o2)) = Cardinality(CopiedOf(o)) + n
<1>1. PICK c \in Nat : c = o[t].copied
  OBVIOUS
<1> DEFINE I == c + 1 .. c + n
           M == {t} \X I
<1>2. IsFiniteSet(I) /\ Cardinality(I) = n
  <2>1. c + 1 \in Int /\ c + n \in Int
    OBVIOUS
  <2>2. IsFiniteSet(I) /\ Cardinality(I) = IF c + 1 > c + n THEN 0 ELSE (c + n) - (c + 1) + 1
    BY ONLY <2>1, FS_Interval
  <2> QED
    BY <2>2
<1>3. IsFiniteSet(M) /\ Cardinality(M) = n
  <2>1. IsFiniteSet({t}) /\ Cardinality({t}) = 1
    BY FS_Singleton
  <2> HIDE DEF I
  <2>2. IsFiniteSet(M) /\ Cardinality(M) = 1 * Cardinality(I)
    BY <1>2, <2>1, FS_Product
  <2> QED
    BY <1>2, <2>2
<1>4. CopiedOf(o2) = CopiedOf(o) \cup M
  <2>1. ASSUME NEW u \in Tasks, NEW i \in Nat
        PROVE  <<u, i>> \in CopiedOf(o2) <=> <<u, i>> \in CopiedOf(o) \cup M
    <3>1. (<<u, i>> \in CopiedOf(o2) <=> i \in 1 .. o2[u].copied) /\ (<<u, i>> \in CopiedOf(o) <=> i \in 1 .. o[u].copied)
      BY DEF CopiedOf
    <3>2. <<u, i>> \in M <=> u = t /\ i \in I
      OBVIOUS
    <3>3. u = t => (i \in 1 .. c + n <=> i \in 1 .. c \/ i \in I)
      OBVIOUS
    <3> QED
      BY <1>1, <3>1, <3>2, <3>3
  <2>2. CopiedOf(o2) \subseteq Tasks \X Nat /\ CopiedOf(o) \cup M \subseteq Tasks \X Nat
    BY DEF CopiedOf
  <2> HIDE DEF M
  <2> QED
    BY <2>1, <2>2
<1>5. CopiedOf(o) \cap M = {}
  BY <1>1 DEF CopiedOf
<1>6. Cardinality(CopiedOf(o)) \in Nat
  BY FS_CardinalityType
<1> HIDE DEF M
<1>7. /\ IsFiniteSet(CopiedOf(o) \cup M)
      /\ Cardinality(CopiedOf(o) \cup M) = Cardinality(CopiedOf(o)) + Cardinality(M) - Cardinality(CopiedOf(o) \cap M)
  BY <1>3, FS_Union
<1>8. Cardinality(CopiedOf(o) \cap M) = 0
  BY <1>5, FS_EmptySet
<1>9. Cardinality(CopiedOf(o) \cup M) = Cardinality(CopiedOf(o)) + n
  BY ONLY <1>3, <1>6, <1>7, <1>8, n \in Nat
<1> QED
  BY <1>4, <1>7, <1>9

(* The bytes copied depend on op only.                                     *)
LEMMA CopiedIs == CopiedBytes = CopiedOf(op) /\ CopiedBytes' = CopiedOf(op')
BY DEF CopiedBytes, CopiedOf

\* The places where a call has sent the stash and not yet counted it.
CountPCs == {"count", "f_count"}

(* With rx_mux a call is the only one that sends a stash or drops bytes.   *)
LEMMA Places ==
  ASSUME Types, MuxInv, NEW t \in Tasks, NEW from, NEW to \in PCs, At(t, from, to),
         from \notin {"idle", "sub"} \/ rx_mux = "none"
  PROVE  /\ Counting <=> from \in CountPCs
         /\ Counting' <=> to \in CountPCs
         /\ Taken <=> from = "f_sub"
         /\ Taken' <=> to = "f_sub"
<1>1. pc[t] = from /\ pc'[t] = to /\ \A u \in Tasks \ {t} : pc'[u] = pc[u]
  BY Moves
<1>2. \A u \in Tasks \ {t} : pc[u] \in {"idle", "sub"}
  BY <1>1, Alone
<1>3. (Counting <=> from \in CountPCs) /\ (Counting' <=> to \in CountPCs)
  BY <1>1, <1>2 DEF Counting, CountPCs
<1>4. (Taken <=> from = "f_sub") /\ (Taken' <=> to = "f_sub")
  BY <1>1, <1>2 DEF Taken
<1> QED
  BY <1>3, <1>4

\* What has been put into the ring and is not yet counted.
Uncounted == IF isrPc = "count" \/ Counting THEN rx_stash_len ELSE 0
\* What uart_flush has taken out and not yet taken off the count.
Undropped == IF Taken THEN held ELSE 0

(* Everything in the balance is a number.                                  *)
LEMMA LenTypes ==
  ASSUME Types, LenInv
  PROVE  /\ rx_buffered_len \in Int /\ Uncounted \in Nat /\ Undropped \in Nat /\ Cardinality(CopiedBytes) \in Nat
         /\ Len(ring) \in Nat /\ Len(rest) \in Nat /\ Len(stash) \in Nat /\ held \in Nat /\ rx_stash_len \in Nat
<1>1. Cardinality(CopiedBytes) \in Nat
  BY FS_CardinalityType DEF LenInv
<1>2. ring \in Seq(Nat) /\ rest \in Seq(Nat) /\ stash \in Seq(Nat) /\ held \in Nat /\ rx_stash_len \in Nat
      /\ rx_buffered_len \in Int
  BY DEF Types
<1> QED
  BY <1>1, <1>2 DEF Uncounted, Undropped

(* The balance, with names for what is half done.                          *)
LEMMA LenIs ==
  /\ LenInv <=> /\ IsFiniteSet(CopiedBytes)
                /\ rx_buffered_len + Uncounted = Len(ring) + Len(rest) + Cardinality(CopiedBytes) + Undropped
                /\ (sameCpu /\ isrPc = "count") \/ Counting => rx_stash_len <= Len(ring)
  /\ LenInv' <=> /\ IsFiniteSet(CopiedBytes')
                 /\ rx_buffered_len' + Uncounted' = Len(ring') + Len(rest') + Cardinality(CopiedBytes') + Undropped'
                 /\ (sameCpu' /\ isrPc' = "count") \/ Counting' => rx_stash_len' <= Len(ring')
BY DEF LenInv, Uncounted, Undropped

(* The effect of a step of a call that has rx_mux or takes it.             *)
LEMMA LenTask ==
  ASSUME Types, MuxInv, StashInv, LenInv, NEW t \in Tasks, NEW from, NEW to \in PCs, At(t, from, to),
         from \notin {"idle", "sub"} \/ rx_mux = "none",
         from \in CountPCs \/ to \in CountPCs => isrPc # "count",
         sameCpu' = sameCpu, isrPc' = isrPc, rx_stash_len' = rx_stash_len,
         IsFiniteSet(CopiedBytes'),
         rx_buffered_len' \in Int, Len(ring') \in Nat, Len(rest') \in Nat, held' \in Nat,
         to \in CountPCs => rx_stash_len <= Len(ring'),
         rx_buffered_len' - rx_buffered_len
           + (IF to \in CountPCs THEN rx_stash_len ELSE 0) - (IF from \in CountPCs THEN rx_stash_len ELSE 0)
         = (Len(ring') - Len(ring)) + (Len(rest') - Len(rest))
           + (Cardinality(CopiedBytes') - Cardinality(CopiedBytes))
           + (IF to = "f_sub" THEN held' ELSE 0) - (IF from = "f_sub" THEN held ELSE 0)
  PROVE  LenInv'
<1>1. /\ Counting <=> from \in CountPCs
      /\ Counting' <=> to \in CountPCs
      /\ Taken <=> from = "f_sub"
      /\ Taken' <=> to = "f_sub"
  BY Places
<1>2. /\ rx_buffered_len \in Int /\ Uncounted \in Nat /\ Undropped \in Nat /\ Cardinality(CopiedBytes) \in Nat
      /\ Len(ring) \in Nat /\ Len(rest) \in Nat /\ Len(stash) \in Nat /\ held \in Nat /\ rx_stash_len \in Nat
  BY LenTypes
<1>3. Cardinality(CopiedBytes') \in Nat
  BY FS_CardinalityType
<1>4. rx_buffered_len + Uncounted = Len(ring) + Len(rest) + Cardinality(CopiedBytes) + Undropped
  BY LenIs
<1>5. Undropped = (IF from = "f_sub" THEN held ELSE 0) /\ Undropped' = (IF to = "f_sub" THEN held' ELSE 0)
  BY <1>1 DEF Undropped
<1>6. Uncounted' - Uncounted
        = (IF to \in CountPCs THEN rx_stash_len ELSE 0) - (IF from \in CountPCs THEN rx_stash_len ELSE 0)
  <2>1. CASE isrPc = "count"
    <3>1. from \notin CountPCs /\ to \notin CountPCs
      BY <2>1
    <3> QED
      BY <1>1, <1>2, <2>1, <3>1 DEF Uncounted
  <2>2. CASE isrPc # "count"
    BY <1>1, <1>2, <2>2 DEF Uncounted
  <2> QED
    BY <2>1, <2>2
<1>7. Uncounted' \in Nat /\ Undropped' \in Nat
  BY <1>2, <1>5 DEF Uncounted
<1>8. rx_buffered_len' + Uncounted' = Len(ring') + Len(rest') + Cardinality(CopiedBytes') + Undropped'
  <2> DEFINE x1 == IF to \in CountPCs THEN rx_stash_len ELSE 0
             x2 == IF from \in CountPCs THEN rx_stash_len ELSE 0
             y1 == IF to = "f_sub" THEN held' ELSE 0
             y2 == IF from = "f_sub" THEN held ELSE 0
  <2>1. x1 \in Nat /\ x2 \in Nat /\ y1 \in Nat /\ y2 \in Nat
    BY <1>2
  <2>2. rx_buffered_len' - rx_buffered_len + x1 - x2
         = (Len(ring') - Len(ring)) + (Len(rest') - Len(rest))
           + (Cardinality(CopiedBytes') - Cardinality(CopiedBytes)) + y1 - y2
    OBVIOUS
  <2>3. Uncounted' - Uncounted = x1 - x2 /\ Undropped = y2 /\ Undropped' = y1
    BY <1>5, <1>6
  <2> HIDE DEF x1, x2, y1, y2
  <2>4. rx_buffered_len' - rx_buffered_len + (Uncounted' - Uncounted)
         = (Len(ring') - Len(ring)) + (Len(rest') - Len(rest))
           + (Cardinality(CopiedBytes') - Cardinality(CopiedBytes)) + (Undropped' - Undropped)
    BY ONLY <1>2, <1>3, <1>7, <2>1, <2>2, <2>3, rx_buffered_len' \in Int, Len(ring') \in Nat, Len(rest') \in Nat
  <2>5. PICK u \in Nat, c \in Nat, d \in Nat, u2 \in Nat, c2 \in Nat, d2 \in Nat :
          /\ u = Uncounted /\ c = Cardinality(CopiedBytes) /\ d = Undropped
          /\ u2 = Uncounted' /\ c2 = Cardinality(CopiedBytes') /\ d2 = Undropped'
    BY ONLY <1>2, <1>3, <1>7
  <2>6. PICK b \in Int, b2 \in Int, q \in Nat, q2 \in Nat, r \in Nat, r2 \in Nat :
          /\ b = rx_buffered_len /\ q = Len(ring) /\ r = Len(rest)
          /\ b2 = rx_buffered_len' /\ q2 = Len(ring') /\ r2 = Len(rest')
    BY ONLY <1>2, rx_buffered_len' \in Int, Len(ring') \in Nat, Len(rest') \in Nat
  <2>7. b + u = q + r + c + d /\ b2 - b + (u2 - u) = (q2 - q) + (r2 - r) + (c2 - c) + (d2 - d)
    BY ONLY <1>4, <2>4, <2>5, <2>6
  <2>8. b2 + u2 = q2 + r2 + c2 + d2
    BY ONLY <2>7, b \in Int, b2 \in Int, u \in Nat, u2 \in Nat, q \in Nat, q2 \in Nat, r \in Nat, r2 \in Nat,
       c \in Nat, c2 \in Nat, d \in Nat, d2 \in Nat
  <2> QED
    BY ONLY <2>5, <2>6, <2>8
<1>9. (sameCpu' /\ isrPc' = "count") \/ Counting' => rx_stash_len' <= Len(ring')
  <2>1. ~ (sameCpu /\ isrPc = "count")
    BY DEF At
  <2> QED
    BY <1>1, <2>1
<1> QED
  BY <1>8, <1>9, LenIs

(* The handler counts what it has sent.                                    *)
LEMMA HandlerLen ==
  ASSUME Ctl, LenInv, ByteArrives \/ Isr
  PROVE  LenInv'
<1>1. Types /\ StashInv
  BY DEF Ctl
<1>2. /\ rx_buffered_len \in Int /\ Uncounted \in Nat /\ Undropped \in Nat /\ Cardinality(CopiedBytes) \in Nat
      /\ Len(ring) \in Nat /\ Len(rest) \in Nat /\ Len(stash) \in Nat /\ held \in Nat /\ rx_stash_len \in Nat
  BY <1>1, LenTypes
<1>3. pc' = pc /\ op' = op /\ sameCpu' = sameCpu /\ rest' = rest /\ held' = held
  BY DEF ByteArrives, Isr, IsrRead, IsrStillFull, IsrSend, IsrCount, IsrDisable, IsrFlag, IsrOverflow,
         ringVars, taskVars
<1>4. /\ Counting' <=> Counting
      /\ CopiedBytes' = CopiedBytes /\ Undropped' = Undropped
  BY <1>3 DEF Counting, Undropped, Taken, CopiedBytes
<1>5. /\ IsFiniteSet(CopiedBytes)
      /\ rx_buffered_len + Uncounted = Len(ring) + Len(rest) + Cardinality(CopiedBytes) + Undropped
      /\ (sameCpu /\ isrPc = "count") \/ Counting => rx_stash_len <= Len(ring)
  BY LenIs
<1>6. isrPc \in {"send", "count", "full", "flag"} \/ ~ rx_buffer_full_flg => ~ Counting
  BY <1>1 DEF Counting, StashInv, Sending, SendingPCs
<1>7. CASE /\ ring' = ring /\ rx_stash_len' = rx_stash_len /\ rx_buffered_len' = rx_buffered_len
           /\ isrPc' = "count" <=> isrPc = "count"
  <2>1. Uncounted' = Uncounted
    BY <1>4, <1>7 DEF Uncounted
  <2> QED
    BY <1>3, <1>4, <1>5, <1>7, <2>1, LenIs
<1>8. CASE ByteArrives \/ IsrStillFull \/ IsrDisable \/ IsrFlag \/ IsrOverflow
  <2>1. ring' = ring /\ rx_stash_len' = rx_stash_len /\ rx_buffered_len' = rx_buffered_len
    BY <1>8 DEF ByteArrives, IsrStillFull, IsrDisable, IsrFlag, IsrOverflow, ringVars, drvVars
  <2>2. isrPc' = "count" <=> isrPc = "count"
    BY <1>8 DEF ByteArrives, IsrStillFull, IsrDisable, IsrFlag, IsrOverflow
  <2> QED
    BY <1>7, <2>1, <2>2
<1>9. CASE IsrRead
  <2>1. isrPc = "idle" /\ isrPc' = "send" /\ ~ Counting /\ ring' = ring /\ rx_buffered_len' = rx_buffered_len
    BY <1>6, <1>9 DEF IsrRead, ringVars
  <2>2. Uncounted = 0 /\ Uncounted' = 0
    BY <1>4, <2>1 DEF Uncounted
  <2> QED
    BY <1>3, <1>4, <1>5, <2>1, <2>2, LenIs
<1>10. CASE IsrSend
  <2>1. /\ isrPc = "send" /\ ~ Counting /\ rx_buffered_len' = rx_buffered_len
        /\ rx_stash_len' = rx_stash_len /\ rx_stash_len = Len(stash)
    BY <1>1, <1>6, <1>10 DEF IsrSend, StashInv
  <2>2. CASE ring' = ring /\ isrPc' = "full"
    BY <1>7, <2>1, <2>2
  <2>3. CASE ring' = ring \o stash /\ isrPc' = "count"
    <3>1. Len(ring') = Len(ring) + Len(stash)
      <4>1. ring \in Seq(Nat) /\ stash \in Seq(Nat)
        BY <1>1, SeqTypes
      <4>2. Len(ring \o stash) = Len(ring) + Len(stash)
        BY ONLY <4>1, Joining
      <4> QED
        BY <2>3, <4>2
    <3>2. Uncounted = 0 /\ Uncounted' = Len(stash)
      BY <1>4, <2>1, <2>3 DEF Uncounted
    <3>3. rx_buffered_len' + Uncounted' = Len(ring') + Len(rest') + Cardinality(CopiedBytes') + Undropped'
      <4>1. rx_buffered_len + Len(stash)
              = (Len(ring) + Len(stash)) + Len(rest) + Cardinality(CopiedBytes) + Undropped
        <5>1. rx_buffered_len + 0 = Len(ring) + Len(rest) + Cardinality(CopiedBytes) + Undropped
          BY <1>5, <3>2
        <5> QED
          BY ONLY <1>2, <5>1
      <4> QED
        BY <1>3, <1>4, <2>1, <3>1, <3>2, <4>1
    <3>4. rx_stash_len' <= Len(ring')
      BY <1>2, <2>1, <3>1
    <3> QED
      BY <1>4, <1>5, <3>3, <3>4, LenIs
  <2> QED
    BY <1>10, <2>2, <2>3 DEF IsrSend
<1>11. CASE IsrCount
  <2>1. /\ isrPc = "count" /\ isrPc' = "idle" /\ ~ Counting /\ ring' = ring
        /\ rx_buffered_len' = rx_buffered_len + rx_stash_len
    BY <1>6, <1>11 DEF IsrCount, ringVars
  <2>2. Uncounted = rx_stash_len /\ Uncounted' = 0
    BY <1>4, <2>1 DEF Uncounted
  <2>3. rx_buffered_len' + Uncounted' = Len(ring') + Len(rest') + Cardinality(CopiedBytes') + Undropped'
    BY <1>2, <1>3, <1>4, <1>5, <2>1, <2>2
  <2> QED
    BY <1>4, <1>5, <2>1, <2>3, LenIs
<1> QED
  BY <1>8, <1>9, <1>10, <1>11 DEF Isr

(* A step that changes none of what is counted.                            *)
LEMMA LenQuiet ==
  ASSUME Types, MuxInv, StashInv, LenInv, NEW t \in Tasks, NEW from, NEW to \in PCs, At(t, from, to),
         from \notin {"idle", "sub"} \/ rx_mux = "none",
         from \notin CountPCs \cup {"f_sub"}, to \notin CountPCs \cup {"f_sub"},
         sameCpu' = sameCpu, isrPc' = isrPc, rx_stash_len' = rx_stash_len, CopiedBytes' = CopiedBytes,
         rx_buffered_len' = rx_buffered_len, ring' = ring, rest' = rest, held' \in Nat
  PROVE  LenInv'
<1>1. /\ rx_buffered_len \in Int /\ Cardinality(CopiedBytes) \in Nat
      /\ Len(ring) \in Nat /\ Len(rest) \in Nat /\ held \in Nat /\ rx_stash_len \in Nat
  BY LenTypes
<1>2. IsFiniteSet(CopiedBytes')
  BY LenIs
<1>3. rx_buffered_len' - rx_buffered_len
           + (IF to \in CountPCs THEN rx_stash_len ELSE 0) - (IF from \in CountPCs THEN rx_stash_len ELSE 0)
         = (Len(ring') - Len(ring)) + (Len(rest') - Len(rest))
           + (Cardinality(CopiedBytes') - Cardinality(CopiedBytes))
           + (IF to = "f_sub" THEN held' ELSE 0) - (IF from = "f_sub" THEN held ELSE 0)
  BY <1>1
<1> QED
  BY <1>1, <1>2, <1>3, LenTask

(* Sending a stash: it is counted by the next step.                        *)
LEMMA SendStashLen ==
  ASSUME Ctl, LenInv, StashFits, NEW t \in Tasks, NEW here \in {"stash", "f_stash"}, NEW sent \in CountPCs,
         NEW next_ \in PCs, next_ \notin CountPCs \cup {"f_sub"}, SendStash(t, here, sent, next_)
  PROVE  LenInv'
<1>1. Types /\ MuxInv /\ StashInv
  BY DEF Ctl
<1>2. /\ rx_buffered_len \in Int /\ Cardinality(CopiedBytes) \in Nat
      /\ Len(ring) \in Nat /\ Len(rest) \in Nat /\ Len(stash) \in Nat /\ held \in Nat /\ rx_stash_len \in Nat
  BY <1>1, LenTypes
<1>3. /\ sameCpu' = sameCpu /\ isrPc' = isrPc /\ rx_stash_len' = rx_stash_len /\ op' = op
      /\ rx_buffered_len' = rx_buffered_len /\ held' = held /\ rest' = rest
  BY DEF SendStash
<1>4. CopiedBytes' = CopiedBytes /\ IsFiniteSet(CopiedBytes')
  BY <1>3, LenIs DEF CopiedBytes
<1>5. CASE At(t, here, next_) /\ ring' = ring
  <2>1. here \notin {"idle", "sub"} /\ here \notin CountPCs \cup {"f_sub"}
    BY DEF CountPCs
  <2> QED
    BY <1>1, <1>2, <1>3, <1>4, <1>5, <2>1, LenQuiet
<1>6. CASE rx_buffer_full_flg /\ At(t, here, sent) /\ ring' = Written(ring \o stash)
  <2>1. here \notin {"idle", "sub"} /\ here \notin CountPCs \cup {"f_sub"} /\ sent \in PCs /\ sent # "f_sub"
    BY DEF CountPCs, PCs
  <2>2. pc[t] = here /\ pc'[t] = sent
    BY <1>1, <1>6, <2>1, Moves
  <2>3. Len(ring) + Len(stash) < RxBufferSize
    BY <2>2 DEF StashFits, CountPCs
  <2>4. Len(ring') = Len(ring) + Len(stash)
    <3>1. ring \in Seq(Nat) /\ stash \in Seq(Nat)
      BY <1>1, SeqTypes
    <3>2. Len(ring \o stash) = Len(ring) + Len(stash)
      BY ONLY <3>1, Joining
    <3> QED
      BY <1>6, <2>3, <3>2 DEF Written
  <2>5. ~ \E u \in Tasks : Sending(u)
    <3>1. \A u \in Tasks \ {t} : pc[u] \in {"idle", "sub"}
      BY <1>1, <2>1, <2>2, Alone
    <3> QED
      BY <2>2, <3>1 DEF Sending, SendingPCs
  <2>6. rx_stash_len = Len(stash) /\ isrPc # "count"
    BY <1>1, <1>6, <2>5 DEF StashInv
  <2>7. rx_buffered_len' - rx_buffered_len
           + (IF sent \in CountPCs THEN rx_stash_len ELSE 0) - (IF here \in CountPCs THEN rx_stash_len ELSE 0)
         = (Len(ring') - Len(ring)) + (Len(rest') - Len(rest))
           + (Cardinality(CopiedBytes') - Cardinality(CopiedBytes))
           + (IF sent = "f_sub" THEN held' ELSE 0) - (IF here = "f_sub" THEN held ELSE 0)
    BY <1>2, <1>3, <1>4, <2>1, <2>4, <2>6
  <2>8. rx_stash_len <= Len(ring') /\ Len(ring') \in Nat
    BY <1>2, <2>4, <2>6
  <2> QED
    BY <1>1, <1>2, <1>3, <1>4, <1>6, <2>1, <2>6, <2>7, <2>8, LenTask
<1> QED
  BY <1>5, <1>6 DEF SendStash

(* Counting the stash that was sent.                                       *)
LEMMA CountStashLen ==
  ASSUME Ctl, LenInv, NEW t \in Tasks, NEW here \in CountPCs, NEW next_ \in PCs, next_ \notin CountPCs \cup {"f_sub"},
         CountStash(t, here, next_)
  PROVE  LenInv'
<1>1. Types /\ MuxInv /\ StashInv
  BY DEF Ctl
<1>2. /\ rx_buffered_len \in Int /\ Cardinality(CopiedBytes) \in Nat
      /\ Len(ring) \in Nat /\ Len(rest) \in Nat /\ held \in Nat /\ rx_stash_len \in Nat
  BY <1>1, LenTypes
<1>3. /\ sameCpu' = sameCpu /\ isrPc' = isrPc /\ rx_stash_len' = rx_stash_len /\ op' = op /\ At(t, here, next_)
      /\ rx_buffered_len' = rx_buffered_len + rx_stash_len /\ held' = held /\ rest' = rest /\ ring' = ring
  BY DEF CountStash, ringVars
<1>4. CopiedBytes' = CopiedBytes /\ IsFiniteSet(CopiedBytes')
  BY <1>3, LenIs DEF CopiedBytes
<1>5. here \notin {"idle", "sub"} /\ here # "f_sub" /\ pc[t] = here
  BY <1>3 DEF CountPCs, At
<1>6. isrPc # "count"
  BY <1>1, <1>5 DEF StashInv, Sending, SendingPCs, CountPCs
<1>7. rx_buffered_len' - rx_buffered_len
           + (IF next_ \in CountPCs THEN rx_stash_len ELSE 0) - (IF here \in CountPCs THEN rx_stash_len ELSE 0)
         = (Len(ring') - Len(ring)) + (Len(rest') - Len(rest))
           + (Cardinality(CopiedBytes') - Cardinality(CopiedBytes))
           + (IF next_ = "f_sub" THEN held' ELSE 0) - (IF here = "f_sub" THEN held ELSE 0)
  BY <1>2, <1>3, <1>4, <1>5
<1>8. rx_buffered_len' \in Int
  BY <1>2, <1>3
<1> QED
  BY <1>1, <1>2, <1>3, <1>4, <1>5, <1>6, <1>7, <1>8, LenTask

(* uart_read_bytes keeps the balance.                                      *)
LEMMA ReadLen ==
  ASSUME Ctl, LenInv, StashFits, NEW t \in Tasks, Read(t) \/ ReadSteps(t)
  PROVE  LenInv'
<1>1. Types /\ MuxInv /\ StashInv /\ OpInv
  BY DEF Ctl
<1>2. /\ rx_buffered_len \in Int /\ Cardinality(CopiedBytes) \in Nat
      /\ Len(ring) \in Nat /\ Len(rest) \in Nat /\ held \in Nat /\ rx_stash_len \in Nat
  BY <1>1, LenTypes
<1>3. ring \in Seq(Nat) /\ rest \in Seq(Nat)
  BY <1>1, SeqTypes
<1>4. op' = op => CopiedBytes' = CopiedBytes
  BY DEF CopiedBytes
<1>5. IsFiniteSet(CopiedBytes) /\ CopiedBytes = CopiedOf(op) /\ CopiedBytes' = CopiedOf(op')
  BY LenIs, CopiedIs
<1>6. op \in [Tasks -> [length : Nat, copied : Nat]]
  BY <1>1 DEF Types
<1> USE DEF PCs, CountPCs
<1>7. CASE Read(t)
  <2>1. PICK length \in Lengths : ReadBytes(t, length)
    BY <1>7 DEF Read
  <2>2. /\ At(t, "idle", "loop") /\ rx_mux = "none" /\ op' = [op EXCEPT ![t] = [length |-> length, copied |-> 0]]
        /\ sameCpu' = sameCpu /\ isrPc' = isrPc /\ rx_stash_len' = rx_stash_len
        /\ rx_buffered_len' = rx_buffered_len /\ ring' = ring /\ rest' = rest /\ held' = held
    BY <2>1 DEF ReadBytes, TakeMux, drvVars, ringVars
  <2>3. op[t].copied = 0
    BY <1>1, <2>2 DEF At, OpInv, ReadPCs
  <2>4. CopiedBytes' = CopiedBytes
    <3>1. \A u \in Tasks : op'[u].copied = op[u].copied
      BY <1>6, <2>2, <2>3
    <3> QED
      BY <3>1 DEF CopiedBytes
  <2> QED
    BY <1>1, <1>2, <2>2, <2>4, LenQuiet
<1>8. CASE ReadReceive(t)
  <2>1. /\ At(t, "loop", "copy") /\ sameCpu' = sameCpu /\ isrPc' = isrPc /\ rx_stash_len' = rx_stash_len
        /\ rx_buffered_len' = rx_buffered_len /\ op' = op
    BY <1>8 DEF ReadReceive, drvVars
  <2>2. CASE UNCHANGED ringVars
    BY <1>1, <1>2, <1>4, <2>1, <2>2, LenQuiet DEF ringVars
  <2>3. CASE rest = <<>> /\ \E n \in 1 .. Len(ring) : Lend(n) /\ rest' = SubSeq(ring, 1, n)
    <3>1. PICK n \in 1 .. Len(ring) : held' = n /\ ring' = SubSeq(ring, n + 1, Len(ring)) /\ rest' = SubSeq(ring, 1, n)
      BY <2>3 DEF Lend
    <3>2. n \in 0 .. Len(ring) /\ held' \in Nat
      BY <1>2, <3>1
    <3>3. Len(rest') = n /\ Len(ring') = Len(ring) - n
      BY ONLY <1>3, <3>1, <3>2, Cutting
    <3>4. Len(rest) = 0 /\ Len(ring') \in Nat /\ Len(rest') \in Nat
      BY <1>2, <2>3, <3>2, <3>3
    <3>5. (Len(ring') - Len(ring)) + (Len(rest') - Len(rest)) = 0
      BY <1>2, <3>2, <3>3, <3>4
    <3>6. rx_buffered_len' - rx_buffered_len
             + (IF "copy" \in CountPCs THEN rx_stash_len ELSE 0) - (IF "loop" \in CountPCs THEN rx_stash_len ELSE 0)
           = (Len(ring') - Len(ring)) + (Len(rest') - Len(rest))
             + (Cardinality(CopiedBytes') - Cardinality(CopiedBytes))
             + (IF "copy" = "f_sub" THEN held' ELSE 0) - (IF "loop" = "f_sub" THEN held ELSE 0)
      BY <1>2, <1>4, <2>1, <3>5
    <3> QED
      BY <1>1, <1>2, <1>4, <1>5, <2>1, <3>2, <3>4, <3>6, LenTask
  <2> QED
    BY <1>8, <2>2, <2>3 DEF ReadReceive
<1>9. CASE ReadCopy(t)
  <2> DEFINE n == IF Len(rest) > op[t].length THEN op[t].length ELSE Len(rest)
             to == IF n = Len(rest) THEN "return" ELSE "loop"
  <2>1. n \in 0 .. Len(rest) /\ n \in Nat
    BY <1>2, <1>6
  <2>2. /\ At(t, "copy", to) /\ sameCpu' = sameCpu /\ isrPc' = isrPc /\ rx_stash_len' = rx_stash_len
        /\ rx_buffered_len' = rx_buffered_len /\ ring' = ring /\ held' = held
        /\ rest' = SubSeq(rest, n + 1, Len(rest))
    BY <1>9 DEF ReadCopy, drvVars
  <2>3. op' = [op EXCEPT ![t] = [length |-> @.length - n, copied |-> @.copied + n]]
    BY <1>9 DEF ReadCopy
  <2>4. op[t].length - n \in Nat
    BY <1>2, <1>6
  <2>5. to \in PCs /\ to \notin CountPCs /\ to # "f_sub"
    OBVIOUS
  <2> HIDE DEF n, to
  <2>6. Len(rest') = Len(rest) - n
    BY ONLY <1>3, <2>1, <2>2, Cutting
  <2>7. /\ op' \in [Tasks -> [length : Nat, copied : Nat]] /\ op'[t].copied = op[t].copied + n
        /\ \A u \in Tasks \ {t} : op'[u].copied = op[u].copied
    BY <1>6, <2>1, <2>3, <2>4
  <2>8. IsFiniteSet(CopiedOf(op')) /\ Cardinality(CopiedOf(op')) = Cardinality(CopiedOf(op)) + n
    <3>1. PICK o \in [Tasks -> [length : Nat, copied : Nat]], o2 \in [Tasks -> [length : Nat, copied : Nat]], m \in Nat :
            o = op /\ o2 = op' /\ m = n
      BY <1>6, <2>1, <2>7
    <3>2. /\ o2[t].copied = o[t].copied + m /\ \A u \in Tasks \ {t} : o2[u].copied = o[u].copied
          /\ IsFiniteSet(CopiedOf(o))
      BY <1>5, <2>7, <3>1
    <3>3. IsFiniteSet(CopiedOf(o2)) /\ Cardinality(CopiedOf(o2)) = Cardinality(CopiedOf(o)) + m
      BY <3>2, MoreCopied
    <3> QED
      BY <3>1, <3>3
  <2>9. IsFiniteSet(CopiedBytes') /\ Cardinality(CopiedBytes') = Cardinality(CopiedBytes) + n /\ Len(rest') \in Nat
    BY <1>2, <1>5, <2>1, <2>6, <2>8
  <2>10. rx_buffered_len' - rx_buffered_len
             + (IF to \in CountPCs THEN rx_stash_len ELSE 0) - (IF "copy" \in CountPCs THEN rx_stash_len ELSE 0)
           = (Len(ring') - Len(ring)) + (Len(rest') - Len(rest))
             + (Cardinality(CopiedBytes') - Cardinality(CopiedBytes))
             + (IF to = "f_sub" THEN held' ELSE 0) - (IF "copy" = "f_sub" THEN held ELSE 0)
    <3>1. (Len(rest') - Len(rest)) + (Cardinality(CopiedBytes') - Cardinality(CopiedBytes)) = 0
      BY <1>2, <2>1, <2>6, <2>9
    <3>2. Cardinality(CopiedBytes') \in Nat
      BY <1>2, <2>1, <2>9
    <3>3. /\ rx_buffered_len' - rx_buffered_len = 0 /\ Len(ring') - Len(ring) = 0
          /\ (IF to \in CountPCs THEN rx_stash_len ELSE 0) = 0 /\ (IF "copy" \in CountPCs THEN rx_stash_len ELSE 0) = 0
          /\ (IF to = "f_sub" THEN held' ELSE 0) = 0 /\ (IF "copy" = "f_sub" THEN held ELSE 0) = 0
      BY <1>2, <2>2, <2>5
    <3> QED
      BY ONLY <1>2, <2>9, <3>1, <3>2, <3>3
  <2> QED
    BY <1>1, <1>2, <2>2, <2>5, <2>9, <2>10, LenTask
<1>10. CASE ReadStash(t)
  BY <1>10, SendStashLen DEF ReadStash
<1>11. CASE ReadCount(t)
  BY <1>11, CountStashLen DEF ReadCount
<1>12. CASE ReadLeave(t)
  <2>1. /\ At(t, "loop", "done") /\ sameCpu' = sameCpu /\ isrPc' = isrPc /\ rx_stash_len' = rx_stash_len
        /\ rx_buffered_len' = rx_buffered_len /\ op' = op /\ ring' = ring /\ rest' = rest /\ held' = held
    BY <1>12 DEF ReadLeave, drvVars, ringVars
  <2> QED
    BY <1>1, <1>2, <1>4, <2>1, LenQuiet
<1>13. CASE ReadReturn(t)
  <2>1. /\ At(t, "return", "stash") /\ sameCpu' = sameCpu /\ isrPc' = isrPc /\ rx_stash_len' = rx_stash_len
        /\ rx_buffered_len' = rx_buffered_len /\ op' = op /\ ring' = ring /\ rest' = rest /\ held' = 0
    BY <1>13 DEF ReadReturn, drvVars
  <2> QED
    BY <1>1, <1>2, <1>4, <2>1, LenQuiet
<1>14. CASE ReadClear(t)
  <2>1. /\ At(t, "clear", "enable") /\ sameCpu' = sameCpu /\ isrPc' = isrPc /\ rx_stash_len' = rx_stash_len
        /\ rx_buffered_len' = rx_buffered_len /\ op' = op /\ ring' = ring /\ rest' = rest /\ held' = held
    BY <1>14 DEF ReadClear, ClearFlag, ringVars
  <2> QED
    BY <1>1, <1>2, <1>4, <2>1, LenQuiet
<1>15. CASE ReadEnable(t)
  <2>1. /\ At(t, "enable", "loop") /\ sameCpu' = sameCpu /\ isrPc' = isrPc /\ rx_stash_len' = rx_stash_len
        /\ rx_buffered_len' = rx_buffered_len /\ op' = op /\ ring' = ring /\ rest' = rest /\ held' = held
    BY <1>15 DEF ReadEnable, drvVars, ringVars
  <2> QED
    BY <1>1, <1>2, <1>4, <2>1, LenQuiet
<1>16. CASE ReadGiveMux(t)
  <2>1. /\ At(t, "done", "sub") /\ sameCpu' = sameCpu /\ isrPc' = isrPc /\ rx_stash_len' = rx_stash_len
        /\ rx_buffered_len' = rx_buffered_len /\ op' = op /\ ring' = ring /\ rest' = rest /\ held' = held
    BY <1>16 DEF ReadGiveMux, drvVars, ringVars
  <2> QED
    BY <1>1, <1>2, <1>4, <2>1, LenQuiet
<1>17. CASE ReadSubtract(t)
  <2>1. /\ At(t, "sub", "idle") /\ sameCpu' = sameCpu /\ isrPc' = isrPc /\ rx_stash_len' = rx_stash_len
        /\ rx_buffered_len' = rx_buffered_len - op[t].copied /\ op' = [op EXCEPT ![t] = Idle]
        /\ ring' = ring /\ rest' = rest /\ held' = held
    BY <1>17 DEF ReadSubtract, ringVars
  <2>2. pc[t] = "sub" /\ pc'[t] = "idle" /\ \A u \in Tasks \ {t} : pc'[u] = pc[u]
    BY <1>1, <2>1, Moves
  <2>3. (Counting' <=> Counting) /\ (Taken' <=> Taken)
    BY <2>2 DEF Counting, Taken
  <2>4. PICK o \in [Tasks -> [length : Nat, copied : Nat]], o2 \in [Tasks -> [length : Nat, copied : Nat]] :
          o = op' /\ o2 = op
    BY <1>6, <2>1 DEF Idle
  <2>5. PICK n \in Nat : n = op[t].copied
    BY <1>6
  <2>6. o[t].copied = 0 /\ o2[t].copied = o[t].copied + n /\ \A u \in Tasks \ {t} : o2[u].copied = o[u].copied
    BY <1>6, <2>1, <2>4, <2>5 DEF Idle
  <2>7. IsFiniteSet(CopiedOf(o))
    <3>1. CopiedOf(o) \subseteq CopiedOf(o2)
      BY <2>6 DEF CopiedOf
    <3> QED
      BY <1>5, <2>4, <3>1, FS_Subset
  <2>8. Cardinality(CopiedOf(o2)) = Cardinality(CopiedOf(o)) + n
    BY <2>6, <2>7, MoreCopied
  <2>9. Cardinality(CopiedBytes) = Cardinality(CopiedBytes') + n /\ IsFiniteSet(CopiedBytes')
        /\ Cardinality(CopiedBytes') \in Nat
    BY <1>5, <2>4, <2>7, <2>8, FS_CardinalityType
  <2>10. Uncounted' = Uncounted /\ Undropped' = Undropped /\ Uncounted \in Nat /\ Undropped \in Nat
    BY <1>1, <2>1, <2>3, LenTypes DEF Uncounted, Undropped
  <2>11. rx_buffered_len + Uncounted = Len(ring) + Len(rest) + Cardinality(CopiedBytes) + Undropped
    BY LenIs
  <2>12. (rx_buffered_len - n) + Uncounted = Len(ring) + Len(rest) + Cardinality(CopiedBytes') + Undropped
    <3>1. PICK b \in Int, u \in Nat, q \in Nat, r \in Nat, c \in Nat, d \in Nat :
            /\ b = rx_buffered_len /\ u = Uncounted /\ q = Len(ring) /\ r = Len(rest)
            /\ c = Cardinality(CopiedBytes') /\ d = Undropped
      BY ONLY <1>2, <2>9, <2>10
    <3>2. b + u = q + r + (c + n) + d
      BY ONLY <2>9, <2>11, <3>1
    <3>3. (b - n) + u = q + r + c + d
      BY ONLY <3>2, b \in Int, u \in Nat, q \in Nat, r \in Nat, c \in Nat, d \in Nat, n \in Nat
    <3> QED
      BY ONLY <3>1, <3>3
  <2>13. rx_buffered_len' + Uncounted' = Len(ring') + Len(rest') + Cardinality(CopiedBytes') + Undropped'
    BY <2>1, <2>5, <2>10, <2>12
  <2>14. (sameCpu' /\ isrPc' = "count") \/ Counting' => rx_stash_len' <= Len(ring')
    BY <2>1, <2>3, LenIs
  <2> QED
    BY <2>9, <2>13, <2>14, LenIs
<1> QED
  BY <1>7, <1>8, <1>9, <1>10, <1>11, <1>12, <1>13, <1>14, <1>15, <1>16, <1>17 DEF ReadSteps

(* uart_flush keeps the balance.                                           *)
LEMMA FlushLen ==
  ASSUME Ctl, LenInv, StashFits, NEW t \in Tasks, Flush(t) \/ FlushSteps(t)
  PROVE  LenInv'
<1>1. Types /\ MuxInv /\ StashInv
  BY DEF Ctl
<1>2. /\ rx_buffered_len \in Int /\ Cardinality(CopiedBytes) \in Nat
      /\ Len(ring) \in Nat /\ Len(rest) \in Nat /\ held \in Nat /\ rx_stash_len \in Nat
  BY <1>1, LenTypes
<1>3. ring \in Seq(Nat) /\ IsFiniteSet(CopiedBytes)
  BY <1>1, SeqTypes, LenIs
<1>4. sameCpu' = sameCpu /\ isrPc' = isrPc /\ rx_stash_len' = rx_stash_len /\ CopiedBytes' = CopiedBytes
  <2>1. sameCpu' = sameCpu /\ isrPc' = isrPc /\ rx_stash_len' = rx_stash_len /\ op' = op
    BY DEF Flush, FlushSteps, FlushDisable, FlushReturn, FlushDrop, FlushReceive, FlushSubtract, FlushGive,
           FlushStash, FlushCount, FlushClear, FlushEnable, SendStash, CountStash, ClearFlag, drvVars
  <2> QED
    BY <2>1 DEF CopiedBytes
<1> USE DEF PCs, CountPCs
<1>5. ASSUME NEW from, NEW to \in PCs, At(t, from, to), from \notin {"idle", "sub"} \/ rx_mux = "none",
             from \notin CountPCs \cup {"f_sub"}, to \notin CountPCs \cup {"f_sub"},
             rx_buffered_len' = rx_buffered_len, ring' = ring, rest' = rest, held' \in {0, held}
      PROVE  LenInv'
  BY <1>1, <1>2, <1>4, <1>5, LenQuiet
<1>6. CASE Flush(t)
  <2>1. At(t, "idle", "f_disable") /\ rx_mux = "none"
        /\ rx_buffered_len' = rx_buffered_len /\ ring' = ring /\ rest' = rest /\ held' = held
    BY <1>6 DEF Flush, TakeMux, drvVars, ringVars
  <2> QED
    BY <1>5, <2>1
<1>7. CASE FlushDisable(t)
  <2>1. rx_buffered_len' = rx_buffered_len /\ ring' = ring /\ rest' = rest /\ held' = held
    BY <1>7 DEF FlushDisable, drvVars, ringVars
  <2>2. PICK to \in {"f_return", "f_receive"} : At(t, "f_disable", to)
    BY <1>7 DEF FlushDisable
  <2> QED
    BY <1>5, <2>1, <2>2
<1>8. CASE FlushReturn(t)
  <2>1. At(t, "f_return", "f_drop")
        /\ rx_buffered_len' = rx_buffered_len /\ ring' = ring /\ rest' = rest /\ held' = 0
    BY <1>8 DEF FlushReturn, drvVars
  <2> QED
    BY <1>5, <2>1
<1>9. CASE FlushDrop(t)
  <2>1. At(t, "f_drop", "f_receive")
        /\ rx_buffered_len' = rx_buffered_len - Len(rest) /\ ring' = ring /\ rest' = <<>> /\ held' = held
    BY <1>9 DEF FlushDrop
  <2>2. Len(rest') = 0 /\ rx_buffered_len' \in Int /\ rx_buffered_len' - rx_buffered_len = Len(rest') - Len(rest)
    BY <1>2, <2>1
  <2>3. rx_buffered_len' - rx_buffered_len
           + (IF "f_receive" \in CountPCs THEN rx_stash_len ELSE 0) - (IF "f_drop" \in CountPCs THEN rx_stash_len ELSE 0)
         = (Len(ring') - Len(ring)) + (Len(rest') - Len(rest))
           + (Cardinality(CopiedBytes') - Cardinality(CopiedBytes))
           + (IF "f_receive" = "f_sub" THEN held' ELSE 0) - (IF "f_drop" = "f_sub" THEN held ELSE 0)
    BY <1>2, <1>4, <2>1, <2>2
  <2> QED
    BY <1>1, <1>2, <1>3, <1>4, <2>1, <2>2, <2>3, LenTask
<1>10. CASE FlushReceive(t)
  <2>1. rx_buffered_len' = rx_buffered_len /\ rest' = rest
    BY <1>10 DEF FlushReceive, drvVars
  <2>2. CASE At(t, "f_receive", "f_enable") /\ ring' = ring /\ held' = held
    BY <1>5, <2>1, <2>2
  <2>3. CASE At(t, "f_receive", "f_sub") /\ \E n \in 1 .. Len(ring) : Lend(n)
    <3>1. PICK n \in 1 .. Len(ring) : held' = n /\ ring' = SubSeq(ring, n + 1, Len(ring))
      BY <2>3 DEF Lend
    <3>2. n \in 0 .. Len(ring) /\ held' \in Nat
      BY <1>2, <3>1
    <3>3. Len(ring') = Len(ring) - n
      BY ONLY <1>3, <3>1, <3>2, Cutting
    <3>4. Len(ring') \in Nat /\ (Len(ring') - Len(ring)) + held' = 0
      BY <1>2, <3>1, <3>2, <3>3
    <3>5. rx_buffered_len' - rx_buffered_len
             + (IF "f_sub" \in CountPCs THEN rx_stash_len ELSE 0) - (IF "f_receive" \in CountPCs THEN rx_stash_len ELSE 0)
           = (Len(ring') - Len(ring)) + (Len(rest') - Len(rest))
             + (Cardinality(CopiedBytes') - Cardinality(CopiedBytes))
             + (IF "f_sub" = "f_sub" THEN held' ELSE 0) - (IF "f_receive" = "f_sub" THEN held ELSE 0)
      BY <1>2, <1>4, <2>1, <3>2, <3>4
    <3> QED
      BY <1>1, <1>2, <1>3, <1>4, <2>1, <2>3, <3>2, <3>4, <3>5, LenTask
  <2> QED
    BY <1>10, <2>2, <2>3 DEF FlushReceive
<1>11. CASE FlushSubtract(t)
  <2>1. At(t, "f_sub", "f_give")
        /\ rx_buffered_len' = rx_buffered_len - held /\ ring' = ring /\ rest' = rest /\ held' = held
    BY <1>11 DEF FlushSubtract, ringVars
  <2>2. rx_buffered_len' \in Int
    BY <1>2, <2>1
  <2>3. rx_buffered_len' - rx_buffered_len
           + (IF "f_give" \in CountPCs THEN rx_stash_len ELSE 0) - (IF "f_sub" \in CountPCs THEN rx_stash_len ELSE 0)
         = (Len(ring') - Len(ring)) + (Len(rest') - Len(rest))
           + (Cardinality(CopiedBytes') - Cardinality(CopiedBytes))
           + (IF "f_give" = "f_sub" THEN held' ELSE 0) - (IF "f_sub" = "f_sub" THEN held ELSE 0)
    BY <1>2, <1>4, <2>1
  <2> QED
    BY <1>1, <1>2, <1>3, <1>4, <2>1, <2>2, <2>3, LenTask
<1>12. CASE FlushGive(t)
  <2>1. At(t, "f_give", "f_stash")
        /\ rx_buffered_len' = rx_buffered_len /\ ring' = ring /\ rest' = rest /\ held' = 0
    BY <1>12 DEF FlushGive, drvVars
  <2> QED
    BY <1>5, <2>1
<1>13. CASE FlushStash(t)
  BY <1>13, SendStashLen DEF FlushStash
<1>14. CASE FlushCount(t)
  BY <1>14, CountStashLen DEF FlushCount
<1>15. CASE FlushClear(t)
  <2>1. At(t, "f_clear", "f_receive")
        /\ rx_buffered_len' = rx_buffered_len /\ ring' = ring /\ rest' = rest /\ held' = held
    BY <1>15 DEF FlushClear, ClearFlag, ringVars
  <2> QED
    BY <1>5, <2>1
<1>16. CASE FlushEnable(t)
  <2>1. At(t, "f_enable", "idle")
        /\ rx_buffered_len' = rx_buffered_len /\ ring' = ring /\ rest' = rest /\ held' = held
    BY <1>16 DEF FlushEnable, drvVars, ringVars
  <2> QED
    BY <1>5, <2>1
<1> QED
  BY <1>6, <1>7, <1>8, <1>9, <1>10, <1>11, <1>12, <1>13, <1>14, <1>15, <1>16 DEF FlushSteps
-----------------------------------------------------------------------------
(* All of it holds after uart_driver_install.                              *)
LEMMA InitInv == Init => Inv /\ Whole(Line, lost, next) /\ LenInv
<1> SUFFICES ASSUME Init PROVE Inv /\ Whole(Line, lost, next) /\ LenInv
  OBVIOUS
<1>1. Ctl
  BY InitCtl
<1>2. /\ next = 1 /\ lost = {} /\ got = <<>> /\ rest = <<>> /\ ring = <<>> /\ stash = <<>> /\ rxfifo = <<>>
      /\ rx_buffered_len = 0 /\ isrPc = "idle"
      /\ pc = [t \in Tasks |-> "idle"] /\ op = [t \in Tasks |-> Idle]
  BY DEF Init
<1>3. Line = <<>>
  <2>1. <<>> \o <<>> = <<>>
    BY ONLY Joining
  <2> QED
    BY <1>2, <2>1 DEF Line
<1>4. ElementsOf(Line) = {} /\ DOMAIN Line = {} /\ 1 .. next - 1 = {}
  BY <1>2, <1>3 DEF ElementsOf
<1>5. InOrder(Line, lost, next) /\ Whole(Line, lost, next)
  BY <1>2, <1>4 DEF InOrder, Whole
<1>6. CopiedBytes = {}
  BY <1>2 DEF CopiedBytes, Idle
<1>7. ~ Counting /\ ~ Taken
  BY <1>2 DEF Counting, Taken
<1>8. Len(ring) = 0 /\ Len(rest) = 0 /\ Cardinality(CopiedBytes) = 0 /\ IsFiniteSet(CopiedBytes)
  BY <1>2, <1>6, FS_EmptySet
<1>9. LenInv
  BY <1>2, <1>7, <1>8 DEF LenInv
<1> QED
  BY <1>1, <1>5, <1>9 DEF Inv

(* Inv is inductive.                                                       *)
LEMMA StepInv == Inv /\ [Next]_vars => Inv'
<1> SUFFICES ASSUME Inv, [Next]_vars PROVE Inv'
  OBVIOUS
<1>1. Ctl /\ InOrder(Line, lost, next)
  BY DEF Inv
<1>2. InOrder(Line, lost, next)'
  BY <1>1, StepOrder
<1>3. CASE UNCHANGED vars
  <2>1. Types'
    BY <1>1, <1>3 DEF Ctl, Types, vars, hwVars, drvVars, ringVars, taskVars
  <2>2. MuxInv' /\ OpInv'
    BY <1>1, <1>3 DEF Ctl, MuxInv, OpInv, vars, taskVars
  <2>3. StashInv'
    BY <1>1, <1>3 DEF Ctl, StashInv, Sending, vars, drvVars, taskVars
  <2> QED
    BY <1>2, <2>1, <2>2, <2>3 DEF Inv, Ctl
<1>4. CASE Next
  <2>1. Ctl'
    BY <1>1, <1>4, HandlerCtl, ReadCtl, FlushCtl DEF Next
  <2> QED
    BY <1>2, <2>1 DEF Inv
<1> QED
  BY <1>3, <1>4

(* So is the balance, as long as stashes fit.                              *)
LEMMA StepLen == Ctl /\ LenInv /\ StashFits /\ [Next]_vars => LenInv'
<1> SUFFICES ASSUME Ctl, LenInv, StashFits, [Next]_vars PROVE LenInv'
  OBVIOUS
<1>1. CASE UNCHANGED vars
  BY <1>1 DEF LenInv, CopiedBytes, Counting, Taken, vars, drvVars, ringVars, taskVars
<1>2. CASE Next
  BY <1>2, HandlerLen, ReadLen, FlushLen DEF Next
<1> QED
  BY <1>1, <1>2

(* The control invariant and the order of the line hold in every state.    *)
THEOREM Invariance == Spec => []Inv
BY InitInv, StepInv, PTL DEF Spec

(***************************************************************************)
(* Whatever the handler and the calls of uart_read_bytes and uart_flush    *)
(* do, in any interleaving and on either CPU: what reaches a caller and    *)
(* what is still buffered is in the order of the line, no byte is there    *)
(* twice, and none that was dropped (uart.c:589-637, 849-885, 915-940).    *)
(* No assumption on timing.                                                *)
(***************************************************************************)
THEOREM Order == Spec => []InOrder(Line, lost, next)
<1>1. Inv => InOrder(Line, lost, next)
  BY DEF Inv
<1> QED
  BY <1>1, Invariance, PTL

(***************************************************************************)
(* Every byte that came over the line is in exactly one place or was       *)
(* dropped by a flush or an overflow, as long as no stash is written into  *)
(* a ring that has no room for it (uart.c:605-607, 878-880, 934-936).      *)
(***************************************************************************)
THEOREM Delivery == Spec /\ [][StashFits]_vars => []EveryByteOnce
<1>1. Inv /\ Whole(Line, lost, next) /\ [Next]_vars /\ [StashFits]_vars => Whole(Line, lost, next)'
  <2> SUFFICES ASSUME Inv, Whole(Line, lost, next), [Next]_vars, [StashFits]_vars PROVE Whole(Line, lost, next)'
    OBVIOUS
  <2>1. CASE StashFits
    BY <2>1, StepOrder DEF Inv
  <2>2. CASE UNCHANGED vars
    <3>1. UNCHANGED Bytes
      BY <2>2 DEF vars, hwVars, drvVars, ringVars, Bytes
    <3>2. LineKept
      BY <3>1, StillLine
    <3> QED
      BY <3>2 DEF LineKept
  <2> QED
    BY <2>1, <2>2
<1>2. Inv /\ Whole(Line, lost, next) => EveryByteOnce
  <2> SUFFICES ASSUME InOrder(Line, lost, next), Whole(Line, lost, next) PROVE EveryByteOnce
    BY DEF Inv
  <2> DEFINE E == ElementsOf(Line)
  <2>1. \A i, j \in DOMAIN Line : i < j => Line[i] < Line[j]
    BY DEF InOrder
  <2>2. E \cap lost = {} /\ E \cup lost = 1 .. next - 1
    <3>1. E \cap lost = {} /\ E \cup lost \subseteq 1 .. next - 1 /\ 1 .. next - 1 \subseteq E \cup lost
      BY DEF InOrder, Whole
    <3> HIDE DEF E
    <3> QED
      BY <3>1
  <2> QED
    BY <2>1, <2>2 DEF EveryByteOnce, Line
<1> QED
  BY <1>1, <1>2, InitInv, Invariance, PTL DEF Spec

(***************************************************************************)
(* rx_buffered_len, which the handler and the calls change apart from the  *)
(* ring, is exact whenever no call and no handler is half done, and never  *)
(* negative on the handler's own CPU, under the same condition             *)
(* (uart.c:614-619, 881-883, 891-894, 919-932).                            *)
(***************************************************************************)
THEOREM Count == Spec /\ [][StashFits]_vars => []BufferedLenIsExact
<1>1. Inv /\ LenInv /\ [Next]_vars /\ [StashFits]_vars => LenInv'
  <2> SUFFICES ASSUME Inv, LenInv, [Next]_vars, [StashFits]_vars PROVE LenInv'
    OBVIOUS
  <2>1. CASE StashFits
    BY <2>1, StepLen DEF Inv
  <2>2. CASE UNCHANGED vars
    BY <2>2 DEF LenInv, CopiedBytes, Counting, Taken, vars, drvVars, ringVars, taskVars
  <2> QED
    BY <2>1, <2>2
<1>2. Inv /\ LenInv => BufferedLenIsExact
  <2> SUFFICES ASSUME Inv, LenInv PROVE BufferedLenIsExact
    OBVIOUS
  <2>1. Types /\ OpInv
    BY DEF Inv, Ctl
  <2>2. /\ rx_buffered_len \in Int /\ Uncounted \in Nat /\ Undropped \in Nat /\ Cardinality(CopiedBytes) \in Nat
        /\ Len(ring) \in Nat /\ Len(rest) \in Nat /\ held \in Nat /\ rx_stash_len \in Nat
    BY <2>1, LenTypes
  <2>3. /\ rx_buffered_len + Uncounted = Len(ring) + Len(rest) + Cardinality(CopiedBytes) + Undropped
        /\ (sameCpu /\ isrPc = "count") \/ Counting => rx_stash_len <= Len(ring)
    BY LenIs
  <2>4. ASSUME isrPc = "idle", \A t \in Tasks : pc[t] = "idle" PROVE rx_buffered_len = Len(ring) + Len(rest)
    <3>1. Uncounted = 0 /\ Undropped = 0
      BY <2>4 DEF Uncounted, Undropped, Counting, Taken
    <3>2. \A t \in Tasks : op[t].copied = 0
      BY <2>1, <2>4 DEF OpInv, ReadPCs
    <3>3. CopiedBytes = {}
      BY <3>2 DEF CopiedBytes
    <3>4. Cardinality(CopiedBytes) = 0
      BY <3>3, FS_EmptySet
    <3>5. rx_buffered_len + 0 = Len(ring) + Len(rest) + 0 + 0
      BY <2>3, <3>1, <3>4
    <3> QED
      BY ONLY <2>2, <3>5
  <2>5. ASSUME sameCpu PROVE rx_buffered_len >= 0
    <3>1. Uncounted <= Len(ring)
      BY <2>2, <2>3, <2>5 DEF Uncounted
    <3>2. PICK b \in Int, u \in Nat, q \in Nat, r \in Nat, c \in Nat, d \in Nat :
            /\ b = rx_buffered_len /\ u = Uncounted /\ q = Len(ring) /\ r = Len(rest)
            /\ c = Cardinality(CopiedBytes) /\ d = Undropped
      BY ONLY <2>2
    <3>3. b + u = q + r + c + d /\ u <= q
      BY ONLY <2>3, <3>1, <3>2
    <3>4. b >= 0
      BY ONLY <3>3, b \in Int, u \in Nat, q \in Nat, r \in Nat, c \in Nat, d \in Nat
    <3> QED
      BY ONLY <3>2, <3>4
  <2> QED
    BY <2>4, <2>5 DEF BufferedLenIsExact
<1> QED
  BY <1>1, <1>2, InitInv, Invariance, PTL DEF Spec
=============================================================================
