------------------------------ MODULE Ringbuf ------------------------------
(***************************************************************************)
(* The data structure of components/freertos/ringbuf.c, as operators on a  *)
(* record: what each function does between portENTER_CRITICAL and          *)
(* portEXIT_CRITICAL.  The callers are in module RingbufTasks.             *)
(*                                                                         *)
(* Pointers are offsets from rb->data, in bytes.  mem is the storage: one  *)
(* number per 32-bit word for the two types that hold items, per byte for  *)
(* a byte buffer.  A header is two words, len and flags, like              *)
(* buf_entry_hdr_t; a word or byte of an item is a number that tells which *)
(* item and which part of it.  As in C, a word read as a header is taken   *)
(* for one, whatever was written there.                                    *)
(*                                                                         *)
(* ok turns false when a configASSERT fails or a copy leaves the storage.  *)
(***************************************************************************)
EXTENDS Integers, Sequences

Types == {"NOSPLIT", "ALLOWSPLIT", "BYTEBUF"}

HDR == 8                          \* sizeof(buf_entry_hdr_t)
iflag_free == 1
iflag_dummydata == 2
Garbage == 999                    \* what malloc returns

Unit(type) == IF type = "BYTEBUF" THEN 1 ELSE 4
Round(n) == 4 * ((n + 3) \div 4)
Units(type, len) == (len + Unit(type) - 1) \div Unit(type)

\* An item to send: which one it is, and its length in bytes.
Payload(type, item) == [i \in 1 .. Units(type, item.len) |-> 100 * item.val + i]

IsFree(flags) == flags \in {iflag_free, iflag_free + iflag_dummydata}
IsDummy(flags) == flags \in {iflag_dummydata, iflag_free + iflag_dummydata}

Create(type, size) ==
  [type |-> type, size |-> size, write_ptr |-> 0, read_ptr |-> 0, free_ptr |-> 0,
   mem |-> [p \in {q \in 0 .. size - 1 : q % Unit(type) = 0} |-> Garbage],
   ok |-> TRUE]

\* Mutant: the sizes that ringbuf.h documents.
MaxItemSize_Documented(rb) ==
  CASE rb.type = "ALLOWSPLIT" -> rb.size - 2 * HDR
    [] rb.type = "BYTEBUF"    -> rb.size
    [] rb.type = "NOSPLIT"    -> rb.size \div 2 - HDR

MaxItemSize(rb) ==
  CASE rb.type = "ALLOWSPLIT" -> rb.size - 2 * HDR - 4
    [] rb.type = "BYTEBUF"    -> rb.size - 1
    [] rb.type = "NOSPLIT"    -> rb.size \div 2 - HDR - 4

\* Mutant: no byte is reserved.
ringbufferFreeMem_NoReserve(rb) ==
  LET free_size == rb.free_ptr - rb.write_ptr
  IN IF free_size <= 0 THEN free_size + rb.size ELSE free_size

ringbufferFreeMem(rb) ==
  LET free_size == rb.free_ptr - rb.write_ptr
  IN (IF free_size <= 0 THEN free_size + rb.size ELSE free_size) - 1

\* Forward a pointer that has no room for a header before the end.  Beyond
\* the end the difference is a huge unsigned number and nothing happens.
Wrap(rb, p) == IF p <= rb.size /\ rb.size - p < HDR THEN 0 ELSE p

\* memcpy: the units of d to offset p.
Store(rb, p, d) ==
  LET u == Unit(rb.type)
      end == p + u * Len(d)
  IN [rb EXCEPT !.mem = [q \in DOMAIN @ |-> IF p <= q /\ q < end THEN d[(q - p) \div u + 1] ELSE @[q]],
                !.ok = @ /\ end <= rb.size]

Load(rb, p, len) == [i \in 1 .. Units(rb.type, len) |-> rb.mem[p + Unit(rb.type) * (i - 1)]]

Assert(rb, cond) == [rb EXCEPT !.ok = @ /\ cond]

Flags(rb, p) == rb.mem[p + 4]
SetFlags(rb, p, flags) == [rb EXCEPT !.mem[p + 4] = flags]

-----------------------------------------------------------------------------
(* Copying an item in.                                                     *)

Entry(rb, p, d, len) ==
  [Store(rb, p, <<len, 0>> \o d) EXCEPT !.write_ptr = Wrap(rb, p + HDR + Round(len))]

\* The item does not fit between write_ptr and the end.
MustWrap(rb, len) == rb.size - rb.write_ptr < Round(len) + HDR

NoSplitFits(rb, len) ==
  IF MustWrap(rb, len)
  THEN rb.free_ptr >= Round(len) + HDR + 4 /\ rb.free_ptr <= rb.write_ptr
  ELSE ringbufferFreeMem(rb) >= HDR + Round(len)

\* The rest of the storage becomes a dummy item and the item goes to the start.
copyItemToRingbufNoSplit(rb, d, len) ==
  LET r == Assert(rb, rb.write_ptr % 4 = 0)
  IN IF MustWrap(rb, len)
     THEN Entry(SetFlags(r, r.write_ptr, iflag_dummydata), 0, d, len)
     ELSE Entry(r, r.write_ptr, d, len)

AllowSplitFits(rb, len) ==
  ringbufferFreeMem(rb) >= (IF MustWrap(rb, len) THEN 2 * HDR ELSE HDR) + Round(len)

\* Mutant: no dummy flag when only the header fits.
copyItemToRingbufAllowSplit_NoDummy(rb, d, len) ==
  LET rem_len == rb.size - rb.write_ptr - HDR
      n == rem_len \div 4
  IN IF MustWrap(rb, len)
     THEN Entry(Store(rb, rb.write_ptr, <<rem_len, 0>> \o SubSeq(d, 1, n)),
                0, SubSeq(d, n + 1, Len(d)), len - rem_len)
     ELSE Entry(rb, rb.write_ptr, d, len)

\* What fits goes to the end of the storage, as an item of its own or, when
\* only the header fits, as a dummy; the remainder to the start.
copyItemToRingbufAllowSplit(rb, d, len) ==
  LET r == Assert(rb, rb.write_ptr % 4 = 0)
      rem_len == rb.size - rb.write_ptr - HDR
      n == rem_len \div 4
      head == <<rem_len, IF rem_len = 0 THEN iflag_dummydata ELSE 0>> \o SubSeq(d, 1, n)
  IN IF MustWrap(rb, len)
     THEN Entry(Store(Assert(r, rem_len >= 0), r.write_ptr, head),
                0, SubSeq(d, n + 1, Len(d)), len - rem_len)
     ELSE Entry(r, r.write_ptr, d, len)

\* No check for space, not even here under the lock.
copyItemToRingbufByteBuf(rb, d, len) ==
  LET rem_len == rb.size - rb.write_ptr
      split == rem_len < len
      rest == IF split THEN SubSeq(d, rem_len + 1, len) ELSE d
      r == IF split THEN Store(rb, rb.write_ptr, SubSeq(d, 1, rem_len)) ELSE rb
      p == IF split THEN 0 ELSE rb.write_ptr
      end == p + Len(rest)
  IN [Store(r, p, rest) EXCEPT !.write_ptr = IF end = rb.size THEN 0 ELSE end]

\* copyItemToRingbufImpl returns pdTRUE.
Fits(rb, len) ==
  CASE rb.type = "NOSPLIT"    -> NoSplitFits(rb, len)
    [] rb.type = "ALLOWSPLIT" -> AllowSplitFits(rb, len)
    [] rb.type = "BYTEBUF"    -> TRUE

copyItemToRingbuf(rb, item) ==
  LET d == Payload(rb.type, item)
  IN CASE rb.type = "NOSPLIT"    -> copyItemToRingbufNoSplit(rb, d, item.len)
       [] rb.type = "ALLOWSPLIT" -> copyItemToRingbufAllowSplit(rb, d, item.len)
       [] rb.type = "BYTEBUF"    -> copyItemToRingbufByteBuf(rb, d, item.len)

-----------------------------------------------------------------------------
(* Taking an item out: [rb, ptr, len], the new structure and what is lent  *)
(* to the caller.                                                          *)

\* getItemFromRingbufImpl returns a pointer and not NULL.
HasItem(rb) ==
  /\ rb.type = "BYTEBUF" => rb.read_ptr = rb.free_ptr
  /\ rb.read_ptr # rb.write_ptr

getItemFromRingbufDefault(rb) ==
  LET dummy == IsDummy(Flags(rb, rb.read_ptr))
      at == IF dummy THEN 0 ELSE rb.read_ptr
      len == rb.mem[at]
      r == Assert(rb, rb.read_ptr % 4 = 0 /\ len < rb.size)
  IN [rb |-> [r EXCEPT !.read_ptr = Wrap(rb, at + HDR + Round(len))],
      ptr |-> at + HDR, len |-> len]

\* wanted_length = 0: as much as there is.
getItemFromRingbufByteBuf(rb, wanted_length) ==
  LET wraps == rb.read_ptr > rb.write_ptr
      avail == (IF wraps THEN rb.size ELSE rb.write_ptr) - rb.read_ptr
      less == wanted_length # 0 /\ avail > wanted_length
  IN [rb |-> [rb EXCEPT !.read_ptr = IF less THEN @ + wanted_length
                                     ELSE IF wraps THEN 0 ELSE rb.write_ptr],
      ptr |-> rb.read_ptr, len |-> IF less THEN wanted_length ELSE avail]

getItemFromRingbuf(rb, wanted_length) ==
  IF rb.type = "BYTEBUF" THEN getItemFromRingbufByteBuf(rb, wanted_length)
  ELSE getItemFromRingbufDefault(rb)

-----------------------------------------------------------------------------
(* Giving it back.                                                         *)

\* Where the cleanup pass leaves free_ptr: past every item that is free, up
\* to one in use, write_ptr or read_ptr.  n bounds the passes of the loop.
CleanUp(rb) ==
  LET past(p) == Wrap(rb, IF IsDummy(Flags(rb, p)) THEN 0 ELSE p + Round(rb.mem[p]) + HDR)
      go[n \in 0 .. rb.size, p \in 0 .. 2 * rb.size] ==
        IF n = 0 \/ p = rb.write_ptr \/ ~ (IsFree(Flags(rb, p)) \/ IsDummy(Flags(rb, p)))
        THEN p
        ELSE IF past(p) = rb.read_ptr \/ past(p) > rb.size - HDR THEN past(p)
             ELSE go[n - 1, past(p)]
  IN go[rb.size, rb.free_ptr]

returnItemToRingbufDefault(rb, item) ==
  LET hdr == item - HDR
      r == Assert(rb, /\ rb.free_ptr % 4 = 0
                      /\ item >= 0 /\ item < rb.size
                      /\ rb.mem[hdr] < rb.size
                      /\ ~ IsDummy(Flags(rb, hdr)) /\ ~ IsFree(Flags(rb, hdr)))
      marked == SetFlags(r, hdr, Flags(r, hdr) + iflag_free)
      free_ptr == CleanUp(marked)
  IN [Assert(marked, free_ptr <= rb.size) EXCEPT !.free_ptr = free_ptr]

returnItemToRingbufBytebuf(rb, item) ==
  [Assert(rb, item >= 0 /\ item < rb.size) EXCEPT !.free_ptr = rb.read_ptr]

returnItemToRingbuf(rb, item) ==
  IF rb.type = "BYTEBUF" THEN returnItemToRingbufBytebuf(rb, item)
  ELSE returnItemToRingbufDefault(rb, item)
=============================================================================
