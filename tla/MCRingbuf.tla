----------------------------- MODULE MCRingbuf -----------------------------
(***************************************************************************)
(* Instances of RingbufTasks.  The buffers are as small as they can be and *)
(* still hold two items, split one and need a dummy; the byte buffer takes *)
(* pieces of up to three bytes (the code asks for a header's room that it  *)
(* does not use).  Entries are multiples of 8 bytes, except in the "tight" *)
(* buffer, whose third entry ends four bytes before the end of storage.    *)
(***************************************************************************)
EXTENDS RingbufTasks

CONSTANTS s1, s2, i1, r1, r2

Item(v, n) == [val |-> v, len |-> n]

MCSizeOf == [NOSPLIT |-> 40, ALLOWSPLIT |-> 48, BYTEBUF |-> 13]

\* A byte buffer keeps its data only if one task, or handlers, send.
MCSends ==
  [NOSPLIT    |-> [s \in Senders |-> IF s = s1 THEN {Item(1, 6), Item(2, 8)} ELSE {Item(1, 6)}],
   ALLOWSPLIT |-> [s \in Senders |-> IF s = s1 THEN {Item(1, 16)} ELSE {Item(1, 6)}],
   BYTEBUF    |-> [s \in Senders |-> IF s = s1 THEN {Item(1, 2)} ELSE {}]]

MCWaits == [NOSPLIT |-> {"some"}, ALLOWSPLIT |-> {"forever"}, BYTEBUF |-> {"forever"}]

TightSizeOf == [t \in Types |-> 40]
TightSends == [t \in Types |-> [s \in Senders |-> {Item(1, 4)}]]
=============================================================================
