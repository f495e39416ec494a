------------------------------ MODULE RingFifo ------------------------------
(***************************************************************************)
(* What a ring buffer promises (freertos/ringbuf.h): it is "strictly       *)
(* FIFO", an item arrives whole, in two pieces or as a stream of bytes     *)
(* depending on the type of the buffer, and what a receiver holds stays as *)
(* it is until it is given back: "ringbuffer writes that would write to    *)
(* this bit of memory will block".                                         *)
(*                                                                         *)
(* A piece is [len, data].  lent[r] is what r holds: one piece, or, of a   *)
(* byte buffer, any number of bytes.                                       *)
(***************************************************************************)
EXTENDS Naturals, Sequences

CONSTANTS
  Receivers,
  Items        \* per type, the pieces that stand for a whole item

VARIABLES type, queue, lent

fifoVars == <<type, queue, lent>>

Bytes(item) == [i \in 1 .. Len(item.data) |-> [len |-> 1, data |-> <<item.data[i]>>]]

\* The ways to put an item into the queue.
Cuts(item) ==
  CASE type = "NOSPLIT"    -> {<<item>>}
    [] type = "ALLOWSPLIT" ->
         {<<item>>} \cup
         {<<[len |-> 4 * n, data |-> SubSeq(item.data, 1, n)],
            [len |-> item.len - 4 * n, data |-> SubSeq(item.data, n + 1, Len(item.data))]>> :
          n \in 1 .. Len(item.data) - 1}
    [] type = "BYTEBUF"    -> {Bytes(item)}

Init ==
  /\ type \in {"NOSPLIT", "ALLOWSPLIT", "BYTEBUF"}
  /\ queue = <<>>
  /\ lent = [r \in Receivers |-> <<>>]

Send ==
  /\ \E item \in Items[type] : \E pieces \in Cuts(item) : queue' = queue \o pieces
  /\ UNCHANGED <<type, lent>>

Receive(r) ==
  /\ lent[r] = <<>>
  /\ type = "BYTEBUF" => \A q \in Receivers : lent[q] = <<>>
  /\ \E n \in 1 .. Len(queue) :
       /\ type # "BYTEBUF" => n = 1
       /\ lent' = [lent EXCEPT ![r] = SubSeq(queue, 1, n)]
       /\ queue' = SubSeq(queue, n + 1, Len(queue))
  /\ UNCHANGED type

Return(r) ==
  /\ lent[r] # <<>>
  /\ lent' = [lent EXCEPT ![r] = <<>>]
  /\ UNCHANGED <<type, queue>>

Next == Send \/ \E r \in Receivers : Receive(r) \/ Return(r)

Spec == Init /\ [][Next]_fifoVars
=============================================================================
