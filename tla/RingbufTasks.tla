---------------------------- MODULE RingbufTasks ----------------------------
(***************************************************************************)
(* Tasks and interrupt handlers on both CPUs that use one ring buffer      *)
(* (components/freertos/ringbuf.c).  The structure changes only under the  *)
(* spinlock, one step of module Ringbuf at a time; everything else is      *)
(* interleaved: the looks at the pointers without the lock, the two binary *)
(* semaphores, and the give that follows the unlock.                       *)
(*                                                                         *)
(* Waiting times are kept as far as the code tells them apart.  left is    *)
(* ticks_remaining: "forever" (portMAX_DELAY), "some", "zero", or "under"  *)
(* when the end has passed and the unsigned difference is larger than      *)
(* ticks_to_wait, after which xSemaphoreTake practically waits for ever.   *)
(***************************************************************************)
EXTENDS Ringbuf, FiniteSets

CONSTANTS
  SendTasks, SendIsrs,    \* who calls xRingbufferSend, ...SendFromISR
  RecvTasks, RecvIsrs,    \* who calls xRingbufferReceive[UpTo], ...FromISR
  BufTypes,               \* the types of buffer to try
  SizeOf,                 \* per type, the length of the buffer
  Sends,                  \* per type and sender, the items it sends
  Waits,                  \* per type, the ticks_to_wait of the callers
  Wanted                  \* wanted_size of the ...UpTo functions

Senders == SendTasks \cup SendIsrs
Receivers == RecvTasks \cup RecvIsrs

ASSUME RingAssumption ==
  /\ BufTypes \subseteq Types
  /\ \A type \in BufTypes :
       /\ SizeOf[type] \in Nat /\ SizeOf[type] % Unit(type) = 0
       /\ \A s \in Senders : Sends[type][s] \subseteq [val : Nat, len : Nat]
       /\ Waits[type] \subseteq {"forever", "some", "zero"}
  /\ Wanted \subseteq Nat \ {0}

VARIABLES
  rb,                  \* the structure, see Ringbuf
  free_space_sem,      \* binary semaphores: 0 or 1
  items_buffered_sem,
  sendPc, sending,     \* per sender: where it is; its item, ticks_to_wait and left
  recvPc, recving,     \* per receiver: where it is; its wanted_size and ticks_to_wait
  holding              \* per receiver: what it was lent, [ptr, len]

ringVars == <<rb, free_space_sem, items_buffered_sem>>
sendVars == <<sendPc, sending>>
recvVars == <<recvPc, recving, holding>>
vars == <<ringVars, sendVars, recvVars>>

NoSend == [item |-> [val |-> 0, len |-> 0], wait |-> "zero", left |-> "zero"]
NoRecv == [wanted |-> 0, wait |-> "zero"]
Nothing == [ptr |-> 0, len |-> 0]

TypeOK ==
  /\ rb.type \in BufTypes /\ rb.size = SizeOf[rb.type]
  /\ {rb.write_ptr, rb.read_ptr, rb.free_ptr} \subseteq DOMAIN rb.mem
  /\ {free_space_sem, items_buffered_sem} \subseteq {0, 1}
  /\ sendPc \in [Senders -> {"idle", "check", "take", "cond", "copy", "give"}]
  /\ recvPc \in [Receivers -> {"idle", "check", "take", "get", "have", "give"}]
  /\ \A s \in Senders : sendPc[s] # "idle" => sending[s].item \in Sends[rb.type][s]
  /\ \A r \in Receivers : holding[r].ptr + holding[r].len <= rb.size

Init ==
  /\ \E type \in BufTypes : rb = Create(type, SizeOf[type])
  /\ free_space_sem = 0 /\ items_buffered_sem = 0
  /\ sendPc = [s \in Senders |-> "idle"] /\ sending = [s \in Senders |-> NoSend]
  /\ recvPc = [r \in Receivers |-> "idle"] /\ recving = [r \in Receivers |-> NoRecv]
  /\ holding = [r \in Receivers |-> Nothing]

-----------------------------------------------------------------------------
(* xRingbufferSend                                                         *)

sendTo(s, pc) == sendPc' = [sendPc EXCEPT ![s] = pc]

\* The inner loop leaves or repeats on what it reads without the lock.
NoRoom(item) == ringbufferFreeMem(rb) < item.len + HDR

\* The call and its first look.  Larger items are refused and change nothing.
Send(s, item, wait) ==
  /\ sendPc[s] = "idle"
  /\ item.len <= MaxItemSize(rb)
  /\ sending' = [sending EXCEPT ![s] = [item |-> item, wait |-> wait, left |-> wait]]
  /\ sendTo(s, IF NoRoom(item) THEN "take" ELSE "cond")
  /\ UNCHANGED <<ringVars, recvVars>>

SendCheck(s) ==
  /\ sendPc[s] = "check"
  /\ sendTo(s, IF NoRoom(sending[s].item) THEN "take" ELSE "cond")
  /\ UNCHANGED <<ringVars, sending, recvVars>>

\* The time that is left after waiting.
Remaining(wait) ==
  CASE wait = "forever" -> {"forever"}
    [] wait = "some"    -> {"some", "zero", "under"}
    [] wait = "zero"    -> {"zero", "under"}

SendTake(s) ==
  /\ sendPc[s] = "take"
  /\ free_space_sem = 1
  /\ free_space_sem' = 0
  /\ \E left \in Remaining(sending[s].wait) : sending' = [sending EXCEPT ![s].left = left]
  /\ sendTo(s, "cond")
  /\ UNCHANGED <<rb, items_buffered_sem, recvVars>>

SendTimeout(s) ==
  /\ sendPc[s] = "take"
  /\ free_space_sem = 0
  /\ sending[s].left \in {"some", "zero"}
  /\ sendTo(s, "idle")
  /\ sending' = [sending EXCEPT ![s] = NoSend]
  /\ UNCHANGED <<ringVars, recvVars>>

SendCond(s) ==
  /\ sendPc[s] = "cond"
  /\ sendTo(s, IF NoRoom(sending[s].item) /\ sending[s].left \in {"some", "forever"} THEN "check" ELSE "copy")
  /\ UNCHANGED <<ringVars, sending, recvVars>>

SendCopy(s) ==
  /\ sendPc[s] = "copy"
  /\ \/ /\ Fits(rb, sending[s].item.len)
        /\ rb' = copyItemToRingbuf(rb, sending[s].item)
        /\ sendTo(s, "give")
     \/ /\ ~ Fits(rb, sending[s].item.len)
        /\ sendTo(s, "check")
        /\ UNCHANGED rb
  /\ UNCHANGED <<free_space_sem, items_buffered_sem, sending, recvVars>>

SendGive(s) ==
  /\ sendPc[s] = "give"
  /\ items_buffered_sem' = 1
  /\ sendTo(s, "idle")
  /\ sending' = [sending EXCEPT ![s] = NoSend]
  /\ UNCHANGED <<rb, free_space_sem, recvVars>>

\* Mutant: a handler does not give the semaphore.
SendFromISR_NoGive(s, item) ==
  /\ sendPc[s] = "idle"
  /\ item.len + HDR <= ringbufferFreeMem(rb) /\ Fits(rb, item.len)
  /\ rb' = copyItemToRingbuf(rb, item)
  /\ UNCHANGED <<free_space_sem, items_buffered_sem, sendVars, recvVars>>

\* Checks and copies under the lock.  When there is no room it fails and
\* nothing changes.
SendFromISR(s, item) ==
  /\ sendPc[s] = "idle"
  /\ item.len + HDR <= ringbufferFreeMem(rb)
  /\ Fits(rb, item.len)
  /\ rb' = copyItemToRingbuf(rb, item)
  /\ sending' = [sending EXCEPT ![s].item = item]
  /\ sendTo(s, "give")
  /\ UNCHANGED <<free_space_sem, items_buffered_sem, recvVars>>

-----------------------------------------------------------------------------
(* xRingbufferReceive, xRingbufferReceiveUpTo and vRingbufferReturnItem    *)

recvTo(r, pc) == recvPc' = [recvPc EXCEPT ![r] = pc]

WantedSizes == {0} \cup (IF rb.type = "BYTEBUF" THEN Wanted ELSE {})

Receive(r, wanted, wait) ==
  /\ recvPc[r] = "idle"
  /\ recving' = [recving EXCEPT ![r] = [wanted |-> wanted, wait |-> wait]]
  /\ recvTo(r, IF rb.read_ptr = rb.write_ptr THEN "take" ELSE "get")
  /\ UNCHANGED <<ringVars, sendVars, holding>>

RecvCheck(r) ==
  /\ recvPc[r] = "check"
  /\ recvTo(r, IF rb.read_ptr = rb.write_ptr THEN "take" ELSE "get")
  /\ UNCHANGED <<ringVars, sendVars, recving, holding>>

RecvTake(r) ==
  /\ recvPc[r] = "take"
  /\ items_buffered_sem = 1
  /\ items_buffered_sem' = 0
  /\ recvTo(r, "check")
  /\ UNCHANGED <<rb, free_space_sem, sendVars, recving, holding>>

RecvTimeout(r) ==
  /\ recvPc[r] = "take"
  /\ items_buffered_sem = 0
  /\ recving[r].wait # "forever"
  /\ recvTo(r, "idle")
  /\ recving' = [recving EXCEPT ![r] = NoRecv]
  /\ UNCHANGED <<ringVars, sendVars, holding>>

\* Under the lock: the item, which r holds from then on.
GetItem(r, wanted) ==
  LET got == getItemFromRingbuf(rb, wanted)
  IN /\ HasItem(rb)
     /\ rb' = got.rb
     /\ holding' = [holding EXCEPT ![r] = [ptr |-> got.ptr, len |-> got.len]]
     /\ recvTo(r, "have")

RecvGet(r) ==
  /\ recvPc[r] = "get"
  /\ \/ GetItem(r, recving[r].wanted)
     \/ ~ HasItem(rb) /\ recvTo(r, "check") /\ UNCHANGED <<rb, holding>>
  /\ UNCHANGED <<free_space_sem, items_buffered_sem, sendVars, recving>>

\* Without an item it returns NULL and nothing changes.
ReceiveFromISR(r, wanted) ==
  /\ recvPc[r] = "idle"
  /\ GetItem(r, wanted)
  /\ UNCHANGED <<free_space_sem, items_buffered_sem, sendVars, recving>>

\* Mutant: senders are not woken.
ReturnItem_NoGive(r) ==
  /\ recvPc[r] = "have"
  /\ rb' = returnItemToRingbuf(rb, holding[r].ptr)
  /\ holding' = [holding EXCEPT ![r] = Nothing]
  /\ recvTo(r, "idle")
  /\ UNCHANGED <<free_space_sem, items_buffered_sem, sendVars, recving>>

ReturnItem(r) ==
  /\ recvPc[r] = "have"
  /\ rb' = returnItemToRingbuf(rb, holding[r].ptr)
  /\ holding' = [holding EXCEPT ![r] = Nothing]
  /\ recvTo(r, "give")
  /\ UNCHANGED <<free_space_sem, items_buffered_sem, sendVars, recving>>

ReturnGive(r) ==
  /\ recvPc[r] = "give"
  /\ free_space_sem' = 1
  /\ recvTo(r, "idle")
  /\ recving' = [recving EXCEPT ![r] = NoRecv]
  /\ UNCHANGED <<rb, items_buffered_sem, sendVars, holding>>

-----------------------------------------------------------------------------
SendSteps(s) ==
  \/ SendCheck(s) \/ SendTake(s) \/ SendTimeout(s) \/ SendCond(s) \/ SendCopy(s) \/ SendGive(s)

RecvSteps(r) ==
  \/ RecvCheck(r) \/ RecvTake(r) \/ RecvTimeout(r) \/ RecvGet(r) \/ ReturnItem(r) \/ ReturnGive(r)

\* After a failed assertion the program is gone.
Next ==
  /\ rb.ok
  /\ \/ \E s \in Senders : SendSteps(s)
     \/ \E s \in SendTasks, wait \in Waits[rb.type] :
          \E item \in Sends[rb.type][s] : Send(s, item, wait)
     \/ \E s \in SendIsrs : \E item \in Sends[rb.type][s] : SendFromISR(s, item)
     \/ \E r \in Receivers : RecvSteps(r)
     \/ \E r \in RecvTasks, wanted \in WantedSizes, wait \in Waits[rb.type] :
          Receive(r, wanted, wait)
     \/ \E r \in RecvIsrs, wanted \in WantedSizes : ReceiveFromISR(r, wanted)

Spec == Init /\ [][Next]_vars

(***************************************************************************)
(* A task that can run does, and receivers give back what they got and     *)
(* call again.  Nothing is assumed of the senders but that they finish.    *)
(***************************************************************************)
Fairness ==
  /\ \A s \in Senders : WF_vars(SendSteps(s))
  /\ \A r \in RecvTasks :
       WF_vars(RecvSteps(r) \/ \E n \in WantedSizes, w \in Waits[rb.type] : Receive(r, n, w))
  /\ \A r \in RecvIsrs : WF_vars(RecvSteps(r))

FairSpec == Spec /\ Fairness
-----------------------------------------------------------------------------
(* The buffer as a queue                                                   *)

\* What memory holds for a reader; outside the storage, anything.
Peek(p) == IF p \in DOMAIN rb.mem THEN rb.mem[p] ELSE Garbage
Piece(p, len) ==
  [len |-> len, data |-> [i \in 1 .. Units(rb.type, len) |-> Peek(p + Unit(rb.type) * (i - 1))]]
Bytes(p, n) == [i \in 1 .. n |-> Piece((p + i - 1) % rb.size, 1)]

\* From read_ptr to write_ptr, piece by piece.
Unread ==
  LET at(p) == IF IsDummy(Peek(p + 4)) THEN 0 ELSE p
      from[n \in 0 .. rb.size, p \in Int] ==
        IF n = 0 \/ p = rb.write_ptr THEN <<>>
        ELSE <<Piece(at(p) + HDR, Peek(at(p)))>>
             \o from[n - 1, Wrap(rb, at(p) + HDR + Round(Peek(at(p))))]
  IN IF rb.type = "BYTEBUF" THEN Bytes(rb.read_ptr, (rb.write_ptr - rb.read_ptr) % rb.size)
     ELSE from[rb.size, rb.read_ptr]

Lent ==
  [r \in Receivers |->
     IF recvPc[r] # "have" THEN <<>>
     ELSE IF rb.type = "BYTEBUF" THEN Bytes(holding[r].ptr, holding[r].len)
     ELSE <<Piece(holding[r].ptr, holding[r].len)>>]

WholeItems ==
  [type \in Types |-> IF type \in BufTypes
                      THEN {[len |-> item.len, data |-> Payload(type, item)] :
                           item \in UNION {Sends[type][s] : s \in Senders}}
                      ELSE {}]

RF == INSTANCE RingFifo
        WITH Receivers <- Receivers, Items <- WholeItems,
             type <- rb.type, queue <- Unread, lent <- Lent

(***************************************************************************)
(* Whatever the interleaving, headers, dummies, splits, wrap-arounds and   *)
(* out-of-order returns amount to a FIFO queue, and memory that is lent is *)
(* never written: every step of the buffer is a step of RingFifo.          *)
(***************************************************************************)
Fifo == RF!Spec

\* No configASSERT of ringbuf.c fails, and no copy runs over the end.
NoAssertFails == rb.ok

SendBlocked(s) == sendPc[s] = "take" /\ free_space_sem = 0
Drained == rb.free_ptr = rb.write_ptr

(***************************************************************************)
(* No wake-up of a sender is lost: when one waits for room in a buffer     *)
(* that is empty, a receiver is about to give the semaphore, or another    *)
(* sender is awake whose item will cause it to be given.                   *)
(***************************************************************************)
SenderWakes ==
  \A s \in SendTasks :
    SendBlocked(s) /\ Drained
    => \/ \E r \in Receivers : recvPc[r] = "give"
       \/ \E o \in SendTasks : sendPc[o] \in {"check", "cond", "copy"}

(***************************************************************************)
(* An item as large as xRingbufferGetMaxItemSize allows fits into an empty *)
(* buffer, wherever the pointers happen to be: otherwise xRingbufferSend   *)
(* would wait for ever.  Of byte buffers this is false (see README).       *)
(***************************************************************************)
MaxItemFits ==
  rb.type # "BYTEBUF" /\ Drained
  => \A len \in 1 .. MaxItemSize(rb) : Fits(rb, len) /\ len + HDR <= ringbufferFreeMem(rb)

\* Data does not stay in the buffer: some receiver gets the next piece.
UnreadIsReceived == rb.read_ptr # rb.write_ptr ~> \E r \in Receivers : recvPc[r] = "have"
=============================================================================
