------------------------------- MODULE UartRx -------------------------------
(***************************************************************************)
(* The receiving side of components/driver/uart.c: the interrupt handler   *)
(* moves the hardware FIFO into a ring buffer, or stashes what does not    *)
(* fit and turns its interrupts off; tasks that call uart_read_bytes or    *)
(* uart_flush take data out, put the stash in and turn them on again.      *)
(*                                                                         *)
(* The ring buffer is the FIFO of bytes that module RingbufTasks shows a   *)
(* byte buffer to be, with the room the code asks for.  A byte is its      *)
(* position on the line, so that lost, doubled and reordered bytes show.   *)
(*                                                                         *)
(* The handler runs on one CPU.  With sameCpu the tasks run there too and  *)
(* never see it half done; without, they run on the other one.             *)
(***************************************************************************)
EXTENDS Integers, Sequences, FiniteSets

CONSTANTS
  Tasks,
  RxBufferSize,   \* rx_buffer_size of uart_driver_install
  UART_FIFO_LEN,  \* 128 in the hardware
  SameCpu,        \* the values of sameCpu to try
  Lengths,        \* lengths given to uart_read_bytes
  MaxBytes        \* bound: bytes on the line

ASSUME UartAssumption ==
  /\ "none" \notin Tasks
  /\ SameCpu \subseteq BOOLEAN
  /\ {RxBufferSize, UART_FIFO_LEN, MaxBytes} \subseteq Nat /\ Lengths \subseteq Nat \ {0}
  /\ RxBufferSize > UART_FIFO_LEN + 8   \* a full FIFO can be sent at all

VARIABLES
  sameCpu,
  next,                 \* the next byte on the line
  rxfifo, ovf,          \* the hardware FIFO and its overflow interrupt
  rx_intr,              \* rxfifo_full and rxfifo_tout are enabled
  stash, rx_stash_len,  \* bytes in rx_data_buf that are not in the ring; how many were put there
  rx_buffer_full_flg,
  ring,                 \* rx_ring_buf: bytes nobody has received
  held,                 \* length of the piece lent by the ring, 0 without one
  rest,                 \* rx_ptr and rx_cur_remain: what of it is not copied
  rx_buffered_len,
  rx_mux,               \* its holder, "none" if free
  isrPc, pc,
  op,                   \* per task: what is left to read and what was copied
  got, lost             \* bytes given to callers, in order; bytes dropped

hwVars == <<next, rxfifo, ovf>>
drvVars == <<stash, rx_stash_len, rx_buffer_full_flg, rx_buffered_len>>
ringVars == <<ring, held, rest>>
taskVars == <<rx_mux, pc, op>>
vars == <<sameCpu, hwVars, rx_intr, drvVars, ringVars, isrPc, taskVars, got, lost>>

HDR == 8      \* what xRingbufferSend adds to the size it needs
ElementsOf(s) == {s[i] : i \in DOMAIN s}
Idle == [length |-> 0, copied |-> 0]

TypeOK ==
  /\ sameCpu \in BOOLEAN /\ ovf \in BOOLEAN /\ rx_intr \in BOOLEAN /\ rx_buffer_full_flg \in BOOLEAN
  /\ next \in 1 .. MaxBytes + 1
  /\ Len(rxfifo) <= UART_FIFO_LEN /\ Len(stash) <= rx_stash_len /\ rx_stash_len <= UART_FIFO_LEN
  /\ held + Len(ring) < RxBufferSize
  /\ rx_buffered_len \in Int
  /\ rx_mux \in Tasks \cup {"none"}
  /\ isrPc \in {"idle", "send", "count", "full", "flag"}
  /\ pc \in [Tasks -> {"idle", "loop", "copy", "return", "stash", "count", "clear", "enable", "done", "sub",
                       "f_disable", "f_return", "f_drop", "f_receive", "f_sub", "f_give", "f_stash",
                       "f_count", "f_clear", "f_enable"}]
  /\ op \in [Tasks -> [length : Nat, copied : Nat]]

Init ==
  /\ sameCpu \in SameCpu
  /\ next = 1 /\ rxfifo = <<>> /\ ovf = FALSE /\ rx_intr = TRUE
  /\ stash = <<>> /\ rx_stash_len = 0 /\ rx_buffer_full_flg = FALSE /\ rx_buffered_len = 0
  /\ ring = <<>> /\ held = 0 /\ rest = <<>>
  /\ rx_mux = "none" /\ isrPc = "idle"
  /\ pc = [t \in Tasks |-> "idle"] /\ op = [t \in Tasks |-> Idle]
  /\ got = <<>> /\ lost = {}

\* xRingbufferSend and xRingbufferSendFromISR find enough free memory.
Room(n) == n + HDR <= RxBufferSize - 1 - held - Len(ring)

-----------------------------------------------------------------------------
(* The line and the interrupt handler                                      *)

\* A byte that finds the FIFO full is lost.
ByteArrives ==
  /\ next <= MaxBytes
  /\ next' = next + 1
  /\ \/ /\ Len(rxfifo) < UART_FIFO_LEN
        /\ rxfifo' = Append(rxfifo, next)
        /\ UNCHANGED <<ovf, lost>>
     \/ /\ Len(rxfifo) = UART_FIFO_LEN
        /\ ovf' = TRUE
        /\ lost' = lost \cup {next}
        /\ UNCHANGED rxfifo
  /\ UNCHANGED <<sameCpu, rx_intr, drvVars, ringVars, isrPc, taskVars, got>>

\* Mutant: a stash is overwritten.
IsrRead_Overwrite ==
  /\ isrPc = "idle" /\ rx_intr /\ rxfifo # <<>>
  /\ stash' = rxfifo /\ rx_stash_len' = Len(rxfifo) /\ rxfifo' = <<>> /\ isrPc' = "send"
  /\ UNCHANGED <<sameCpu, next, ovf, rx_intr, rx_buffer_full_flg, rx_buffered_len, ringVars, taskVars, got, lost>>

\* The FIFO is read into rx_data_buf, unless it still holds a stash.
IsrRead ==
  /\ isrPc = "idle" /\ rx_intr /\ rxfifo # <<>>
  /\ ~ rx_buffer_full_flg
  /\ stash' = rxfifo /\ rx_stash_len' = Len(rxfifo)
  /\ rxfifo' = <<>>
  /\ isrPc' = "send"
  /\ UNCHANGED <<sameCpu, next, ovf, rx_intr, rx_buffer_full_flg, rx_buffered_len, ringVars, taskVars, got, lost>>

IsrStillFull ==
  /\ isrPc = "idle" /\ rx_intr /\ rxfifo # <<>>
  /\ rx_buffer_full_flg
  /\ rx_intr' = FALSE
  /\ UNCHANGED <<sameCpu, hwVars, drvVars, ringVars, isrPc, taskVars, got, lost>>

IsrSend ==
  /\ isrPc = "send"
  /\ \/ /\ Room(rx_stash_len)
        /\ ring' = ring \o stash /\ stash' = <<>>
        /\ isrPc' = "count"
     \/ /\ ~ Room(rx_stash_len)
        /\ isrPc' = "full"
        /\ UNCHANGED <<ring, stash>>
  /\ UNCHANGED <<sameCpu, hwVars, rx_intr, rx_stash_len, rx_buffer_full_flg, rx_buffered_len, held, rest, taskVars,
                 got, lost>>

IsrCount ==
  /\ isrPc = "count"
  /\ rx_buffered_len' = rx_buffered_len + rx_stash_len
  /\ isrPc' = "idle"
  /\ UNCHANGED <<sameCpu, hwVars, rx_intr, stash, rx_stash_len, rx_buffer_full_flg, ringVars, taskVars, got, lost>>

IsrDisable ==
  /\ isrPc = "full"
  /\ rx_intr' = FALSE
  /\ isrPc' = "flag"
  /\ UNCHANGED <<sameCpu, hwVars, drvVars, ringVars, taskVars, got, lost>>

IsrFlag ==
  /\ isrPc = "flag"
  /\ rx_buffer_full_flg' = TRUE
  /\ isrPc' = "idle"
  /\ UNCHANGED <<sameCpu, hwVars, rx_intr, stash, rx_stash_len, rx_buffered_len, ringVars, taskVars, got, lost>>

\* Comes after the data interrupts in the handler's chain of else-ifs.
IsrOverflow ==
  /\ isrPc = "idle" /\ ovf
  /\ ~ (rx_intr /\ rxfifo # <<>>)
  /\ ovf' = FALSE
  /\ rxfifo' = <<>> /\ lost' = lost \cup ElementsOf(rxfifo)
  /\ UNCHANGED <<sameCpu, next, rx_intr, drvVars, ringVars, isrPc, taskVars, got>>

Isr == IsrRead \/ IsrStillFull \/ IsrSend \/ IsrCount \/ IsrDisable \/ IsrFlag \/ IsrOverflow

-----------------------------------------------------------------------------
(* What reading and flushing have in common                                *)

\* The task t may take a step, and goes from one place to another.
At(t, from, to) ==
  /\ pc[t] = from
  /\ sameCpu => isrPc = "idle"
  /\ pc' = [pc EXCEPT ![t] = to]

TakeMux(t) == rx_mux = "none" /\ rx_mux' = t

\* xRingbufferReceive lends a piece: up to the end of the storage, or all.
Lend(n) == held' = n /\ ring' = SubSeq(ring, n + 1, Len(ring))

\* A byte buffer that is written without room: the reader finds what lies
\* between its pointers, the last bytes only if write_ptr overtook it.
Written(bytes) == IF Len(bytes) < RxBufferSize THEN bytes ELSE SubSeq(bytes, RxBufferSize + 1, Len(bytes))

\* After an item was returned: the stash goes into the ring.  Without room
\* xRingbufferSend takes free_space_sem, which was just given; if its one
\* tick is over by then it writes nevertheless, if not it times out: nobody
\* else returns an item.
SendStash(t, here, sent, next_) ==
  /\ \/ /\ rx_buffer_full_flg
        /\ At(t, here, sent)
        /\ ring' = Written(ring \o stash) /\ stash' = <<>>
     \/ /\ ~ (rx_buffer_full_flg /\ Room(rx_stash_len))
        /\ At(t, here, next_)
        /\ UNCHANGED <<ring, stash>>
  /\ UNCHANGED <<sameCpu, hwVars, rx_intr, rx_stash_len, rx_buffer_full_flg, rx_buffered_len, held, rest, isrPc,
                 rx_mux, op, got, lost>>

CountStash(t, here, next_) ==
  /\ At(t, here, next_)
  /\ rx_buffered_len' = rx_buffered_len + rx_stash_len
  /\ UNCHANGED <<sameCpu, hwVars, rx_intr, stash, rx_stash_len, rx_buffer_full_flg, ringVars, isrPc, rx_mux, op,
                 got, lost>>

ClearFlag(t, here, next_) ==
  /\ At(t, here, next_)
  /\ rx_buffer_full_flg' = FALSE
  /\ UNCHANGED <<sameCpu, hwVars, rx_intr, stash, rx_stash_len, rx_buffered_len, ringVars, isrPc, rx_mux, op,
                 got, lost>>

-----------------------------------------------------------------------------
(* uart_read_bytes                                                         *)

ReadBytes(t, length) ==
  /\ At(t, "idle", "loop")
  /\ TakeMux(t)
  /\ op' = [op EXCEPT ![t] = [length |-> length, copied |-> 0]]
  /\ UNCHANGED <<sameCpu, hwVars, rx_intr, drvVars, ringVars, isrPc, got, lost>>

\* The next piece, if the last one is used up.
ReadReceive(t) ==
  /\ At(t, "loop", "copy")
  /\ op[t].length > 0
  /\ \/ rest # <<>> /\ UNCHANGED ringVars
     \/ rest = <<>> /\ \E n \in 1 .. Len(ring) : Lend(n) /\ rest' = SubSeq(ring, 1, n)
  /\ UNCHANGED <<sameCpu, hwVars, rx_intr, drvVars, isrPc, rx_mux, op, got, lost>>

\* All is read, or xRingbufferReceive timed out.
ReadLeave(t) ==
  /\ At(t, "loop", "done")
  /\ op[t].length = 0 \/ rest \o ring = <<>>
  /\ UNCHANGED <<sameCpu, hwVars, rx_intr, drvVars, ringVars, isrPc, rx_mux, op, got, lost>>

ReadCopy(t) ==
  LET n == IF Len(rest) > op[t].length THEN op[t].length ELSE Len(rest)
  IN /\ At(t, "copy", IF n = Len(rest) THEN "return" ELSE "loop")
     /\ got' = got \o SubSeq(rest, 1, n)
     /\ rest' = SubSeq(rest, n + 1, Len(rest))
     /\ op' = [op EXCEPT ![t] = [length |-> @.length - n, copied |-> @.copied + n]]
     /\ UNCHANGED <<sameCpu, hwVars, rx_intr, drvVars, ring, held, isrPc, rx_mux, lost>>

ReadReturn(t) ==
  /\ At(t, "return", "stash")
  /\ held' = 0
  /\ UNCHANGED <<sameCpu, hwVars, rx_intr, drvVars, ring, rest, isrPc, rx_mux, op, got, lost>>

\* Mutant: the reader forgets the stash.
ReadStash_Skip(t) ==
  /\ At(t, "stash", "loop")
  /\ UNCHANGED <<sameCpu, hwVars, rx_intr, drvVars, ringVars, isrPc, rx_mux, op, got, lost>>

ReadStash(t) == SendStash(t, "stash", "count", "loop")
ReadCount(t) == CountStash(t, "count", "clear")
ReadClear(t) == ClearFlag(t, "clear", "enable")

ReadEnable(t) ==
  /\ At(t, "enable", "loop")
  /\ rx_intr' = TRUE
  /\ UNCHANGED <<sameCpu, hwVars, drvVars, ringVars, isrPc, rx_mux, op, got, lost>>

ReadGiveMux(t) ==
  /\ At(t, "done", "sub")
  /\ rx_mux' = "none"
  /\ UNCHANGED <<sameCpu, hwVars, rx_intr, drvVars, ringVars, isrPc, op, got, lost>>

ReadSubtract(t) ==
  /\ At(t, "sub", "idle")
  /\ rx_buffered_len' = rx_buffered_len - op[t].copied
  /\ op' = [op EXCEPT ![t] = Idle]
  /\ UNCHANGED <<sameCpu, hwVars, rx_intr, stash, rx_stash_len, rx_buffer_full_flg, ringVars, isrPc, rx_mux,
                 got, lost>>

-----------------------------------------------------------------------------
(* uart_flush                                                              *)

Flush(t) ==
  /\ At(t, "idle", "f_disable")
  /\ TakeMux(t)
  /\ UNCHANGED <<sameCpu, hwVars, rx_intr, drvVars, ringVars, isrPc, op, got, lost>>

FlushDisable(t) ==
  /\ At(t, "f_disable", IF held > 0 THEN "f_return" ELSE "f_receive")
  /\ rx_intr' = FALSE
  /\ UNCHANGED <<sameCpu, hwVars, drvVars, ringVars, isrPc, rx_mux, op, got, lost>>

\* A piece left by uart_read_bytes is returned, then taken off the count.
FlushReturn(t) ==
  /\ At(t, "f_return", "f_drop")
  /\ held' = 0
  /\ UNCHANGED <<sameCpu, hwVars, rx_intr, drvVars, ring, rest, isrPc, rx_mux, op, got, lost>>

\* Mutant: the bytes dropped stay counted.
FlushDrop_NoCount(t) ==
  /\ At(t, "f_drop", "f_receive")
  /\ lost' = lost \cup ElementsOf(rest) /\ rest' = <<>>
  /\ UNCHANGED <<sameCpu, hwVars, rx_intr, drvVars, ring, held, isrPc, rx_mux, op, got>>

FlushDrop(t) ==
  /\ At(t, "f_drop", "f_receive")
  /\ rx_buffered_len' = rx_buffered_len - Len(rest)
  /\ lost' = lost \cup ElementsOf(rest) /\ rest' = <<>>
  /\ UNCHANGED <<sameCpu, hwVars, rx_intr, stash, rx_stash_len, rx_buffer_full_flg, ring, held, isrPc, rx_mux, op,
                 got>>

FlushReceive(t) ==
  /\ \/ /\ At(t, "f_receive", "f_sub")
        /\ \E n \in 1 .. Len(ring) : Lend(n) /\ lost' = lost \cup ElementsOf(SubSeq(ring, 1, n))
     \/ /\ At(t, "f_receive", "f_enable")
        /\ ring = <<>>
        /\ UNCHANGED <<ring, held, lost>>
  /\ UNCHANGED <<sameCpu, hwVars, rx_intr, drvVars, rest, isrPc, rx_mux, op, got>>

FlushSubtract(t) ==
  /\ At(t, "f_sub", "f_give")
  /\ rx_buffered_len' = rx_buffered_len - held
  /\ UNCHANGED <<sameCpu, hwVars, rx_intr, stash, rx_stash_len, rx_buffer_full_flg, ringVars, isrPc, rx_mux, op,
                 got, lost>>

FlushGive(t) ==
  /\ At(t, "f_give", "f_stash")
  /\ held' = 0
  /\ UNCHANGED <<sameCpu, hwVars, rx_intr, drvVars, ring, rest, isrPc, rx_mux, op, got, lost>>

FlushStash(t) == SendStash(t, "f_stash", "f_count", "f_receive")
FlushCount(t) == CountStash(t, "f_count", "f_clear")
FlushClear(t) == ClearFlag(t, "f_clear", "f_receive")

\* uart_reset_fifo, the interrupts back on, and rx_mux given.
FlushEnable(t) ==
  /\ At(t, "f_enable", "idle")
  /\ rxfifo' = <<>> /\ lost' = lost \cup ElementsOf(rxfifo)
  /\ rx_intr' = TRUE
  /\ rx_mux' = "none"
  /\ UNCHANGED <<sameCpu, next, ovf, drvVars, ringVars, isrPc, op, got>>

-----------------------------------------------------------------------------
ReadSteps(t) ==
  \/ ReadReceive(t) \/ ReadLeave(t) \/ ReadCopy(t) \/ ReadReturn(t) \/ ReadStash(t) \/ ReadCount(t)
  \/ ReadClear(t) \/ ReadEnable(t) \/ ReadGiveMux(t) \/ ReadSubtract(t)

FlushSteps(t) ==
  \/ FlushDisable(t) \/ FlushReturn(t) \/ FlushDrop(t) \/ FlushReceive(t) \/ FlushSubtract(t)
  \/ FlushGive(t) \/ FlushStash(t) \/ FlushCount(t) \/ FlushClear(t) \/ FlushEnable(t)

Read(t) == \E length \in Lengths : ReadBytes(t, length)

Next ==
  \/ ByteArrives
  \/ Isr
  \/ \E t \in Tasks : Read(t) \/ Flush(t) \/ ReadSteps(t) \/ FlushSteps(t)

Spec == Init /\ [][Next]_vars

(***************************************************************************)
(* The handler runs when its interrupt is pending, a call that has begun   *)
(* is finished, and the tasks read again and again; rx_mux is a FreeRTOS   *)
(* mutex, whose waiters get it in turn.  Nothing makes bytes arrive.       *)
(***************************************************************************)
Fairness ==
  /\ WF_vars(Isr)
  /\ \A t \in Tasks : WF_vars(ReadSteps(t) \/ FlushSteps(t)) /\ SF_vars(Read(t))

FairSpec == Spec /\ Fairness

-----------------------------------------------------------------------------
(***************************************************************************)
(* Every byte that came over the line is in exactly one place - given to   *)
(* a caller, in the piece being read, in the ring, in the stash or in the  *)
(* hardware FIFO - or was dropped by a flush or an overflow, and the       *)
(* places are in the order of the line.                                    *)
(***************************************************************************)
EveryByteOnce ==
  LET line == got \o rest \o ring \o stash \o rxfifo
  IN /\ \A i, j \in DOMAIN line : i < j => line[i] < line[j]
     /\ ElementsOf(line) \cap lost = {}
     /\ ElementsOf(line) \cup lost = 1 .. next - 1

(***************************************************************************)
(* rx_buffered_len, changed by the handler and by tasks apart from the     *)
(* ring it counts, is exact when nobody is in the middle of a call, and on *)
(* the handler's own CPU uart_get_buffered_data_len never sees it negative.*)
(***************************************************************************)
BufferedLenIsExact ==
  /\ isrPc = "idle" /\ (\A t \in Tasks : pc[t] = "idle") => rx_buffered_len = Len(ring) + Len(rest)
  /\ sameCpu => rx_buffered_len >= 0

(***************************************************************************)
(* A stash is delivered: it goes into the ring and the interrupts come     *)
(* back, as long as tasks read.  On the handler's own CPU this is so       *)
(* unless uart_flush ever returns a piece that is only partly read.        *)
(***************************************************************************)
StashIsSent ==
  sameCpu /\ [](\A t \in Tasks : pc[t] # "f_drop") => (rx_buffer_full_flg ~> ~ rx_buffer_full_flg)

\* The same without conditions: "we will have to stash the data, and send
\* next time" (uart.c).
StashIsAlwaysSent == rx_buffer_full_flg ~> ~ rx_buffer_full_flg
=============================================================================
