----------------------------- MODULE HalBuffers -----------------------------
(***************************************************************************)
(* The I/O buffers queues of ChibiOS/HAL (hal_buffers.c): a ring of        *)
(* buffers between a thread, which moves bytes, and an interrupt handler,  *)
(* which moves whole buffers.  A queue is a record with the fields of      *)
(* io_buffers_queue_t; each operator returns the queue a function of the C *)
(* code leaves behind.                                                     *)
(*                                                                         *)
(*   bcounter        filled buffers of an input queue, EMPTY ones of an    *)
(*                   output queue                                          *)
(*   brdptr, bwrptr  index of the buffer to read and to write next         *)
(*   ptr             bytes of the current buffer the thread has moved, or  *)
(*                   NoPtr when it has no current buffer                   *)
(*   buffers         the contents; the length of one is its size field,    *)
(*                   and the bound "top" follows from it                   *)
(*   suspended       set while the USB side is down                        *)
(***************************************************************************)
EXTENDS Integers, Sequences

CONSTANTS
  BuffersNumber,   \* SERIAL_USB_BUFFERS_NUMBER
  BuffersSize      \* SERIAL_USB_BUFFERS_SIZE, in bytes

ASSUME BuffersAssumption ==
  BuffersNumber \in Nat \ {0} /\ BuffersSize \in Nat \ {0}

Slots == 0..(BuffersNumber - 1)

NoPtr == -1

(* Fault: the end of the ring is noticed one buffer late.                  *)
AdvanceLate(i) == IF i + 1 > BuffersNumber THEN 0 ELSE i + 1

(* The index after i: += bsize, and back to the first buffer at btop.      *)
Advance(i) == IF i + 1 >= BuffersNumber THEN 0 ELSE i + 1

Min2(a, b) == IF a < b THEN a ELSE b

Queues(Data) ==
  [bcounter  : 0..BuffersNumber,
   brdptr    : Slots,
   bwrptr    : Slots,
   ptr       : NoPtr..BuffersSize,
   buffers   : [Slots -> Seq(Data)],
   suspended : BOOLEAN]

(* bqSuspendI and bqResumeX; the waiting thread is released by the caller. *)
BqSuspend(q) == [q EXCEPT !.suspended = TRUE]

BqResume(q) == [q EXCEPT !.suspended = FALSE]

-----------------------------------------------------------------------------
(* Input queues.                                                           *)

IbqObjectInit ==
  [bcounter |-> 0, brdptr |-> 0, bwrptr |-> 0, ptr |-> NoPtr,
   buffers |-> [i \in Slots |-> << >>], suspended |-> TRUE]

(* Fault: the thread keeps its current buffer across a reset.              *)
IbqResetKeepsPtr(q) == [q EXCEPT !.bcounter = 0, !.brdptr = 0, !.bwrptr = 0]

IbqReset(q) ==
  [q EXCEPT !.bcounter = 0, !.brdptr = 0, !.bwrptr = 0, !.ptr = NoPtr]

IbqIsEmpty(q) == q.bcounter = 0

IbqIsFull(q) == q.bwrptr = q.brdptr /\ q.bcounter # 0

IbqPostFullBuffer(q) ==
  [q EXCEPT !.bcounter = @ + 1, !.bwrptr = Advance(@)]

IbqReleaseEmptyBuffer(q) ==
  [q EXCEPT !.bcounter = @ - 1, !.brdptr = Advance(@), !.ptr = NoPtr]

(* The current buffer, acquired (ibqGetFullBufferTimeoutS) if there is none.*)
IbqCurrent(q) == IF q.ptr = NoPtr THEN [q EXCEPT !.ptr = 0] ELSE q

-----------------------------------------------------------------------------
(* Output queues.                                                          *)

ObqObjectInit ==
  [bcounter |-> BuffersNumber, brdptr |-> 0, bwrptr |-> 0, ptr |-> NoPtr,
   buffers |-> [i \in Slots |-> << >>], suspended |-> TRUE]

ObqReset(q) ==
  [q EXCEPT !.bcounter = BuffersNumber, !.brdptr = 0, !.bwrptr = 0, !.ptr = NoPtr]

ObqIsEmpty(q) == q.bwrptr = q.brdptr /\ q.bcounter # 0

ObqIsFull(q) == q.bcounter = 0

ObqReleaseEmptyBuffer(q) ==
  [q EXCEPT !.bcounter = @ + 1, !.brdptr = Advance(@)]

(* Fault: the thread goes on filling the buffer it has posted.             *)
ObqPostFullBufferKeepsPtr(q) == [q EXCEPT !.bcounter = @ - 1, !.bwrptr = Advance(@)]

ObqPostFullBuffer(q) ==
  [q EXCEPT !.bcounter = @ - 1, !.bwrptr = Advance(@), !.ptr = NoPtr]

(* The current buffer, acquired (obqGetEmptyBufferTimeoutS) if there is none.*)
ObqCurrent(q) ==
  IF q.ptr = NoPtr
  THEN [q EXCEPT !.ptr = 0, !.buffers[q.bwrptr] = << >>]
  ELSE q

(* More bytes for the current buffer.                                      *)
ObqCopy(q, bytes) ==
  [q EXCEPT !.ptr = @ + Len(bytes), !.buffers[q.bwrptr] = @ \o bytes]

(* Fault: a single byte is not worth a packet.                             *)
ObqCanFlushLate(q) == ObqIsEmpty(q) /\ q.ptr # NoPtr /\ q.ptr > 1

(* obqTryFlushI posts a partly filled buffer, but only of an empty queue.  *)
ObqCanFlush(q) == ObqIsEmpty(q) /\ q.ptr # NoPtr /\ q.ptr > 0

-----------------------------------------------------------------------------
(* What the operations keep true of a queue.                               *)

(* The index n steps after i, for n up to the number of buffers.           *)
Ahead(i, n) == IF i + n < BuffersNumber THEN i + n ELSE i + n - BuffersNumber

(* The n buffers from brdptr on are in use.                                *)
Ring(q, n) == q.bwrptr = Ahead(q.brdptr, n)

(* A current input buffer is a full one, and not read beyond its end.      *)
IbqConsistent(q) ==
  /\ Ring(q, q.bcounter)
  /\ \A i \in Slots : Len(q.buffers[i]) <= BuffersSize
  /\ q.ptr # NoPtr => q.bcounter > 0 /\ q.ptr <= Len(q.buffers[q.brdptr])

(* A current output buffer is an empty one and holds what was moved to it. *)
ObqConsistent(q) ==
  /\ Ring(q, BuffersNumber - q.bcounter)
  /\ \A i \in Slots : Len(q.buffers[i]) <= BuffersSize
  /\ q.ptr # NoPtr => q.bcounter > 0 /\ q.ptr = Len(q.buffers[q.bwrptr])

-----------------------------------------------------------------------------
(* What is in a queue, seen as bytes.                                      *)

(* The n buffers of the ring from i on, one after the other.               *)
Contents(buffers, i, n) ==
  LET cat[k \in 0..n] ==
        IF k = 0 THEN << >> ELSE cat[k - 1] \o buffers[Ahead(i, k - 1)]
  IN  cat[n]

(* Posted and not yet read by the thread.                                  *)
Unread(q) ==
  LET all == Contents(q.buffers, q.brdptr, q.bcounter)
  IN  IF q.ptr = NoPtr THEN all ELSE SubSeq(all, q.ptr + 1, Len(all))

(* Written by the thread and not yet released, posted or not.              *)
Unsent(q) ==
  Contents(q.buffers, q.brdptr, BuffersNumber - q.bcounter)
    \o IF q.ptr = NoPtr THEN << >> ELSE q.buffers[q.bwrptr]
=============================================================================
