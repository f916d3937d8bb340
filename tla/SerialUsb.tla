------------------------------ MODULE SerialUsb ------------------------------
(***************************************************************************)
(* The serial-over-USB channel of the service node: the ChibiOS driver     *)
(* (hal_serial_usb.c over hal_buffers.c and hal_usb.c) with the callbacks  *)
(* of usbcfg.c, the boot order of main.c, and the communication thread as  *)
(* the one reader and writer (chnReadTimeout with a deadline, chnWrite     *)
(* without).                                                               *)
(*                                                                         *)
(* A thread action is one critical section of the C code, from osalSysLock *)
(* to osalSysUnlock or to the point where the thread is enqueued; the USB  *)
(* interrupt runs between them, each handler in one step.  A failed        *)
(* osalDbgAssert halts the system (CH_DBG_ENABLE_ASSERTS): it sets panic,  *)
(* after which nothing happens.                                            *)
(*                                                                         *)
(* Bytes are numbered from 1 after each SET_CONFIGURATION, in each         *)
(* direction, so that a loss, a repetition or a reordering shows.          *)
(***************************************************************************)
EXTENDS HalBuffers

CONSTANTS
  ReadLength,      \* what the thread asks chnReadTimeout for (128)
  WriteLengths,    \* lengths of the replies it writes
  ChunkSize,       \* bytes moved per critical section (64)
  MaxPacket,       \* in_maxsize of the bulk IN endpoint (64)
  CanSuspend,      \* does the bus ever suspend?
  MaxIn,           \* bound: bytes the host sends per configuration
  MaxOut           \* bound: bytes the thread writes per configuration

ASSUME LengthsAssumption ==
  /\ ReadLength \in Nat \ {0}
  /\ WriteLengths \subseteq Nat \ {0}
  /\ ChunkSize \in Nat \ {0}
  /\ MaxPacket \in Nat \ {0}
  /\ CanSuspend \in BOOLEAN
  /\ MaxIn \in Nat
  /\ MaxOut \in Nat

VARIABLES
  boot,            \* how far main() has come
  state,           \* usbp->state
  saved_state,     \* usbp->saved_state
  epc,             \* is usbp->epc[1] set up?
  receiving,       \* bit 1 of usbp->receiving
  rxbuf,           \* the buffer of ibq the OUT endpoint writes to
  transmitting,    \* bit 1 of usbp->transmitting
  txbuf,           \* the buffer of obq the IN endpoint reads from
  txsize,          \* in_state->txsize
  ibq, obq,        \* sdup->ibqueue, sdup->obqueue
  pc,              \* where the communication thread is
  rdymsg,          \* what it was woken with
  count,           \* bytes moved by the call it is in: r or w
  length,          \* bytes the write it is in was asked for: n
  panic,           \* the message of the assertion that failed, or "none"
  sent,            \* bytes the host has sent (history)
  delivered,       \* bytes the thread has read (history)
  written,         \* bytes the thread has written (history)
  got              \* bytes the host has got (history)

usbVars == <<state, saved_state, epc>>
epVars == <<receiving, rxbuf, transmitting, txbuf, txsize>>
threadVars == <<pc, rdymsg, count, length>>
history == <<sent, delivered, written, got>>

vars == <<boot, state, saved_state, epc, receiving, rxbuf, transmitting, txbuf,
          txsize, ibq, obq, pc, rdymsg, count, length, panic, sent, delivered,
          written, got>>

UsbStates == {"STOP", "READY", "SELECTED", "ACTIVE", "SUSPENDED"}

Init ==
  /\ boot = "sduObjectInit"
  /\ state = "STOP"
  /\ saved_state = "STOP"
  /\ epc = FALSE
  /\ receiving = FALSE
  /\ rxbuf = 0
  /\ transmitting = FALSE
  /\ txbuf = 0
  /\ txsize = 0
  /\ ibq = IbqObjectInit
  /\ obq = ObqObjectInit
  /\ pc = "none"
  /\ rdymsg = "OK"
  /\ count = 0
  /\ length = 0
  /\ panic = "none"
  /\ sent = 0
  /\ delivered = << >>
  /\ written = 0
  /\ got = << >>

-----------------------------------------------------------------------------
(* main(): sduStart, the pause, usbStart, then the thread.                 *)

SduReady == boot # "sduObjectInit"     \* sdup->state = SDU_READY

SduStart ==
  /\ boot = "sduObjectInit"
  /\ boot' = "sduStart"
  /\ UNCHANGED <<usbVars, epVars, ibq, obq, threadVars, panic, history>>

UsbStart ==
  /\ boot = "sduStart"
  /\ boot' = "usbStart"
  /\ panic' = IF state \in {"STOP", "READY"} THEN panic ELSE "invalid_state"
  /\ state' = "READY"
  /\ epc' = FALSE
  /\ UNCHANGED <<saved_state, epVars, ibq, obq, threadVars, history>>

ThreadCreate ==
  /\ boot = "usbStart"
  /\ boot' = "running"
  /\ pc' = "read"
  /\ UNCHANGED <<usbVars, epVars, ibq, obq, rdymsg, count, length, panic, history>>

-----------------------------------------------------------------------------
(* Steps several handlers share.                                           *)

(* Fault: a full queue is not noticed.                                     *)
CanReceiveWhenFull(st, rcv, q) == st = "ACTIVE" /\ SduReady /\ ~rcv

(* Fault: the endpoint is armed only when there is nothing left to read.   *)
CanReceiveWhenEmpty(st, rcv, q) == st = "ACTIVE" /\ SduReady /\ ~rcv /\ IbqIsEmpty(q)

(***************************************************************************)
(* sdu_start_receive: with the endpoint idle (rcv is its bit), arm it with *)
(* the next empty buffer of q.                                             *)
(***************************************************************************)
CanReceive(st, rcv, q) == st = "ACTIVE" /\ SduReady /\ ~rcv /\ ~IbqIsFull(q)

(* Fault: the endpoint is armed with the buffer to read next.              *)
StartReceiveWrongBuffer(st, rcv, q) ==
  /\ receiving' = (rcv \/ CanReceive(st, rcv, q))
  /\ rxbuf' = IF CanReceive(st, rcv, q) THEN q.brdptr ELSE rxbuf

StartReceive(st, rcv, q) ==
  /\ receiving' = (rcv \/ CanReceive(st, rcv, q))
  /\ rxbuf' = IF CanReceive(st, rcv, q) THEN q.bwrptr ELSE rxbuf

(* usbStartTransmitI of the oldest full buffer of q.                       *)
StartTransmit(q) ==
  /\ transmitting' = TRUE
  /\ txbuf' = q.brdptr
  /\ txsize' = Len(q.buffers[q.brdptr])

(* obnotify: transmit the oldest full buffer of q if the endpoint is idle. *)
ObNotify(q) ==
  IF state = "ACTIVE" /\ SduReady /\ ~transmitting /\ ~ObqIsEmpty(q)
  THEN StartTransmit(q)
  ELSE UNCHANGED <<transmitting, txbuf, txsize>>

(* osalThreadDequeueNextI, osalThreadDequeueAllI on either queue.          *)
WakeReader(msg) ==
  IF pc = "waitIn" THEN pc' = "wokenIn" /\ rdymsg' = msg ELSE UNCHANGED <<pc, rdymsg>>

WakeWriter(msg) ==
  IF pc = "waitOut" THEN pc' = "wokenOut" /\ rdymsg' = msg ELSE UNCHANGED <<pc, rdymsg>>

WakeAll(msg) ==
  /\ pc' = CASE pc = "waitIn"  -> "wokenIn"
             [] pc = "waitOut" -> "wokenOut"
             [] OTHER          -> pc
  /\ rdymsg' = IF pc \in {"waitIn", "waitOut"} THEN msg ELSE rdymsg

-----------------------------------------------------------------------------
(* USB interrupt: data.                                                    *)

NextBytes(from, k) == [i \in 1..k |-> from + i]

(***************************************************************************)
(* An OUT transfer of k bytes ends in the armed buffer; sduDataReceived    *)
(* posts it, unless it is empty, and arms the next one.                    *)
(***************************************************************************)
SduDataReceived(k) ==
  /\ panic = "none"
  /\ state = "ACTIVE"
  /\ receiving
  /\ sent + k <= MaxIn
  /\ LET filled == [ibq EXCEPT !.buffers[rxbuf] = NextBytes(sent, k)]
         q      == IF k > 0 THEN IbqPostFullBuffer(filled) ELSE ibq
     IN  /\ ibq' = q
         /\ panic' = IF k > 0 /\ IbqIsFull(ibq) THEN "buffers_queue_full" ELSE panic
         /\ StartReceive(state, FALSE, q)
  /\ IF k > 0 THEN WakeReader("OK") ELSE UNCHANGED <<pc, rdymsg>>
  /\ sent' = sent + k
  /\ UNCHANGED <<boot, usbVars, transmitting, txbuf, txsize, obq, count, length,
                 delivered, written, got>>

(***************************************************************************)
(* The IN transfer ends; sduDataTransmitted frees its buffer and sends the *)
(* next one, or a zero length packet after a transfer of whole packets.    *)
(***************************************************************************)
SduDataTransmitted ==
  /\ panic = "none"
  /\ state = "ACTIVE"
  /\ transmitting
  /\ LET q == IF txsize > 0 THEN ObqReleaseEmptyBuffer(obq) ELSE obq
     IN  /\ obq' = q
         /\ panic' = IF txsize > 0 /\ ObqIsEmpty(obq) THEN "buffers_queue_empty" ELSE panic
         /\ IF ~ObqIsEmpty(q)
            THEN StartTransmit(q)
            ELSE IF txsize > 0 /\ txsize % MaxPacket = 0
            THEN /\ transmitting' = TRUE
                 /\ txsize' = 0
                 /\ UNCHANGED txbuf
            ELSE /\ transmitting' = FALSE
                 /\ UNCHANGED <<txbuf, txsize>>
  /\ got' = IF txsize > 0 THEN got \o obq.buffers[txbuf] ELSE got
  /\ IF txsize > 0 THEN WakeWriter("OK") ELSE UNCHANGED <<pc, rdymsg>>
  /\ UNCHANGED <<boot, usbVars, receiving, rxbuf, ibq, count, length, sent,
                 delivered, written>>

(* sof_handler, once a millisecond: a partly filled buffer is sent.        *)
SduSOFHook ==
  /\ panic = "none"
  /\ state = "ACTIVE"
  /\ SduReady
  /\ ~transmitting
  /\ ObqCanFlush(obq)
  /\ LET q == ObqPostFullBuffer(obq)
     IN  /\ obq' = q
         /\ panic' = IF ObqIsEmpty(q) THEN "queue_is_empty" ELSE panic
         /\ StartTransmit(q)
  /\ UNCHANGED <<boot, usbVars, receiving, rxbuf, ibq, threadVars, history>>

-----------------------------------------------------------------------------
(* USB interrupt: the bus, _usb_reset, _usb_suspend, _usb_wakeup and the   *)
(* requests of hal_usb.c, each with the event it makes usb_event handle.   *)

(* sduSuspendHookI                                                         *)
SuspendHook ==
  /\ ibq' = BqSuspend(ibq)
  /\ obq' = BqSuspend(obq)
  /\ WakeAll("RESET")

BusReset ==
  /\ panic = "none"
  /\ state # "STOP"
  /\ state' = "READY"
  /\ receiving' = FALSE
  /\ transmitting' = FALSE
  /\ epc' = FALSE
  /\ SuspendHook
  /\ UNCHANGED <<boot, saved_state, rxbuf, txbuf, txsize, count, length, panic, history>>

SetAddress ==
  /\ panic = "none"
  /\ state = "READY"
  /\ state' = "SELECTED"
  /\ UNCHANGED <<boot, saved_state, epc, epVars, ibq, obq, threadVars, panic, history>>

(***************************************************************************)
(* SET_CONFIGURATION with a nonzero number.  An active device first clears *)
(* its endpoints and suspends the queues (UNCONFIGURED); then endpoints    *)
(* and queues are set up afresh and the OUT endpoint is armed (CONFIGURED, *)
(* sduConfigureHookI), all in one handler.                                 *)
(***************************************************************************)
Configure ==
  /\ panic = "none"
  /\ state \in {"SELECTED", "ACTIVE"}
  /\ LET active == state = "ACTIVE"
         q      == BqResume(IbqReset(ibq))
     IN  /\ panic' = IF ~active /\ epc THEN "already_initialized" ELSE panic
         /\ ibq' = q
         /\ StartReceive("ACTIVE", ~active /\ receiving, q)
         /\ transmitting' = (~active /\ transmitting)
  /\ state' = "ACTIVE"
  /\ epc' = TRUE
  /\ obq' = BqResume(ObqReset(obq))
  /\ txsize' = 0
  /\ WakeAll("RESET")
  /\ sent' = 0
  /\ delivered' = << >>
  /\ written' = 0
  /\ got' = << >>
  /\ UNCHANGED <<boot, saved_state, txbuf, count, length>>

(* SET_CONFIGURATION with zero; it does nothing unless the device is active.*)
Unconfigure ==
  /\ panic = "none"
  /\ state = "ACTIVE"
  /\ state' = "SELECTED"
  /\ receiving' = FALSE
  /\ transmitting' = FALSE
  /\ epc' = FALSE
  /\ SuspendHook
  /\ UNCHANGED <<boot, saved_state, rxbuf, txbuf, txsize, count, length, panic, history>>

BusSuspend ==
  /\ panic = "none"
  /\ CanSuspend
  /\ state \in {"READY", "SELECTED", "ACTIVE"}
  /\ saved_state' = state
  /\ state' = "SUSPENDED"
  /\ SuspendHook
  /\ UNCHANGED <<boot, epc, epVars, count, length, panic, history>>

(* sduWakeupHookI resumes the queues and nothing more.                     *)
BusWakeup ==
  /\ panic = "none"
  /\ state = "SUSPENDED"
  /\ state' = saved_state
  /\ ibq' = BqResume(ibq)
  /\ obq' = BqResume(obq)
  /\ UNCHANGED <<boot, saved_state, epc, epVars, threadVars, panic, history>>

-----------------------------------------------------------------------------
(* The communication thread in chnReadTimeout (ibqReadTimeout).            *)

(* At the top of the loop: entering, after a chunk, or woken by a post.    *)
InReadLoop ==
  /\ panic = "none"
  /\ pc \in {"read", "reading"} \/ (pc = "wokenIn" /\ rdymsg = "OK")

(* Fault: no current buffer is taken for no input.                         *)
NoInputWithoutCurrent == ibq.ptr = NoPtr \/ IbqIsEmpty(ibq)

NoInput == ibq.ptr = NoPtr /\ IbqIsEmpty(ibq)

ReadChunk ==
  /\ InReadLoop
  /\ ~NoInput
  /\ LET cur  == IbqCurrent(ibq)
         data == cur.buffers[cur.brdptr]
         size == Min2(Min2(Len(data) - cur.ptr, ReadLength - count), ChunkSize)
         q    == [cur EXCEPT !.ptr = @ + size]
         used == q.ptr >= Len(data)
     IN  /\ ibq' = IF used THEN IbqReleaseEmptyBuffer(q) ELSE q
         /\ panic' = IF used /\ IbqIsEmpty(q) THEN "buffers_queue_empty" ELSE panic
         /\ IF used THEN StartReceive(state, receiving, IbqReleaseEmptyBuffer(q))
                    ELSE UNCHANGED <<receiving, rxbuf>>
         /\ count' = count + size
         /\ pc' = IF count + size >= ReadLength THEN "app" ELSE "reading"
         /\ delivered' = delivered \o SubSeq(data, cur.ptr + 1, cur.ptr + size)
  /\ UNCHANGED <<boot, usbVars, transmitting, txbuf, txsize, obq, rdymsg, length,
                 sent, written, got>>

(* Nothing to read: give up if the queue is suspended, else wait.          *)
ReadBlock ==
  /\ InReadLoop
  /\ NoInput
  /\ pc' = IF ibq.suspended THEN "app" ELSE "waitIn"
  /\ UNCHANGED <<boot, usbVars, epVars, ibq, obq, rdymsg, count, length, panic, history>>

(***************************************************************************)
(* The timer of the wait expires and makes the thread ready.  The thread   *)
(* runs later: a post in between finds nobody waiting.                     *)
(***************************************************************************)
ReadTimeout ==
  /\ panic = "none"
  /\ pc = "waitIn"
  /\ pc' = "wokenIn"
  /\ rdymsg' = "TIMEOUT"
  /\ UNCHANGED <<boot, usbVars, epVars, ibq, obq, count, length, panic, history>>

(***************************************************************************)
(* The read ends early: its deadline passed while it copied, which is      *)
(* noticed at the next buffer; its wait timed out or was reset, and the    *)
(* queue is not looked at again.                                           *)
(***************************************************************************)
ReadGivesUp ==
  /\ panic = "none"
  /\ \/ pc = "reading" /\ ibq.ptr = NoPtr
     \/ pc = "wokenIn" /\ rdymsg # "OK"
  /\ pc' = "app"
  /\ UNCHANGED <<boot, usbVars, epVars, ibq, obq, rdymsg, count, length, panic, history>>

(* Between the calls: read again, or reply to what was read.               *)
StartRead ==
  /\ panic = "none"
  /\ pc = "app"
  /\ pc' = "read"
  /\ count' = 0
  /\ UNCHANGED <<boot, usbVars, epVars, ibq, obq, rdymsg, length, panic, history>>

StartWrite(n) ==
  /\ panic = "none"
  /\ pc = "app"
  /\ count > 0
  /\ written + n <= MaxOut
  /\ pc' = "write"
  /\ count' = 0
  /\ length' = n
  /\ UNCHANGED <<boot, usbVars, epVars, ibq, obq, rdymsg, panic, history>>

-----------------------------------------------------------------------------
(* The communication thread in chnWrite (obqWriteTimeout).                 *)

InWriteLoop ==
  /\ panic = "none"
  /\ pc = "write" \/ (pc = "wokenOut" /\ rdymsg = "OK")

NoRoom == obq.ptr = NoPtr /\ ObqIsFull(obq)

WriteReturns == pc' = "read" /\ count' = 0

WriteChunk ==
  /\ InWriteLoop
  /\ ~NoRoom
  /\ LET cur  == ObqCurrent(obq)
         size == Min2(Min2(BuffersSize - cur.ptr, length - count), ChunkSize)
         q    == ObqCopy(cur, NextBytes(written, size))
         full == q.ptr >= BuffersSize
     IN  /\ obq' = IF full THEN ObqPostFullBuffer(q) ELSE q
         /\ panic' = IF full /\ ObqIsFull(q) THEN "buffers_queue_full" ELSE panic
         /\ IF full THEN ObNotify(ObqPostFullBuffer(q))
                    ELSE UNCHANGED <<transmitting, txbuf, txsize>>
         /\ IF count + size >= length
            THEN WriteReturns
            ELSE pc' = "write" /\ count' = count + size
         /\ written' = written + size
  /\ UNCHANGED <<boot, usbVars, receiving, rxbuf, ibq, rdymsg, length, sent,
                 delivered, got>>

(* No room: give up if the queue is suspended, else wait without limit.    *)
WriteBlock ==
  /\ InWriteLoop
  /\ NoRoom
  /\ IF obq.suspended THEN WriteReturns ELSE pc' = "waitOut" /\ UNCHANGED count
  /\ UNCHANGED <<boot, usbVars, epVars, ibq, obq, rdymsg, length, panic, history>>

(* The queue was reset while the thread waited.                            *)
WriteGivesUp ==
  /\ panic = "none"
  /\ pc = "wokenOut"
  /\ rdymsg = "RESET"
  /\ WriteReturns
  /\ UNCHANGED <<boot, usbVars, epVars, ibq, obq, rdymsg, length, panic, history>>

-----------------------------------------------------------------------------
Next ==
  \/ SduStart
  \/ UsbStart
  \/ ThreadCreate
  \/ \E k \in 0..BuffersSize : SduDataReceived(k)
  \/ SduDataTransmitted
  \/ SduSOFHook
  \/ BusReset
  \/ SetAddress
  \/ Configure
  \/ Unconfigure
  \/ BusSuspend
  \/ BusWakeup
  \/ ReadChunk
  \/ ReadBlock
  \/ ReadTimeout
  \/ ReadGivesUp
  \/ StartRead
  \/ \E n \in WriteLengths : StartWrite(n)
  \/ WriteChunk
  \/ WriteBlock
  \/ WriteGivesUp

(***************************************************************************)
(* main()'s and the thread's own steps, and the timer that ends a read;    *)
(* the host polls the IN endpoint and the bus has a start of frame every   *)
(* millisecond.                                                            *)
(***************************************************************************)
Fairness ==
  /\ WF_vars(SduStart)
  /\ WF_vars(UsbStart)
  /\ WF_vars(ThreadCreate)
  /\ WF_vars(ReadChunk)
  /\ WF_vars(ReadBlock)
  /\ WF_vars(ReadTimeout)
  /\ WF_vars(ReadGivesUp)
  /\ WF_vars(StartRead)
  /\ WF_vars(WriteChunk)
  /\ WF_vars(WriteBlock)
  /\ WF_vars(WriteGivesUp)
  /\ WF_vars(SduDataTransmitted)
  /\ WF_vars(SduSOFHook)

Spec == Init /\ [][Next]_vars

FairSpec == Spec /\ Fairness

-----------------------------------------------------------------------------
(* Properties.                                                             *)

(* The type invariant: every field within its C type and its ring.         *)
TypeOK ==
  /\ boot \in {"sduObjectInit", "sduStart", "usbStart", "running"}
  /\ state \in UsbStates
  /\ saved_state \in UsbStates
  /\ epc \in BOOLEAN
  /\ receiving \in BOOLEAN
  /\ rxbuf \in Slots
  /\ transmitting \in BOOLEAN
  /\ txbuf \in Slots
  /\ txsize \in Nat
  /\ ibq \in Queues(Nat)
  /\ obq \in Queues(Nat)
  /\ pc \in {"none", "read", "reading", "waitIn", "wokenIn", "app", "write",
             "waitOut", "wokenOut"}
  /\ rdymsg \in {"OK", "RESET", "TIMEOUT"}
  /\ count \in Nat
  /\ length \in Nat
  /\ panic \in {"none", "invalid_state", "already_initialized",
                "buffers_queue_full", "buffers_queue_empty", "queue_is_empty"}
  /\ sent \in Nat
  /\ delivered \in Seq(Nat)
  /\ written \in Nat
  /\ got \in Seq(Nat)

(***************************************************************************)
(* No assertion of the driver ever fails, whatever the bus does between    *)
(* two critical sections of the thread.                                    *)
(***************************************************************************)
NoPanic == panic = "none"

(***************************************************************************)
(* The hardware works on buffers the thread keeps away from: an armed OUT  *)
(* endpoint writes to the free buffer that will be posted next, a busy IN  *)
(* endpoint reads the oldest full one, which is not the one being filled.  *)
(***************************************************************************)
HardwareOwnsItsBuffer ==
  /\ receiving => rxbuf = ibq.bwrptr /\ ~IbqIsFull(ibq)
  /\ transmitting /\ txsize > 0 =>
       /\ txbuf = obq.brdptr
       /\ ~ObqIsEmpty(obq)
       /\ txsize = Len(obq.buffers[txbuf])
       /\ obq.ptr # NoPtr => txbuf # obq.bwrptr

(***************************************************************************)
(* While the device is active and the input queue has room the host can    *)
(* send: the OUT endpoint is armed.                                        *)
(***************************************************************************)
ReceivesWhenRoom == state = "ACTIVE" /\ ~IbqIsFull(ibq) => receiving

(***************************************************************************)
(* The abstract channel: what is in it, seen from outside, are the bytes   *)
(* the host has sent and the thread not read, and the other way round.     *)
(***************************************************************************)
Channel == INSTANCE ByteChannel WITH
  Capacity <- BuffersNumber * BuffersSize,
  input <- Unread(ibq),
  output <- Unsent(obq)

(***************************************************************************)
(* The driver implements the byte channel: every critical section, every   *)
(* flush and every bus event is one operation on the two byte queues or    *)
(* none; nothing but a configuration empties them.                         *)
(***************************************************************************)
ImplementsChannel == Channel!Spec

(* The inductive invariant that the proofs of the safety properties use.   *)

(* The endpoints are set up exactly while a configuration is selected.     *)
Configured == state = "ACTIVE" \/ (state = "SUSPENDED" /\ saved_state = "ACTIVE")

BusConsistent ==
  /\ state = "STOP" <=> boot \in {"sduObjectInit", "sduStart"}
  /\ state = "SUSPENDED" => saved_state \in {"READY", "SELECTED", "ACTIVE"}
  /\ epc <=> Configured
  /\ receiving \/ transmitting => Configured

(* The call the thread is in, or will make first, has bytes left to move.   *)
CallConsistent ==
  /\ boot # "running" => pc = "none"
  /\ pc \in {"none", "read", "reading", "waitIn", "wokenIn"} => count < ReadLength
  /\ pc \in {"write", "waitOut", "wokenOut"} => count < length

(***************************************************************************)
(* The driver's bookkeeping is consistent at every point where the USB     *)
(* interrupt or the thread can run: indices, counters, endpoint bits and   *)
(* the thread's progress agree.                                            *)
(***************************************************************************)
DriverConsistent ==
  /\ IbqConsistent(ibq)
  /\ ObqConsistent(obq)
  /\ BusConsistent
  /\ CallConsistent
  /\ HardwareOwnsItsBuffer
  /\ NoPanic

(***************************************************************************)
(* A read that returns less than it was asked for ends with the last byte  *)
(* of a transfer, never within one.  It leaves a posted transfer and comes *)
(* back empty-handed only from a wait that was over, by its timer or by a  *)
(* reset, before the transfer was posted.                                  *)
(***************************************************************************)
ReadsWholeTransfers ==
  [][pc # "app" /\ pc' = "app" /\ count' < ReadLength =>
       /\ ibq'.ptr = NoPtr
       /\ count' > 0 \/ IbqIsEmpty(ibq') \/ (pc = "wokenIn" /\ rdymsg # "OK")]_vars

(* What the host has sent is read in the end.                              *)
InputDrains == ~IbqIsEmpty(ibq) ~> IbqIsEmpty(ibq)

(***************************************************************************)
(* While the device stays active, what was written is sent in the end, a   *)
(* partly filled last buffer included.                                     *)
(***************************************************************************)
OutputDrains ==
  <>[](state = "ACTIVE") => []<>(ObqIsEmpty(obq) /\ obq.ptr = NoPtr)
=============================================================================
