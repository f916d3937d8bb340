-------------------------- MODULE CanThreadsProofs --------------------------
(***************************************************************************)
(* Safety of the CAN threads for every depth of the receive FIFO and every *)
(* number of transmit mailboxes: no wakeup of can_rx is lost once it       *)
(* listens, and can_tx never waits for a mailbox that is free.             *)
(***************************************************************************)
EXTENDS CanThreads, TLAPS

(***************************************************************************)
(* A frame that is still in the FIFO found the receiver listening, unless  *)
(* one came too early.  Without this the interrupt handler could mask the  *)
(* interrupt and have nobody to tell.                                      *)
(***************************************************************************)
ListenedBeforeFrames == fifo > 0 /\ ~early => listener

(***************************************************************************)
(* can_rx sleeps nowhere but in its wait, so that a timeout, which sends   *)
(* it back to the wait, never interrupts the draining.                     *)
(***************************************************************************)
SleepsOnlyInWait == tstate # "CURRENT" => rx = "wait"

(* The type invariant in two halves: the flags, and everything else.       *)
Bits == {fovr, fmpie, listener, epending, rqcp, early} \subseteq BOOLEAN

Ranges ==
  /\ canState \in {"STOP", "STARTING", "READY"}
  /\ fifo \in 0..FifoDepth
  /\ rx \in {"none", "register", "wait", "drain"}
  /\ elflags \in SUBSET Flags
  /\ tstate \in {"CURRENT", "WTOREVT", "READY"}
  /\ rdymsg \in {"OK", "TIMEOUT"}
  /\ tx \in {"none", "transmit", "waiting", "woken", "sleep"}
  /\ txmsg \in {"OK", "TIMEOUT"}
  /\ requests \in 0..TxMailboxes

(* The inductive invariant.                                                *)
KInv ==
  /\ Ranges
  /\ UnmaskedWhenEmpty
  /\ TransmitterWaitsForRoom
  /\ ReceiverWillDrain
  /\ ListenedBeforeFrames
  /\ SleepsOnlyInWait

IInv == Bits /\ KInv

(* The halves make the type invariant.                                     *)
LEMMA TypeHalves == TypeOK <=> Bits /\ Ranges
BY Zenon DEF TypeOK, EvtTypeOK, Bits, Ranges

(* Every flag is assigned a flag.                                          *)
LEMMA BitsStep == Bits /\ [Next]_vars => Bits'
<1> SUFFICES ASSUME Bits, [Next]_vars PROVE Bits'
  OBVIOUS
<1> USE DEF Bits, evtVars, rxVars, txVars
<1>1. CASE CanStart \/ CanStarted \/ CreateReceiver \/ CreateTransmitter
  BY <1>1, Zenon DEF CanStart, CanStarted, CreateReceiver, CreateTransmitter
<1>2. CASE FrameArrives
  BY <1>2, Zenon DEF FrameArrives
<1>3. CASE Rx0Handler
  BY <1>3, Zenon DEF Rx0Handler, ChEvtBroadcastFlagsI
<1>4. CASE FrameSent \/ TxHandler
  BY <1>4, Zenon DEF FrameSent, TxHandler
<1>5. CASE RxRegister \/ RxWait
  BY <1>5, Zenon DEF RxRegister, ChEvtRegister, RxWait, EvtTaken, EvtSleep
<1>6. CASE RxTimeout \/ RxReturns
  BY <1>6, Zenon DEF RxTimeout, EvtTimeout, RxReturns, EvtReturns
<1>7. CASE CanReceive \/ CanReceiveFails
  BY <1>7, Zenon DEF CanReceive, CanReceiveFails
<1>8. CASE CanTransmit \/ CanTransmitWaits \/ TxTimeout
  BY <1>8, Zenon DEF CanTransmit, CanTransmitWaits, TxTimeout
<1>9. CASE CanTransmitFails \/ TxSleepOver
  BY <1>9, Zenon DEF CanTransmitFails, TxSleepOver
<1>10. CASE UNCHANGED vars
  BY <1>10, Zenon DEF vars
<1> QED
  BY <1>1, <1>2, <1>3, <1>4, <1>5, <1>6, <1>7, <1>8, <1>9, <1>10, Zenon DEF Next

-----------------------------------------------------------------------------
(* Before canStart there is nothing in the FIFO and nobody waits.          *)
LEMMA InitEstablishes == Init => IInv
<1>1. Init => Bits
  BY Zenon DEF Init, EvtInit, Bits
<1>2. Init => KInv
  BY CanAssumption
  DEF Init, EvtInit, KInv, Ranges, UnmaskedWhenEmpty, TransmitterWaitsForRoom,
      ReceiverWillDrain, ListenedBeforeFrames, SleepsOnlyInWait
<1> QED
  BY <1>1, <1>2 DEF IInv

(***************************************************************************)
(* The steps.  A frame that finds the FIFO empty finds the interrupt on;   *)
(* the handler masks it only when it leaves the event; the receiver gives  *)
(* the event up only to drain, and drains until the interrupt is on again. *)
(* A mailbox that becomes free while can_tx waits leaves its interrupt     *)
(* pending until the handler has released the thread.                      *)
(***************************************************************************)
LEMMA KInvStep == IInv /\ [Next]_vars => KInv'
<1> SUFFICES ASSUME IInv, [Next]_vars PROVE KInv'
  OBVIOUS
<1> USE CanAssumption
    DEF IInv, KInv, Ranges, UnmaskedWhenEmpty, TransmitterWaitsForRoom,
        ReceiverWillDrain, ListenedBeforeFrames, SleepsOnlyInWait, evtVars, rxVars, txVars
<1>1. CASE CanStart \/ CanStarted \/ CreateReceiver \/ CreateTransmitter
  <2>1. CASE CanStart
    BY <2>1 DEF CanStart
  <2>2. CASE CanStarted
    BY <2>2 DEF CanStarted
  <2>3. CASE CreateReceiver
    BY <2>3 DEF CreateReceiver
  <2>4. CASE CreateTransmitter
    BY <2>4 DEF CreateTransmitter
  <2> QED
    BY <1>1, <2>1, <2>2, <2>3, <2>4, Zenon
<1>2. CASE FrameArrives
  <2>1. early' <=> early \/ ~listener
    BY <1>2, Zenon DEF FrameArrives
  <2>2. /\ canState = "READY"
        /\ IF fifo < FifoDepth THEN fifo' = fifo + 1 ELSE fifo' = fifo
        /\ UNCHANGED <<canState, fmpie, rx, evtVars, txVars>>
    BY <1>2 DEF FrameArrives
  <2> QED
    BY <2>1, <2>2
<1>3. CASE Rx0Handler
  BY <1>3 DEF Rx0Handler, ChEvtBroadcastFlagsI
<1>4. CASE FrameSent
  BY <1>4 DEF FrameSent
<1>5. CASE TxHandler
  BY <1>5 DEF TxHandler
<1>6. CASE RxRegister
  BY <1>6 DEF RxRegister, ChEvtRegister
<1>7. CASE RxWait
  BY <1>7 DEF RxWait, EvtTaken, EvtSleep
<1>8. CASE RxTimeout
  BY <1>8 DEF RxTimeout, EvtTimeout
<1>9. CASE RxReturns
  <2>1. epending' <=> rdymsg = "TIMEOUT" /\ epending
    BY <1>9, Zenon DEF RxReturns, EvtReturns
  <2>2. /\ tstate = "READY" /\ tstate' = "CURRENT"
        /\ rx' = IF rdymsg = "TIMEOUT" THEN "wait" ELSE "drain"
        /\ UNCHANGED <<listener, elflags, rdymsg>>
        /\ UNCHANGED <<canState, early, fifo, fovr, fmpie, txVars>>
    BY <1>9 DEF RxReturns, EvtReturns
  <2> QED
    BY <2>1, <2>2
<1>10. CASE CanReceive
  <2>1. fmpie' <=> fmpie \/ fifo = 1
    BY <1>10, Zenon DEF CanReceive
  <2>2. /\ rx = "drain" /\ fifo > 0 /\ fifo' = fifo - 1
        /\ UNCHANGED <<canState, early, fovr, rx, evtVars, txVars>>
    BY <1>10 DEF CanReceive
  <2> QED
    BY <2>1, <2>2
<1>11. CASE CanReceiveFails
  BY <1>11 DEF CanReceiveFails
<1>12. CASE CanTransmit
  BY <1>12 DEF CanTransmit
<1>13. CASE CanTransmitWaits
  BY <1>13 DEF CanTransmitWaits
<1>14. CASE TxTimeout \/ CanTransmitFails \/ TxSleepOver
  BY <1>14 DEF TxTimeout, CanTransmitFails, TxSleepOver
<1>15. CASE UNCHANGED vars
  BY <1>15 DEF vars
<1> QED
  BY <1>1, <1>2, <1>3, <1>4, <1>5, <1>6, <1>7, <1>8, <1>9, <1>10, <1>11, <1>12,
     <1>13, <1>14, <1>15, Zenon
  DEF Next

(* The invariant is inductive.                                             *)
THEOREM Inductive == Spec => []IInv
<1>1. IInv /\ [Next]_vars => IInv'
  BY BitsStep, KInvStep DEF IInv
<1> QED
  BY <1>1, InitEstablishes, PTL DEF Spec

(***************************************************************************)
(* No wakeup of a receiver that listened in time is lost: with frames in   *)
(* the FIFO the interrupt is on, the event is pending or can_rx drains,    *)
(* wherever the interrupts and the timeout fall.                           *)
(***************************************************************************)
THEOREM NoWakeupIsLost == Spec => []ReceiverWillDrain
<1>1. IInv => ReceiverWillDrain
  BY DEF IInv, KInv
<1> QED
  BY <1>1, Inductive, PTL

(***************************************************************************)
(* The receive interrupt is on whenever the FIFO is empty, can_tx waits    *)
(* only for mailboxes that are taken or for an interrupt that is pending,  *)
(* and no mailbox or FIFO entry is counted that does not exist.            *)
(***************************************************************************)
THEOREM CanIsConsistent == Spec => []CanConsistent
<1>1. IInv => CanConsistent
  BY TypeHalves DEF IInv, KInv, CanConsistent
<1> QED
  BY <1>1, Inductive, PTL
=============================================================================
