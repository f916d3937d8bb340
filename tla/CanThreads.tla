----------------------------- MODULE CanThreads -----------------------------
(***************************************************************************)
(* The CAN part of main.c: canStart, the receiver can_rx and the           *)
(* transmitter can_tx, over hal_can.c and the bxCAN driver.                *)
(*                                                                         *)
(* The default filter puts every frame into receive FIFO 0 (FFA1R = 0), so *)
(* FIFO 1 stays empty.  The FIFO is not locked (no RFLM in cancfg): a      *)
(* frame that finds it full takes the place of the newest one and sets     *)
(* FOVR0.  Error and status interrupts only broadcast to sources nobody    *)
(* listens to, and nothing puts the driver to sleep: they change nothing   *)
(* here.                                                                   *)
(***************************************************************************)
EXTENDS Integers, ChEvents

CONSTANTS
  FifoDepth,                 \* mailboxes of receive FIFO 0 (3)
  TxMailboxes                \* CAN_TX_MAILBOXES (3)

ASSUME CanAssumption ==
  /\ FifoDepth \in Nat \ {0}
  /\ TxMailboxes \in Nat \ {0}
  /\ Flags # {}

VARIABLES
  canState,                  \* CAND1.state
  fifo,                      \* frames in FIFO 0, FMP0
  fovr,                      \* FOVR0
  fmpie,                     \* FMPIE0: is the message pending interrupt on?
  rx,                        \* where can_rx is
  tx,                        \* where can_tx is
  txmsg,                     \* what can_tx was woken with
  requests,                  \* transmit mailboxes with a request pending
  rqcp,                      \* a request was completed, not yet served
  early                      \* a frame came before can_rx listened (history)

rxVars == <<fifo, fovr, fmpie, rx, evtVars>>
txVars == <<tx, txmsg, requests, rqcp>>
vars == <<canState, rxVars, txVars, early>>

Init ==
  /\ canState = "STOP"
  /\ fifo = 0
  /\ fovr = FALSE
  /\ fmpie = FALSE
  /\ rx = "none"
  /\ EvtInit
  /\ tx = "none"
  /\ txmsg = "OK"
  /\ requests = 0
  /\ rqcp = FALSE
  /\ early = FALSE

-----------------------------------------------------------------------------
(* main(): canStart, then the two threads; both preempt main at once.      *)

(* canStart sleeps in can_lld_start until the controller answers.          *)
CanStart ==
  /\ canState = "STOP"
  /\ canState' = "STARTING"
  /\ UNCHANGED <<rxVars, txVars, early>>

CanStarted ==
  /\ canState = "STARTING"
  /\ canState' = "READY"
  /\ fmpie' = TRUE
  /\ UNCHANGED <<early, fifo, fovr, rx, evtVars, txVars>>

CreateReceiver ==
  /\ canState = "READY"
  /\ rx = "none"
  /\ rx' = "register"
  /\ UNCHANGED <<canState, early, fifo, fovr, fmpie, evtVars, txVars>>

(* main runs again, and gets here, once can_rx sleeps.                     *)
CreateTransmitter ==
  /\ tx = "none"
  /\ tstate = "WTOREVT"
  /\ tx' = "transmit"
  /\ UNCHANGED <<canState, early, rxVars, txmsg, requests, rqcp>>

-----------------------------------------------------------------------------
(* The controller and its interrupts.                                      *)

FrameArrives ==
  /\ canState = "READY"
  /\ IF fifo < FifoDepth
     THEN fifo' = fifo + 1 /\ UNCHANGED fovr
     ELSE fovr' = TRUE /\ UNCHANGED fifo
  /\ early' = (early \/ ~listener)
  /\ UNCHANGED <<canState, fmpie, rx, evtVars, txVars>>

(* Fault: an overrun is only counted.                                      *)
Rx0HandlerOverrunOnly ==
  /\ (fmpie /\ fifo > 0) \/ fovr
  /\ IF fmpie /\ fifo > 0
     THEN fmpie' = FALSE /\ ChEvtBroadcastFlagsI(Flags)
     ELSE UNCHANGED <<fmpie, evtVars>>
  /\ fovr' = FALSE
  /\ UNCHANGED <<canState, early, fifo, rx, txVars>>

(***************************************************************************)
(* can_lld_rx0_handler: no more message interrupts until the FIFO is       *)
(* emptied.  It also runs for an overrun (FOVIE0), which signals again.    *)
(***************************************************************************)
Rx0Handler ==
  /\ (fmpie /\ fifo > 0) \/ fovr
  /\ IF fifo > 0
     THEN fmpie' = FALSE /\ ChEvtBroadcastFlagsI(Flags)
     ELSE UNCHANGED <<fmpie, evtVars>>
  /\ fovr' = FALSE
  /\ UNCHANGED <<canState, early, fifo, rx, txVars>>

(* The bus takes a frame.                                                  *)
FrameSent ==
  /\ requests > 0
  /\ requests' = requests - 1
  /\ rqcp' = TRUE
  /\ UNCHANGED <<canState, early, rxVars, tx, txmsg>>

(* can_lld_tx_handler releases whoever waits for a mailbox.                *)
TxHandler ==
  /\ rqcp
  /\ rqcp' = FALSE
  /\ IF tx = "waiting"
     THEN tx' = "woken" /\ txmsg' = "OK"
     ELSE UNCHANGED <<tx, txmsg>>
  /\ UNCHANGED <<canState, early, rxVars, requests>>

-----------------------------------------------------------------------------
(* can_rx                                                                  *)

RxRegister ==
  /\ rx = "register"
  /\ ChEvtRegister
  /\ rx' = "wait"
  /\ UNCHANGED <<canState, early, fifo, fovr, fmpie, txVars>>

(* chEvtWaitAnyTimeout finds the event, sleeps, or returns.                *)
RxWait ==
  /\ rx = "wait"
  /\ \/ EvtTaken /\ rx' = "drain"
     \/ EvtSleep /\ UNCHANGED rx
  /\ UNCHANGED <<canState, early, fifo, fovr, fmpie, txVars>>

(* The 100 ms are over.                                                    *)
RxTimeout ==
  /\ EvtTimeout
  /\ UNCHANGED <<canState, early, fifo, fovr, fmpie, rx, txVars>>

(* Zero events: continue.                                                  *)
RxReturns ==
  /\ EvtReturns
  /\ rx' = IF rdymsg = "TIMEOUT" THEN "wait" ELSE "drain"
  /\ UNCHANGED <<canState, early, fifo, fovr, fmpie, txVars>>

(* Fault: interrupts stay off after the queue has been emptied.            *)
CanReceiveStaysMasked ==
  /\ rx = "drain"
  /\ fifo > 0
  /\ fifo' = fifo - 1
  /\ UNCHANGED <<canState, early, fovr, fmpie, rx, evtVars, txVars>>

(* canReceive, TIME_IMMEDIATE; an emptied FIFO gets its interrupt back.    *)
CanReceive ==
  /\ rx = "drain"
  /\ fifo > 0
  /\ fifo' = fifo - 1
  /\ fmpie' = (fmpie \/ fifo = 1)
  /\ UNCHANGED <<canState, early, fovr, rx, evtVars, txVars>>

(* ... and without a frame ends the loop.                                  *)
CanReceiveFails ==
  /\ rx = "drain"
  /\ fifo = 0
  /\ rx' = "wait"
  /\ UNCHANGED <<canState, early, fifo, fovr, fmpie, evtVars, txVars>>

-----------------------------------------------------------------------------
(* can_tx                                                                  *)

(* canTransmit finds an empty mailbox ...                                  *)
CanTransmit ==
  /\ tx = "transmit" \/ (tx = "woken" /\ txmsg = "OK")
  /\ requests < TxMailboxes
  /\ requests' = requests + 1
  /\ tx' = "sleep"
  /\ UNCHANGED <<canState, early, rxVars, txmsg, rqcp>>

(* ... or waits for one, for 100 ms.                                       *)
CanTransmitWaits ==
  /\ tx = "transmit" \/ (tx = "woken" /\ txmsg = "OK")
  /\ requests = TxMailboxes
  /\ tx' = "waiting"
  /\ UNCHANGED <<canState, early, rxVars, txmsg, requests, rqcp>>

TxTimeout ==
  /\ tx = "waiting"
  /\ tx' = "woken"
  /\ txmsg' = "TIMEOUT"
  /\ UNCHANGED <<canState, early, rxVars, requests, rqcp>>

(* Fault: the transmitter tries again at once.                             *)
CanTransmitFailsRetries ==
  /\ tx = "woken"
  /\ txmsg = "TIMEOUT"
  /\ tx' = "transmit"
  /\ UNCHANGED <<canState, early, rxVars, txmsg, requests, rqcp>>

CanTransmitFails ==
  /\ tx = "woken"
  /\ txmsg = "TIMEOUT"
  /\ tx' = "sleep"
  /\ UNCHANGED <<canState, early, rxVars, txmsg, requests, rqcp>>

(* The 50 ms are over.                                                     *)
TxSleepOver ==
  /\ tx = "sleep"
  /\ tx' = "transmit"
  /\ UNCHANGED <<canState, early, rxVars, txmsg, requests, rqcp>>

-----------------------------------------------------------------------------
RxThread == RxRegister \/ RxWait \/ RxReturns \/ CanReceive \/ CanReceiveFails

TxThread == CanTransmit \/ CanTransmitWaits \/ CanTransmitFails

Next ==
  \/ CanStart
  \/ CanStarted
  \/ CreateReceiver
  \/ CreateTransmitter
  \/ FrameArrives
  \/ Rx0Handler
  \/ FrameSent
  \/ TxHandler
  \/ RxRegister
  \/ RxWait
  \/ RxTimeout
  \/ RxReturns
  \/ CanReceive
  \/ CanReceiveFails
  \/ CanTransmit
  \/ CanTransmitWaits
  \/ TxTimeout
  \/ CanTransmitFails
  \/ TxSleepOver

(***************************************************************************)
(* main's steps, the threads' own steps (HIGHPRIO: nothing keeps them from *)
(* the processor), their timers and the interrupts.  Nothing is assumed of *)
(* the bus: a frame may never come, a request may never be acknowledged.   *)
(***************************************************************************)
Fairness ==
  /\ WF_vars(CanStart)
  /\ WF_vars(CanStarted)
  /\ WF_vars(CreateReceiver)
  /\ WF_vars(CreateTransmitter)
  /\ WF_vars(Rx0Handler)
  /\ WF_vars(TxHandler)
  /\ WF_vars(RxThread)
  /\ WF_vars(RxTimeout)
  /\ WF_vars(TxThread)
  /\ WF_vars(TxTimeout)
  /\ WF_vars(TxSleepOver)

Spec == Init /\ [][Next]_vars

FairSpec == Spec /\ Fairness

-----------------------------------------------------------------------------
(* Properties.                                                             *)

(* The type invariant, with the hardware's limits.                         *)
TypeOK ==
  /\ canState \in {"STOP", "STARTING", "READY"}
  /\ fifo \in 0..FifoDepth
  /\ fovr \in BOOLEAN
  /\ fmpie \in BOOLEAN
  /\ rx \in {"none", "register", "wait", "drain"}
  /\ EvtTypeOK
  /\ tx \in {"none", "transmit", "waiting", "woken", "sleep"}
  /\ txmsg \in {"OK", "TIMEOUT"}
  /\ requests \in 0..TxMailboxes
  /\ rqcp \in BOOLEAN
  /\ early \in BOOLEAN

(***************************************************************************)
(* No wakeup of the receiver is lost: with frames in the FIFO either the   *)
(* interrupt is on, or the event is pending, or can_rx is about to drain.  *)
(* It is stated for a receiver that listened before the first frame; one   *)
(* that did not may stay deaf.                                             *)
(***************************************************************************)
ReceiverWillDrain ==
  ~early /\ fifo > 0 => fmpie \/ epending \/ rx = "drain"

(***************************************************************************)
(* The interrupt is on again whenever the FIFO is empty: can_lld_receive   *)
(* releases the last frame and unmasks in one critical section.            *)
(***************************************************************************)
UnmaskedWhenEmpty == canState = "READY" /\ fifo = 0 => fmpie

(***************************************************************************)
(* can_tx waits for a mailbox only while all are taken or the interrupt    *)
(* that releases it is pending.                                            *)
(***************************************************************************)
TransmitterWaitsForRoom == tx = "waiting" => requests = TxMailboxes \/ rqcp

(* The bookkeeping of both directions agrees with the hardware.            *)
CanConsistent == TypeOK /\ UnmaskedWhenEmpty /\ TransmitterWaitsForRoom

(***************************************************************************)
(* Frames in the FIFO are attended to in the end: hal_can_lld.h makes the  *)
(* application responsible for emptying the queue.                         *)
(***************************************************************************)
FramesAttended == fifo > 0 ~> rx = "drain"

(* They are, by a receiver that listened before the first frame.           *)
ListenedFramesAttended == ~early /\ fifo > 0 ~> rx = "drain"

(* A receiver that missed the full event is brought back by an overrun.    *)
OverrunRevives == fovr /\ listener /\ fifo > 0 ~> rx = "drain"

(* can_tx ends every attempt, whether or not anyone acknowledges.          *)
TransmitterGoesOn == tx # "none" ~> tx = "sleep"
=============================================================================
