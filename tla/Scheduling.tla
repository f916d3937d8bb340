----------------------------- MODULE Scheduling -----------------------------
(***************************************************************************)
(* The firmware's threads on the scheduler.  Of what a thread does     *)
(* only its sleeps remain: in which kernel state, and with a timer or not. *)
(*                                                                         *)
(* The communication thread is the one whose sleeps depend on the bus: on  *)
(* a suspended queue chnReadTimeout returns at once.                       *)
(***************************************************************************)
EXTENDS ChScheduler

CONSTANTS
  BootOrders,                \* what main() may create, in its order
  MaxRequests                \* bound: requests that come without a pause

ASSUME BootAssumption ==
  /\ Threads = {"can_rx", "can_tx", "comm", "blinker", "adc"} \union {Main, Idle}
  /\ {"can_rx", "can_tx", "comm", "blinker", "adc"} \intersect {Main, Idle} = {}
  /\ \A o \in BootOrders : /\ o \in Seq(Threads \ {Main, Idle})
                           /\ IsInjective(o)
                           /\ "comm" \in ToSet(o)
  /\ MaxRequests \in Nat

VARIABLES
  order,                     \* the threads main() creates
  connected,                 \* are the channel's queues not suspended?
  boot,                      \* threads main() has created
  comm,                      \* where the communication thread is
  requests,                  \* requests the host may still send
  preempted                  \* history: threads an interrupt put off the CPU

appVars == <<order, connected, boot, comm, requests, preempted>>

vars == <<schVars, appVars>>

TypeOK ==
  /\ SchTypeOK
  /\ connected \in BOOLEAN
  /\ order \in BootOrders
  /\ boot \in 0..Len(order)
  /\ comm \in {"read", "request", "nothing"}
  /\ requests \in 0..MaxRequests
  /\ preempted \in SUBSET Threads

Init ==
  /\ SchInit
  /\ order \in BootOrders
  /\ connected = FALSE
  /\ boot = 0
  /\ comm = "read"
  /\ requests = MaxRequests
  /\ preempted = {}

(* The thread t sleeps, and the head of the ready list is dispatched.      *)
Sleep(t, newstate, timed) ==
  /\ current = t
  /\ ChSchGoSleepTimeoutS(newstate, timed)
  /\ preempted' = preempted \ {current'}

-----------------------------------------------------------------------------
(* The threads.                                                            *)

MainCreates ==
  /\ current = Main
  /\ boot < Len(order)
  /\ ChThdCreateStatic(order[boot + 1])
  /\ boot' = boot + 1
  /\ UNCHANGED <<order, connected, comm, requests, preempted>>

MainSleeps ==
  /\ boot = Len(order)
  /\ Sleep(Main, "SLEEPING", TRUE)
  /\ UNCHANGED <<order, connected, boot, comm, requests>>

(* chEvtWaitAnyTimeout, after the mailboxes are drained.                   *)
CanRx ==
  /\ Sleep("can_rx", "WTOREVT", TRUE)
  /\ UNCHANGED <<order, connected, boot, comm, requests>>

(* canTransmit for a mailbox, and the pause between two frames.            *)
CanTx ==
  /\ \E s \in {"QUEUED", "SLEEPING"} : Sleep("can_tx", s, TRUE)
  /\ UNCHANGED <<order, connected, boot, comm, requests>>

(* chEvtWaitAny, and the two pauses of a blink.                            *)
BlinkerSleeps ==
  /\ \/ Sleep("blinker", "WTOREVT", FALSE)
     \/ Sleep("blinker", "SLEEPING", TRUE)
  /\ UNCHANGED <<order, connected, boot, comm, requests>>

(* adcConvert                                                              *)
AdcSampleThread ==
  /\ Sleep("adc", "SUSPENDED", FALSE)
  /\ UNCHANGED <<order, connected, boot, comm, requests>>

(* A request is in the queue: chnReadTimeout returns it without a sleep.   *)
CommReadsRequest ==
  /\ current = "comm" /\ ~isr /\ ~panic
  /\ comm = "read"
  /\ requests > 0
  /\ comm' = "request"
  /\ requests' = requests - 1
  /\ UNCHANGED <<schVars, order, connected, boot, preempted>>

(* Fault: a read with TIME_IMMEDIATE.                                      *)
CommReadsNothingAtOnce ==
  /\ comm = "read"
  /\ comm' = "nothing"
  /\ current = "comm" /\ ~isr /\ ~panic
  /\ UNCHANGED <<schVars, order, preempted, connected, boot, requests>>

(* The queue is empty: 10 ticks of waiting, or at once when suspended.     *)
CommReadsNothing ==
  /\ comm = "read"
  /\ comm' = "nothing"
  /\ IF connected
     THEN Sleep("comm", "QUEUED", TRUE)
     ELSE /\ current = "comm" /\ ~isr /\ ~panic
          /\ UNCHANGED <<schVars, preempted>>
  /\ UNCHANGED <<order, connected, boot, requests>>

(* chnWrite of the reply: it fits, is dropped, or waits without limit.     *)
CommReplies ==
  /\ comm = "request"
  /\ comm' = "read"
  /\ \/ connected /\ Sleep("comm", "QUEUED", FALSE)
     \/ /\ current = "comm" /\ ~isr /\ ~panic
        /\ UNCHANGED <<schVars, preempted>>
  /\ UNCHANGED <<order, connected, boot, requests>>

CommLoops ==
  /\ current = "comm" /\ ~isr /\ ~panic
  /\ comm = "nothing"
  /\ comm' = "read"
  /\ UNCHANGED <<schVars, order, connected, boot, requests, preempted>>

-----------------------------------------------------------------------------
(* Interrupts.                                                             *)

Waiting(t) == tstate[t] \in {"SUSPENDED", "QUEUED", "WTOREVT"}

(* The event that t waits for: a frame, a mailbox, data, a conversion.     *)
EventFor(t) ==
  /\ Waiting(t)
  /\ ChSchReadyI({t}, Behind(ready, t), [u \in Threads |-> "OK"])
  /\ UNCHANGED appVars

(* chSchReadyI of a thread, if it waits.                                   *)
BehindIfWaiting(q, t) == IF Waiting(t) THEN Behind(q, t) ELSE q

(***************************************************************************)
(* sduSuspendHookI, sduWakeupHookI, sduConfigureHookI: flags for the       *)
(* blinker, and a thread in a queue that is suspended or reset leaves it.  *)
(***************************************************************************)
BusConnects(c) ==
  /\ connected # c
  /\ connected' = c
  /\ ChSchReadyI({t \in {"blinker", "comm"} : Waiting(t)},
                 BehindIfWaiting(BehindIfWaiting(ready, "blinker"), "comm"),
                 [t \in Threads |-> IF t = "comm" THEN "RESET" ELSE "OK"])
  /\ UNCHANGED <<order, boot, comm, requests, preempted>>

TimerExpires(t) ==
  /\ ChVTDoTickI(t)
  /\ UNCHANGED appVars

TimerCallback(t) ==
  /\ Wakeup(t)
  /\ UNCHANGED appVars

InterruptsEnd ==
  /\ PortIrqEpilogue
  /\ preempted' = IF current' # current
                  THEN (preempted \union {current}) \ {current'}
                  ELSE preempted
  /\ UNCHANGED <<order, connected, boot, comm, requests>>

-----------------------------------------------------------------------------
Thread(t) ==
  CASE t = Main -> MainCreates \/ MainSleeps
    [] t = "can_rx" -> CanRx
    [] t = "can_tx" -> CanTx
    [] t = "blinker" -> BlinkerSleeps
    [] t = "adc" -> AdcSampleThread
    [] t = "comm" -> \/ CommReadsRequest \/ CommReadsNothing
                     \/ CommReplies \/ CommLoops

Next ==
  \/ \E t \in Threads \ {Idle} :
       Thread(t) \/ EventFor(t) \/ TimerExpires(t) \/ TimerCallback(t)
  \/ \E c \in BOOLEAN : BusConnects(c)
  \/ InterruptsEnd

Spec == Init /\ [][Next]_vars

(***************************************************************************)
(* Interrupt handlers return and timers expire.  A thread that has the CPU *)
(* again and again gets through its next step: the sleeps that others take *)
(* between two of their own last at least one tick.  A conversion ends     *)
(* (AdcSampling).  The bus, the CAN frames and the host owe nothing.       *)
(***************************************************************************)
Fairness ==
  /\ WF_vars(InterruptsEnd \/ \E t \in Threads : TimerCallback(t))
  /\ WF_vars(EventFor("adc"))
  /\ \A t \in Threads \ {Idle} : SF_vars(Thread(t)) /\ WF_vars(TimerExpires(t))

FairSpec == Spec /\ Fairness

-----------------------------------------------------------------------------
(* Properties.                                                             *)

(* No assertion of the kernel fails: a thread is never made ready twice,   *)
(* also when its timer and its event come together, and a thread never     *)
(* leaves a critical section while a more urgent one is ready.             *)
NoPanic == ~panic

(***************************************************************************)
(* Of all the paths on which interrupts, timers and thread creation move   *)
(* threads, none loses or doubles one: the ready list holds each ready     *)
(* thread once, in the order of priorities, and one thread has the CPU.    *)
(***************************************************************************)
ReadyListConsistent ==
  /\ IsInjective(ready)
  /\ ToSet(ready) = {t \in Threads : tstate[t] = "READY"}
  /\ {t \in Threads : tstate[t] = "CURRENT"} = {current}
  /\ \A i, j \in DOMAIN ready : i < j => Prio[ready[i]] >= Prio[ready[j]]

(* A timer only runs for a thread that still is in, or was just woken      *)
(* from, the sleep it was set for.                                         *)
TimersOfSleepers == \A t \in armed \union firing : tstate[t] \in WaitStates \union {"READY"}

(* Ready list, thread states and timers agree.                             *)
KernelConsistent == TypeOK /\ ReadyListConsistent /\ TimersOfSleepers

(* A timer that expires on a thread already woken by its event does not    *)
(* turn the event into a timeout.                                          *)
MessageStands ==
  [][\A t \in Threads : tstate[t] = "READY" /\ tstate'[t] = "READY"
                          => rdymsg'[t] = rdymsg[t]]_vars

(* A thread that takes the CPU was itself put off it, or is no peer of one *)
(* that was.                                                               *)
PeersWait ==
  \A t \in preempted :
    current' # current => current' = t \/ Prio[current'] # Prio[t]

(***************************************************************************)
(* A thread that an interrupt put off the CPU gets it back before any      *)
(* thread of its priority runs: two threads of one priority switch only    *)
(* where one of them sleeps.  AdcSampling rests on it.                     *)
(***************************************************************************)
NoPeerInBetween == [][PeersWait]_vars

(* The CAN threads are dispatched whatever the communication thread does,  *)
(* also while it loops without a sleep on a suspended channel.             *)
UrgentDispatched ==
  \A t \in {"can_rx", "can_tx"} :
    tstate[t] = "READY" ~> tstate[t] = "CURRENT"

(***************************************************************************)
(* While the channel stays connected, and the CAN threads leave the CPU    *)
(* again and again, every other thread that is ready gets it.              *)
(***************************************************************************)
EveryoneDispatched ==
  <>[]connected /\ []<>(Prio[current] <= Prio[Main])
    => \A t \in {"comm", "blinker", "adc", Main} :
         tstate[t] = "READY" ~> tstate[t] = "CURRENT"

(***************************************************************************)
(* README.md of the repository: adcSampleThread samples the raw analog     *)
(* measurements, with no condition on the connection.                      *)
(***************************************************************************)
SamplingRuns == tstate["adc"] = "READY" ~> tstate["adc"] = "CURRENT"
=============================================================================
