---------------------------- MODULE ChScheduler ----------------------------
(***************************************************************************)
(* The kernel's scheduler (chschd.c): a current thread and a ready list in *)
(* the order of priorities, without time slices (CH_CFG_TIME_QUANTUM 0).   *)
(*                                                                         *)
(* An action is one critical section.  Interrupts only fill the ready      *)
(* list; the switch is made when the last of them returns.  A kernel       *)
(* assertion that fails sets panic.                                        *)
(***************************************************************************)
EXTENDS Naturals, FiniteSets, SequencesExt

CONSTANTS
  Threads,
  Prio,                      \* the priority of each thread
  Idle,                      \* the idle thread, which never sleeps
  Main                       \* the thread that runs main()

ASSUME ThreadsAssumption ==
  /\ IsFiniteSet(Threads)
  /\ Prio \in [Threads -> Nat]
  /\ {Idle, Main} \subseteq Threads
  /\ Main # Idle
  /\ \A t \in Threads \ {Idle} : Prio[t] > Prio[Idle]

VARIABLES
  current,                   \* ch.rlist.current
  ready,                     \* ch.rlist.queue
  tstate,                    \* the state of each thread
  rdymsg,                    \* u.rdymsg of a thread until it resumes
  armed,                     \* threads whose sleep has a timer running
  firing,                    \* threads whose timer is off, its callback due
  isr,                       \* are interrupt handlers running?
  panic                      \* chSysHalt was called

schVars == <<current, ready, tstate, rdymsg, armed, firing, isr, panic>>

WaitStates == {"WTSTART", "SUSPENDED", "QUEUED", "SLEEPING", "WTOREVT"}

SchTypeOK ==
  /\ current \in Threads
  /\ ready \in Seq(Threads)
  /\ tstate \in [Threads -> WaitStates \union {"READY", "CURRENT"}]
  /\ rdymsg \in [Threads -> {"none", "OK", "TIMEOUT", "RESET"}]
  /\ armed \in SUBSET Threads
  /\ firing \in SUBSET Threads
  /\ isr \in BOOLEAN
  /\ panic \in BOOLEAN

(* chSysInit: main() becomes a thread and creates the idle thread.         *)
SchInit ==
  /\ current = Main
  /\ ready = <<Idle>>
  /\ tstate = [t \in Threads |->
                 CASE t = Main -> "CURRENT" [] t = Idle -> "READY" [] OTHER -> "WTSTART"]
  /\ rdymsg = [t \in Threads |-> "none"]
  /\ armed = {}
  /\ firing = {}
  /\ isr = FALSE
  /\ panic = FALSE

-----------------------------------------------------------------------------
(* The position of the first thread of the set stop in q, or the end.      *)
FirstIn(q, stop) ==
  CHOOSE i \in 1..(Len(q) + 1) :
    /\ i <= Len(q) => q[i] \in stop
    /\ \A j \in 1..(i - 1) : q[j] \notin stop

(* Fault: in front of every thread.                                        *)
BehindFirst(q, t) == <<t>> \o q

(* chSchReadyI: behind the threads of the same priority.                   *)
Behind(q, t) == InsertAt(q, FirstIn(q, {u \in Threads : Prio[u] < Prio[t]}), t)

(* Fault: a preempted thread goes behind its peers.                        *)
AheadBehind(q, t) == Behind(q, t)

(* chSchReadyAheadI: ahead of them.                                        *)
Ahead(q, t) == InsertAt(q, FirstIn(q, {u \in Threads : Prio[u] <= Prio[t]}), t)

(* The assertion of chSysUnlock and chSchWakeupS.                          *)
PriorityOrderViolated(q, t) == q # <<>> /\ Prio[Head(q)] > Prio[t]

(***************************************************************************)
(* chSchGoSleepTimeoutS, with chSchGoSleepS.  The thread that becomes      *)
(* current resets the timer of its own sleep before it unlocks.            *)
(***************************************************************************)
ChSchGoSleepTimeoutS(newstate, timed) ==
  LET ntp == Head(ready) IN
  /\ ~isr /\ ~panic
  /\ current' = ntp
  /\ ready' = Tail(ready)
  /\ tstate' = [tstate EXCEPT ![current] = newstate, ![ntp] = "CURRENT"]
  /\ armed' = (armed \union (IF timed THEN {current} ELSE {})) \ {ntp}
  /\ panic' = PriorityOrderViolated(Tail(ready), ntp)
  /\ rdymsg' = [rdymsg EXCEPT ![ntp] = "none"]
  /\ UNCHANGED <<firing, isr>>

(* chThdCreateStatic, with chSchWakeupS.                                   *)
ChThdCreateStatic(tp) ==
  /\ ~isr /\ ~panic
  /\ IF Prio[tp] <= Prio[current]
     THEN /\ rdymsg' = [rdymsg EXCEPT ![tp] = "OK"]
          /\ ready' = Behind(ready, tp)
          /\ tstate' = [tstate EXCEPT ![tp] = "READY"]
          /\ UNCHANGED current
     ELSE /\ ready' = Behind(ready, current)
          /\ tstate' = [tstate EXCEPT ![current] = "READY", ![tp] = "CURRENT"]
          /\ current' = tp
          /\ UNCHANGED rdymsg
  /\ panic' = \/ PriorityOrderViolated(ready, current)
              \/ PriorityOrderViolated(ready', current')
  /\ UNCHANGED <<armed, firing, isr>>

-----------------------------------------------------------------------------
(* Interrupts.                                                             *)

(***************************************************************************)
(* An interrupt handler makes the threads of ts ready, each with its       *)
(* message, which turns the ready list into q.                             *)
(***************************************************************************)
ChSchReadyI(ts, q, msgs) ==
  /\ ~panic
  /\ isr' = TRUE
  /\ ready' = q
  /\ tstate' = [t \in Threads |-> IF t \in ts THEN "READY" ELSE tstate[t]]
  /\ rdymsg' = [t \in Threads |-> IF t \in ts THEN msgs[t] ELSE rdymsg[t]]
  /\ panic' = \E t \in ts : tstate[t] = "READY"
  /\ UNCHANGED <<current, armed, firing>>

(* chVTDoTickI takes an expired timer off and unlocks before its callback. *)
ChVTDoTickI(t) ==
  /\ ~panic
  /\ t \in armed
  /\ armed' = armed \ {t}
  /\ firing' = firing \union {t}
  /\ isr' = TRUE
  /\ UNCHANGED <<current, ready, tstate, rdymsg, panic>>

(* Fault: the callback does not look at the thread's state.                *)
WakeupAny(t) ==
  /\ ~panic
  /\ t \in firing
  /\ firing' = firing \ {t}
  /\ tstate' = [tstate EXCEPT ![t] = "READY"]
  /\ rdymsg' = [rdymsg EXCEPT ![t] = "TIMEOUT"]
  /\ panic' = (tstate[t] = "READY")
  /\ ready' = Behind(ready, t)
  /\ UNCHANGED <<current, armed, isr>>

(* Fault: a ready thread is told of the timeout all the same.              *)
WakeupTellsReady(t) ==
  /\ ~panic
  /\ t \in firing
  /\ firing' = firing \ {t}
  /\ rdymsg' = [rdymsg EXCEPT ![t] = "TIMEOUT"]
  /\ IF tstate[t] = "READY"
     THEN UNCHANGED <<ready, tstate>>
     ELSE /\ ready' = Behind(ready, t)
          /\ tstate' = [tstate EXCEPT ![t] = "READY"]
  /\ UNCHANGED <<current, armed, isr, panic>>

(* Fault: the thread is marked ready and not put in the list.              *)
WakeupNotListed(t) ==
  /\ ~panic
  /\ t \in firing
  /\ firing' = firing \ {t}
  /\ tstate' = [tstate EXCEPT ![t] = "READY"]
  /\ UNCHANGED <<current, ready, rdymsg, armed, isr, panic>>

(* The callback: a thread that something else made ready is left alone.    *)
Wakeup(t) ==
  /\ ~panic
  /\ t \in firing
  /\ firing' = firing \ {t}
  /\ IF tstate[t] = "READY"
     THEN UNCHANGED <<ready, tstate, rdymsg>>
     ELSE /\ ready' = Behind(ready, t)
          /\ tstate' = [tstate EXCEPT ![t] = "READY"]
          /\ rdymsg' = [rdymsg EXCEPT ![t] = "TIMEOUT"]
  /\ UNCHANGED <<current, armed, isr, panic>>

(* chSchIsPreemptionRequired                                               *)
PreemptionRequired == ready # <<>> /\ Prio[Head(ready)] > Prio[current]

(***************************************************************************)
(* _port_irq_epilogue of the last handler, with chSchDoReschedule.         *)
(***************************************************************************)
PortIrqEpilogue ==
  /\ isr /\ ~panic
  /\ firing = {}
  /\ isr' = FALSE
  /\ IF PreemptionRequired
     THEN LET ntp == Head(ready) IN
          /\ current' = ntp
          /\ ready' = Ahead(Tail(ready), current)
          /\ tstate' = [tstate EXCEPT ![current] = "READY", ![ntp] = "CURRENT"]
          /\ rdymsg' = [rdymsg EXCEPT ![ntp] = "none"]
          /\ armed' = armed \ {ntp}
          /\ panic' = PriorityOrderViolated(ready', ntp)
     ELSE UNCHANGED <<current, ready, tstate, rdymsg, armed, panic>>
  /\ UNCHANGED firing
=============================================================================
