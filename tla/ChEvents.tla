------------------------------ MODULE ChEvents ------------------------------
(***************************************************************************)
(* One thread that listens to one event source (chevents.c): can_rx to the *)
(* CAN driver's rxfull_event, the blinker to the serial channel's source.  *)
(* Each registers with one event and all flags (wflags = -1) and waits for *)
(* that event alone.                                                       *)
(*                                                                         *)
(* An action is one critical section; the module that extends this one     *)
(* decides when the thread and the interrupts take them.                   *)
(***************************************************************************)
CONSTANT Flags               \* flags the source emits

VARIABLES
  listener,                  \* is el on the source's list?
  elflags,                   \* el.flags
  epending,                  \* is the event in the thread's epending?
  tstate,                    \* the thread's state
  rdymsg                     \* what it was made ready with

evtVars == <<listener, elflags, epending, tstate, rdymsg>>

EvtTypeOK ==
  /\ listener \in BOOLEAN
  /\ elflags \in SUBSET Flags
  /\ epending \in BOOLEAN
  /\ tstate \in {"CURRENT", "WTOREVT", "READY"}
  /\ rdymsg \in {"OK", "TIMEOUT"}

EvtInit ==
  /\ listener = FALSE
  /\ elflags = {}
  /\ epending = FALSE
  /\ tstate = "CURRENT"
  /\ rdymsg = "OK"

ChEvtRegister ==
  /\ listener' = TRUE
  /\ elflags' = {}
  /\ UNCHANGED <<epending, tstate, rdymsg>>

(* Fault: an event is kept only for a thread that is waiting for it.       *)
ChEvtBroadcastFlagsIToWaiting(flags) ==
  IF listener
  THEN /\ elflags' = elflags \union flags
       /\ epending' = (tstate = "WTOREVT")
       /\ IF tstate = "WTOREVT"
          THEN tstate' = "READY" /\ rdymsg' = "OK"
          ELSE UNCHANGED <<tstate, rdymsg>>
       /\ UNCHANGED listener
  ELSE UNCHANGED evtVars

(* With chEvtSignalI: without a listener the event leaves no trace.        *)
ChEvtBroadcastFlagsI(flags) ==
  IF listener
  THEN /\ elflags' = elflags \union flags
       /\ epending' = TRUE
       /\ IF tstate = "WTOREVT"
          THEN tstate' = "READY" /\ rdymsg' = "OK"
          ELSE UNCHANGED <<tstate, rdymsg>>
       /\ UNCHANGED listener
  ELSE UNCHANGED evtVars

(* chEvtWaitAny, chEvtWaitAnyTimeout: the event is there and is taken ...  *)
EvtTaken ==
  /\ tstate = "CURRENT"
  /\ epending
  /\ epending' = FALSE
  /\ UNCHANGED <<listener, elflags, tstate, rdymsg>>

(* ... or the thread goes to sleep.                                        *)
EvtSleep ==
  /\ tstate = "CURRENT"
  /\ ~epending
  /\ tstate' = "WTOREVT"
  /\ UNCHANGED <<listener, elflags, epending, rdymsg>>

(* wakeup, the timer's callback; of a thread already ready it does nothing.*)
EvtTimeout ==
  /\ tstate = "WTOREVT"
  /\ tstate' = "READY"
  /\ rdymsg' = "TIMEOUT"
  /\ UNCHANGED <<listener, elflags, epending>>

(* Fault: a call that timed out drops what arrived before the thread ran.  *)
EvtReturnsDropping ==
  /\ tstate = "READY"
  /\ tstate' = "CURRENT"
  /\ epending' = FALSE
  /\ UNCHANGED <<listener, elflags, rdymsg>>

(* The thread runs again: 0 after a timeout, else the events it takes.     *)
EvtReturns ==
  /\ tstate = "READY"
  /\ tstate' = "CURRENT"
  /\ epending' = (rdymsg = "TIMEOUT" /\ epending)
  /\ UNCHANGED <<listener, elflags, rdymsg>>

ChEvtGetAndClearFlags ==
  /\ elflags' = {}
  /\ UNCHANGED <<listener, epending, tstate, rdymsg>>
=============================================================================
