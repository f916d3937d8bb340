------------------------------ MODULE Blinker ------------------------------
(***************************************************************************)
(* usbThreadFunction: LED5 and LED6 show traffic on the serial channel.    *)
(* The USB interrupt adds flags to the channel's event source; the thread  *)
(* waits for the event, takes the flags, lights the LEDs for 50 ms, keeps  *)
(* them dark for 50 ms and waits again.                                    *)
(*                                                                         *)
(* Of the driver only the hooks that add flags appear, with the bus state  *)
(* that decides which can run; SerialUsb has the rest of them.             *)
(***************************************************************************)
EXTENDS ChEvents

InputAvailable == "CHN_INPUT_AVAILABLE"

OutputEmpty == "CHN_OUTPUT_EMPTY"

ASSUME FlagsAssumption ==
  Flags = {"CHN_CONNECTED", "CHN_DISCONNECTED", InputAvailable, OutputEmpty}

VARIABLES
  connected,                 \* is the channel configured and not suspended?
  blinker,                   \* where the thread is
  led5, led6

vars == <<connected, blinker, led5, led6, evtVars>>

Init ==
  /\ connected = FALSE
  /\ blinker = "register"
  /\ led5 = FALSE
  /\ led6 = FALSE
  /\ EvtInit

-----------------------------------------------------------------------------
(* chnAddFlagsI in the hooks of hal_serial_usb.c.                          *)

(* sduConfigureHookI, sduWakeupHookI                                       *)
Connected ==
  /\ connected' = TRUE
  /\ ChEvtBroadcastFlagsI({"CHN_CONNECTED"})
  /\ UNCHANGED <<blinker, led5, led6>>

(* sduSuspendHookI                                                         *)
Disconnected ==
  /\ connected' = FALSE
  /\ ChEvtBroadcastFlagsI({"CHN_DISCONNECTED"})
  /\ UNCHANGED <<blinker, led5, led6>>

(* sduDataReceived, sduDataTransmitted                                     *)
Traffic(flag) ==
  /\ connected
  /\ ChEvtBroadcastFlagsI({flag})
  /\ UNCHANGED <<connected, blinker, led5, led6>>

-----------------------------------------------------------------------------
(* The thread.                                                             *)

Register ==
  /\ blinker = "register"
  /\ ChEvtRegister
  /\ blinker' = "wait"
  /\ UNCHANGED <<connected, led5, led6>>

(* chEvtWaitAny: the event is there, or the thread sleeps until it is.     *)
WaitAny ==
  /\ blinker = "wait"
  /\ \/ EvtTaken /\ blinker' = "flags"
     \/ EvtSleep /\ UNCHANGED blinker
     \/ EvtReturns /\ blinker' = "flags"
  /\ UNCHANGED <<connected, led5, led6>>

(* Fault: the flags are read and not cleared.                              *)
TakeFlagsWithoutClearing ==
  /\ blinker = "flags"
  /\ led5' = (led5 \/ InputAvailable \in elflags)
  /\ led6' = (led6 \/ OutputEmpty \in elflags)
  /\ blinker' = "lit"
  /\ UNCHANGED <<connected, evtVars>>

TakeFlags ==
  /\ blinker = "flags"
  /\ led5' = (led5 \/ InputAvailable \in elflags)
  /\ led6' = (led6 \/ OutputEmpty \in elflags)
  /\ ChEvtGetAndClearFlags
  /\ blinker' = "lit"
  /\ UNCHANGED connected

(* Fault: what came during the sleep is cleared with the LEDs.             *)
FirstSleepOverClears ==
  /\ blinker = "lit"
  /\ led5' = FALSE
  /\ led6' = FALSE
  /\ blinker' = "dark"
  /\ ChEvtGetAndClearFlags
  /\ UNCHANGED connected

FirstSleepOver ==
  /\ blinker = "lit"
  /\ led5' = FALSE
  /\ led6' = FALSE
  /\ blinker' = "dark"
  /\ UNCHANGED <<connected, evtVars>>

SecondSleepOver ==
  /\ blinker = "dark"
  /\ blinker' = "wait"
  /\ UNCHANGED <<connected, led5, led6, evtVars>>

-----------------------------------------------------------------------------
Next ==
  \/ Connected
  \/ Disconnected
  \/ \E flag \in {InputAvailable, OutputEmpty} : Traffic(flag)
  \/ Register
  \/ WaitAny
  \/ TakeFlags
  \/ FirstSleepOver
  \/ SecondSleepOver

(***************************************************************************)
(* The thread's steps and its timers, but only while the channel is        *)
(* connected: while it is not, the communication thread, its peer, never   *)
(* sleeps and there are no time slices.  Nothing of the bus.               *)
(***************************************************************************)
Fairness ==
  /\ WF_vars(connected /\ Register)
  /\ WF_vars(connected /\ WaitAny)
  /\ WF_vars(connected /\ TakeFlags)
  /\ WF_vars(connected /\ FirstSleepOver)
  /\ WF_vars(connected /\ SecondSleepOver)

Spec == Init /\ [][Next]_vars

FairSpec == Spec /\ Fairness

-----------------------------------------------------------------------------
(* Properties.                                                             *)

(* The type invariant.                                                     *)
TypeOK ==
  /\ connected \in BOOLEAN
  /\ blinker \in {"register", "wait", "flags", "lit", "dark"}
  /\ led5 \in BOOLEAN
  /\ led6 \in BOOLEAN
  /\ EvtTypeOK

(***************************************************************************)
(* Flags that were added at any point of the loop, in particular between   *)
(* the wait and the reading of the flags, or while the thread sleeps, are  *)
(* never left without the event that makes the thread read them.           *)
(***************************************************************************)
FlagsWillBeTaken == elflags # {} => epending \/ blinker = "flags"

(* The thread does not sleep over flags: who adds them makes it ready.     *)
NeverSleepsOnFlags == tstate = "WTOREVT" => elflags = {}

(* The listener's record and the thread's place in its loop agree.         *)
BlinkerConsistent == TypeOK /\ FlagsWillBeTaken /\ NeverSleepsOnFlags

(***************************************************************************)
(* If the channel stays connected in the end, traffic that the listener    *)
(* has noted, at any time, is shown by its LED.                            *)
(***************************************************************************)
TrafficShows ==
  <>[]connected => /\ InputAvailable \in elflags ~> led5
                   /\ OutputEmpty \in elflags ~> led6
=============================================================================
