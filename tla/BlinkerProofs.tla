---------------------------- MODULE BlinkerProofs ----------------------------
(***************************************************************************)
(* Safety of the blinker thread: flags that the USB interrupt adds, at     *)
(* whatever point of the thread's loop, are never without the event or the *)
(* step that takes them, and the thread never sleeps over them.            *)
(***************************************************************************)
EXTENDS Blinker, TLAPS

(***************************************************************************)
(* A thread that sleeps does so in its wait and found no event there.      *)
(* FlagsWillBeTaken alone would allow flags to a sleeper that has the      *)
(* event, or that is past its wait.                                        *)
(***************************************************************************)
SleepsWithoutEvent == tstate = "WTOREVT" => blinker = "wait" /\ ~epending

(* The type invariant in two halves: the flags, and everything else.       *)
Bits == {connected, led5, led6, listener, epending} \subseteq BOOLEAN

Ranges ==
  /\ blinker \in {"register", "wait", "flags", "lit", "dark"}
  /\ elflags \in SUBSET Flags
  /\ tstate \in {"CURRENT", "WTOREVT", "READY"}
  /\ rdymsg \in {"OK", "TIMEOUT"}

(* The inductive invariant.                                                *)
IInv == Bits /\ Ranges /\ FlagsWillBeTaken /\ SleepsWithoutEvent

(* The halves make the type invariant.                                     *)
LEMMA TypeHalves == TypeOK <=> Bits /\ Ranges
BY Zenon DEF TypeOK, EvtTypeOK, Bits, Ranges

(* Nobody listens and nothing is noted before the thread runs.             *)
LEMMA InitEstablishes == Init => IInv
<1> SUFFICES ASSUME Init PROVE IInv
  OBVIOUS
<1>1. Bits
  BY Zenon DEF Init, EvtInit, Bits
<1>2. Ranges
  BY DEF Init, EvtInit, Ranges
<1>3. FlagsWillBeTaken /\ SleepsWithoutEvent
  BY DEF Init, EvtInit, FlagsWillBeTaken, SleepsWithoutEvent
<1> QED
  BY <1>1, <1>2, <1>3 DEF IInv

(***************************************************************************)
(* Flags come with the event, and a sleeping thread is made ready with it. *)
(***************************************************************************)
LEMMA BroadcastKeeps ==
  ASSUME IInv, NEW flags \in SUBSET Flags, ChEvtBroadcastFlagsI(flags),
         connected' \in BOOLEAN, UNCHANGED <<blinker, led5, led6>>
  PROVE  IInv'
<1>1. CASE listener
  <2>1. /\ elflags' = elflags \union flags /\ epending' = TRUE /\ listener' = listener
        /\ \/ tstate = "WTOREVT" /\ tstate' = "READY" /\ rdymsg' = "OK"
           \/ tstate # "WTOREVT" /\ tstate' = tstate /\ rdymsg' = rdymsg
    BY <1>1, Zenon DEF ChEvtBroadcastFlagsI
  <2>2. Bits'
    BY <2>1, Zenon DEF IInv, Bits
  <2>3. Ranges'
    BY <2>1, Zenon DEF IInv, Ranges
  <2>4. FlagsWillBeTaken'
    BY <2>1, Zenon DEF FlagsWillBeTaken
  <2>5. SleepsWithoutEvent'
    BY <2>1, Zenon DEF IInv, SleepsWithoutEvent
  <2> QED
    BY <2>2, <2>3, <2>4, <2>5 DEF IInv
<1>2. CASE ~listener
  BY <1>2, Zenon DEF ChEvtBroadcastFlagsI, evtVars, IInv, Bits, Ranges, FlagsWillBeTaken,
     SleepsWithoutEvent
<1> QED
  BY <1>1, <1>2

(***************************************************************************)
(* Every step keeps the invariant.  The thread gives the event up only on  *)
(* its way to the flags, and goes to sleep only when there is no event,    *)
(* hence no flag.                                                          *)
(***************************************************************************)
LEMMA IInvStep == IInv /\ [Next]_vars => IInv'
<1> SUFFICES ASSUME IInv, [Next]_vars PROVE IInv'
  OBVIOUS
<1>0. {"CHN_CONNECTED"} \subseteq Flags /\ {"CHN_DISCONNECTED"} \subseteq Flags
      /\ \A f \in {InputAvailable, OutputEmpty} : {f} \subseteq Flags
  BY FlagsAssumption, Zenon
<1>1. CASE Connected
  BY <1>0, <1>1, BroadcastKeeps, Zenon DEF Connected
<1>2. CASE Disconnected
  BY <1>0, <1>2, BroadcastKeeps, Zenon DEF Disconnected
<1>3. ASSUME NEW flag \in {InputAvailable, OutputEmpty}, Traffic(flag) PROVE IInv'
  <2>1. connected' \in BOOLEAN
    BY <1>3, Zenon DEF Traffic, IInv, Bits
  <2> QED
    BY <1>0, <1>3, <2>1, BroadcastKeeps, Zenon DEF Traffic
<1> USE DEF IInv, Bits, Ranges, FlagsWillBeTaken, SleepsWithoutEvent, evtVars
<1>4. CASE Register
  BY <1>4, Zenon DEF Register, ChEvtRegister
<1>5. CASE WaitAny
  <2>1. CASE EvtTaken /\ blinker' = "flags"
    BY <1>5, <2>1, Zenon DEF WaitAny, EvtTaken
  <2>2. CASE EvtSleep /\ UNCHANGED blinker
    BY <1>5, <2>2, Zenon DEF WaitAny, EvtSleep
  <2>3. CASE EvtReturns /\ blinker' = "flags"
    BY <1>5, <2>3, Zenon DEF WaitAny, EvtReturns
  <2> QED
    BY <1>5, <2>1, <2>2, <2>3, Zenon DEF WaitAny
<1>6. CASE TakeFlags
  BY <1>6, Zenon DEF TakeFlags, ChEvtGetAndClearFlags
<1>7. CASE FirstSleepOver
  BY <1>7, Zenon DEF FirstSleepOver
<1>8. CASE SecondSleepOver
  BY <1>8, Zenon DEF SecondSleepOver
<1>9. CASE UNCHANGED vars
  BY <1>9, Zenon DEF vars
<1> QED
  BY <1>1, <1>2, <1>3, <1>4, <1>5, <1>6, <1>7, <1>8, <1>9, Zenon DEF Next

(***************************************************************************)
(* Whatever the USB interrupt adds to the channel's flags, and whenever it *)
(* does: the thread has the event, or is about to read the flags, and is   *)
(* not asleep.                                                             *)
(***************************************************************************)
THEOREM BlinkerIsConsistent == Spec => []BlinkerConsistent
<1>1. IInv => BlinkerConsistent
  <2> SUFFICES ASSUME IInv PROVE BlinkerConsistent
    OBVIOUS
  <2>1. TypeOK /\ FlagsWillBeTaken
    BY TypeHalves DEF IInv
  <2>2. NeverSleepsOnFlags
    BY Zenon DEF IInv, FlagsWillBeTaken, SleepsWithoutEvent, NeverSleepsOnFlags
  <2> QED
    BY <2>1, <2>2 DEF BlinkerConsistent
<1> QED
  BY <1>1, InitEstablishes, IInvStep, PTL DEF Spec
=============================================================================
