------------------------------ MODULE Netstring ------------------------------
(***************************************************************************)
(* The text protocol of the service node, as communicationThread.c and     *)
(* protocol.h define it:                                                   *)
(*                                                                         *)
(*    <payload length> ":" <command> "|" <sensor> "|" <value> ";"          *)
(*                                                                         *)
(* A string is a sequence of cells.  A delimiter or a digit is one cell,   *)
(* and so is a whole word ("set", "compressor"): every length is counted   *)
(* in cells, on the sending side (Frame) and on the receiving side alike.  *)
(* A char pointer is the string it points to.                              *)
(***************************************************************************)
EXTENDS Integers, Sequences, SequencesExt

CONSTANT Cells               \* what texts are made of

(***************************************************************************)
(* The null pointer.  strtok_r never returns an empty token, and the       *)
(* address zero of this part (the low byte of the initial stack pointer in *)
(* the vector table) reads as an empty string, so the two are the same.    *)
(***************************************************************************)
NULL == << >>

(* The terminating zero byte.                                              *)
NUL == "nul"

Digit == <<"0", "1", "2", "3", "4", "5", "6", "7", "8", "9">>

(* The cells that the firmware itself puts into a text, and the digits.    *)
ASSUME CellsAssumption ==
  /\ ToSet(Digit) \subseteq Cells
  /\ {NUL, ":", ";", "|", "(null)", "ACK", "NACK"} \subseteq Cells
  /\ {"get", "status", "readings"} \subseteq Cells

Text == Seq(Cells)

IsDigit(c) == c \in ToSet(Digit)

DigitValue(c) == SelectInSeq(Digit, LAMBDA d : d = c) - 1

-----------------------------------------------------------------------------
(* The parts of the C library the firmware uses on these strings.          *)

(* Fault: of a run of delimiters only the first is skipped.                *)
SkipOneDelimiter(s, d) == IF s # NULL /\ s[1] = d THEN Tail(s) ELSE s

(***************************************************************************)
(* strtok_r(s, d, &rest): leading delimiters are skipped, the token ends   *)
(* before the next delimiter or with the string; what follows that         *)
(* delimiter is left in rest.  (Functions rather than operators, so that   *)
(* TLC evaluates each argument once.)                                      *)
(***************************************************************************)
SkipDelimiters(s, d) ==
  LET first == SelectInSeq(s, LAMBDA c : c # d)
  IN  IF first = 0 THEN NULL ELSE SubSeq(s, first, Len(s))

StrtokToken[d \in Cells] ==
  [s \in Text |->
    LET t   == SkipDelimiters(s, d)
        end == SelectInSeq(t, LAMBDA c : c = d)
    IN  IF end = 0 THEN t ELSE SubSeq(t, 1, end - 1)]

StrtokRest[d \in Cells] ==
  [s \in Text |->
    LET t   == SkipDelimiters(s, d)
        end == SelectInSeq(t, LAMBDA c : c = d)
    IN  IF end = 0 THEN NULL ELSE SubSeq(t, end + 1, Len(t))]

(* The number that a string of digits stands for.                         *)
NumberOf(digits) ==
  LET value[k \in 0..Len(digits)] ==
        IF k = 0 THEN 0 ELSE 10 * value[k - 1] + DigitValue(digits[k])
  IN  value[Len(digits)]

(* atoi(s): an optional sign, then the digits up to the first other cell.  *)
Atoi[s \in Text] ==
  LET minus  == s # NULL /\ s[1] = "-"
      body   == IF minus THEN Tail(s) ELSE s
      stop   == SelectInSeq(body, LAMBDA c : ~IsDigit(c))
      digits == IF stop = 0 THEN body ELSE SubSeq(body, 1, stop - 1)
  IN  IF minus THEN -NumberOf(digits) ELSE NumberOf(digits)

(* Of the words of the protocol only clamp_set contains another one.       *)
WordContains(word, pattern) ==
  \/ word = pattern
  \/ word = "clamp_set" /\ pattern = "set"

(* strstr(s, pattern) # NULL                                               *)
Strstr(s, pattern) == \E i \in DOMAIN s : WordContains(s[i], pattern)

(* sprintf's %d and %s; newlib prints a null string as "(null)".           *)
Decimal[n \in Nat] ==
  IF n < 10 THEN <<Digit[n + 1]>> ELSE Decimal[n \div 10] \o <<Digit[(n % 10) + 1]>>

Printed(s) == IF s = NULL THEN <<"(null)">> ELSE s

-----------------------------------------------------------------------------
(* Fault: the host forgets the end of the frame.                           *)
FrameWithoutEnd(payload) == Decimal[Len(payload)] \o <<":">> \o payload

(* What the host puts on the wire for a payload (test_com.py).             *)
Frame(payload) == Decimal[Len(payload)] \o <<":">> \o payload \o <<";">>

(***************************************************************************)
(* decodeMessage: the length is what precedes the first ":" and the        *)
(* message what follows it up to ";", or up to the end of the string when  *)
(* there is no ";".                                                        *)
(***************************************************************************)
LengthField(s) == Atoi[StrtokToken[":"][s]]

MessageField(s) == StrtokToken[";"][StrtokRest[":"][s]]

(* The three fields decodeNetstring takes from a message.                  *)
Command(msg) == StrtokToken["|"][msg]

Sensor(msg) == StrtokToken["|"][StrtokRest["|"][msg]]

Value(msg) == StrtokToken["|"][StrtokRest["|"][StrtokRest["|"][msg]]]

-----------------------------------------------------------------------------
(* The outputs of the board in the order processCommand tries them: twelve *)
(* GPIO lines, then the five PWM channels.                                 *)
Pins == <<"heart_beat", "rack_right", "rack_left", "service_break",
          "redundency", "shutdown", "spare", "clamp_set", "compressor",
          "ebs_relief", "ebs_speaker", "finished">>

Pwms == <<"steer_speed", "brake_pressure", "assi_blue", "assi_red",
          "assi_green">>

Outputs == Pins \o Pwms

(* The timer and channel behind each PWM output.                           *)
PwmChannel(o) ==
  CASE o = "steer_speed"    -> <<"PWMD3", 2>>
    [] o = "brake_pressure" -> <<"PWMD3", 3>>
    [] o = "assi_blue"      -> <<"PWMD4", 1>>
    [] o = "assi_red"       -> <<"PWMD3", 1>>
    [] o = "assi_green"     -> <<"PWMD4", 0>>

(* A line of the board: a GPIO line by its name, a PWM channel by its timer.*)
Line(o) == IF o \in ToSet(Pins) THEN <<"GPIOD", o>> ELSE PwmChannel(o)

Lines == {Line(o) : o \in ToSet(Outputs)}

(* The output a sensor field selects, "none" when no name matches.         *)
Selected(sensor) ==
  LET i == SelectInSeq(Outputs, LAMBDA o : Strstr(sensor, o))
  IN  IF i = 0 THEN "none" ELSE Outputs[i]

(***************************************************************************)
(* PWM_PERCENTAGE_TO_WIDTH with the period of pwmcfg: the 32 bit product   *)
(* 10 * percentage wraps, then it is divided by 10000.  The product is     *)
(* computed in 16 bit halves.                                              *)
(***************************************************************************)
PwmPeriod == 10

(* Fault: the product is kept in 16 bits.                                  *)
PwmWidthHalf(percentage) == ((PwmPeriod * (percentage % 65536)) % 65536) \div 10000

PwmWidth(percentage) ==
  LET low  == PwmPeriod * (percentage % 65536)
      high == (PwmPeriod * (percentage \div 65536) + (low \div 65536)) % 65536
      rem  == high % 10000
  IN  (high \div 10000) * 65536 + (rem * 65536 + (low % 65536)) \div 10000

(* What processCommand drives an output to for a value.                    *)
Level(o, value) ==
  IF o \in ToSet(Pins) THEN (IF Atoi[value] = 0 THEN 0 ELSE 1)
                       ELSE PwmWidth(Atoi[value])

(* The lines after processCommand(sensor, value); unchanged when it fails. *)
ProcessCommand(board, sensor, value) ==
  LET o == Selected(sensor)
  IN  IF o = "none" THEN board ELSE [board EXCEPT ![Line(o)] = Level(o, value)]

(* Fault: every set command is acknowledged.                               *)
SetReplyAlwaysAck(msg) ==
  Printed(Command(msg)) \o <<"|">> \o Printed(Sensor(msg)) \o <<"|">>
    \o Printed(Value(msg)) \o <<"|", "ACK">>

(* The reply to a set command: the fields echoed and the verdict.          *)
SetReply(msg) ==
  Printed(Command(msg)) \o <<"|">> \o Printed(Sensor(msg)) \o <<"|">>
    \o Printed(Value(msg))
    \o <<"|", IF Selected(Sensor(msg)) = "none" THEN "NACK" ELSE "ACK">>

(***************************************************************************)
(* The payload of processStatus: six averaged analog inputs and three      *)
(* digital ones, each a name and a number; the readings are one cell here. *)
(***************************************************************************)
StatusReply == <<"get", "|", "status", "|", "ACK", "|", "readings">>
=============================================================================
