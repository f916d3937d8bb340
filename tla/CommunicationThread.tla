------------------------- MODULE CommunicationThread -------------------------
(***************************************************************************)
(* The request-response loop of the service node: communicationThrFunction *)
(* and everything it calls (communicationThread.c), between the input and  *)
(* output buffer queues of the serial-over-USB driver and a host that      *)
(* behaves like test_com.py.                                               *)
(*                                                                         *)
(* The driver is modelled by what it guarantees to its caller (SerialUsb   *)
(* models how): the input queue holds whole USB transfers, and a read      *)
(* gathers whole transfers until its deadline passes at a transfer         *)
(* boundary or the read buffer is full, the rest of a cut transfer staying *)
(* at the head of the queue.                                               *)
(***************************************************************************)
EXTENDS Netstring, FiniteSets

CONSTANTS
  Requests,      \* the payloads the host may send
  Window,        \* how many requests the host lets be outstanding
  Fragmenting,   \* may the host's frame arrive as two USB transfers?
  HostTimesOut,  \* does the host give up waiting for a reply?
  BufLen,        \* sizeof(readBuffer), in cells
  IbqBuffers,    \* SERIAL_USB_BUFFERS_NUMBER, transfers the input queue holds
  ObqRoom        \* replies the output queue holds before chnWrite blocks

(* The host sends text: there is no zero byte in what it frames.           *)
ASSUME RequestsAssumption == Requests \subseteq Seq(Cells \ {NUL})

ASSUME BoundsAssumption ==
  /\ Window \in Nat \ {0}
  /\ BufLen \in Nat \ {0}
  /\ IbqBuffers \in Nat \ {0}
  /\ ObqRoom \in Nat \ {0}

ASSUME SwitchesAssumption == Fragmenting \in BOOLEAN /\ HostTimesOut \in BOOLEAN

VARIABLES
  pc,            \* where communicationThrFunction is
  readBuffer,    \* static char readBuffer[128]
  bytesRead,     \* cells the current chnReadTimeout has copied
  received,      \* those cells (history)
  writeBuffer,   \* static char writeBuffer[256], as a string
  msgLength,     \* decodeNetstring's msgLength
  board,         \* the levels of the GPIO lines and PWM channels
  wire,          \* transfers the host's USB stack still has to deliver
  ibq,           \* transfers in the driver's input queue
  obq,           \* replies in the driver's output queue
  outstanding    \* requests the host waits for an answer to, oldest first

threadVars == <<pc, readBuffer, bytesRead, received, writeBuffer, msgLength, board>>

vars == <<pc, readBuffer, bytesRead, received, writeBuffer, msgLength, board,
          wire, ibq, obq, outstanding>>

MinBytes == 3    \* a read of so few bytes is ignored

Zeroed == [i \in 1..BufLen |-> NUL]

(* The C string at the start of a buffer.                                  *)
CString(buf) ==
  LET end == SelectInSeq(buf, LAMBDA c : c = NUL)
  IN  IF end = 0 THEN buf ELSE SubSeq(buf, 1, end - 1)

Init ==
  /\ pc = "read"
  /\ readBuffer = Zeroed
  /\ bytesRead = 0
  /\ received = << >>
  /\ writeBuffer = << >>
  /\ msgLength = 0
  /\ board = [l \in Lines |-> 0]
  /\ wire = << >>
  /\ ibq = << >>
  /\ obq = << >>
  /\ outstanding = << >>

-----------------------------------------------------------------------------
(* The thread.                                                             *)

(* Fault: the copy does not stop at the end of the read buffer.            *)
ReadChunkUnbounded ==
  /\ pc = "read"
  /\ ibq # << >>
  /\ LET transfer == Head(ibq)
     IN  /\ readBuffer' = [i \in 1..BufLen |->
                             IF i > bytesRead /\ i <= bytesRead + Len(transfer)
                             THEN transfer[i - bytesRead] ELSE readBuffer[i]]
         /\ bytesRead' = bytesRead + Len(transfer)
         /\ received' = received \o transfer
  /\ ibq' = Tail(ibq)
  /\ UNCHANGED <<pc, writeBuffer, msgLength, board, wire, obq, outstanding>>

(* Fault: a second transfer overwrites the last cell of the first.         *)
ReadChunkOverlaps ==
  /\ pc = "read"
  /\ ibq # << >>
  /\ LET transfer == Head(ibq)
         from     == IF bytesRead = 0 THEN 0 ELSE bytesRead - 1
     IN  /\ from + Len(transfer) <= BufLen
         /\ readBuffer' = [i \in 1..BufLen |->
                             IF i > from /\ i <= from + Len(transfer)
                             THEN transfer[i - from] ELSE readBuffer[i]]
         /\ bytesRead' = from + Len(transfer)
         /\ received' = received \o transfer
  /\ ibq' = Tail(ibq)
  /\ UNCHANGED <<pc, writeBuffer, msgLength, board, wire, obq, outstanding>>

(***************************************************************************)
(* One buffer of the input queue is copied, or as much of it as the read   *)
(* buffer has room for.                                                    *)
(***************************************************************************)
ReadChunk ==
  /\ pc = "read"
  /\ ibq # << >>
  /\ bytesRead < BufLen
  /\ LET transfer == Head(ibq)
         room     == BufLen - bytesRead
         size     == IF Len(transfer) > room THEN room ELSE Len(transfer)
     IN  /\ readBuffer' = [i \in 1..BufLen |->
                             IF i > bytesRead /\ i <= bytesRead + size
                             THEN transfer[i - bytesRead] ELSE readBuffer[i]]
         /\ bytesRead' = bytesRead + size
         /\ received' = received \o SubSeq(transfer, 1, size)
         /\ ibq' = IF size = Len(transfer)
                   THEN Tail(ibq)
                   ELSE <<SubSeq(transfer, size + 1, Len(transfer))>> \o Tail(ibq)
  /\ UNCHANGED <<pc, writeBuffer, msgLength, board, wire, obq, outstanding>>

(***************************************************************************)
(* chnReadTimeout returns because the buffer is full or its ten ticks are  *)
(* over, which may be before it has taken what is in the queue.            *)
(***************************************************************************)
ReadReturn ==
  /\ pc = "read"
  /\ IF bytesRead > MinBytes
     THEN /\ pc' = "decode"
          /\ UNCHANGED <<bytesRead, received>>
     ELSE /\ bytesRead' = 0
          /\ received' = << >>
          /\ UNCHANGED pc
  /\ UNCHANGED <<readBuffer, writeBuffer, msgLength, board, wire, ibq, obq, outstanding>>

(* decodeNetstring up to its call of sendMessage.                          *)
DecodeNetstring(msg) ==
  /\ pc' = "send"
  /\ IF Strstr(Command(msg), "set")
     THEN /\ board' = ProcessCommand(board, Sensor(msg), Value(msg))
          /\ writeBuffer' = SetReply(msg)
          /\ msgLength' = Len(SetReply(msg))
     ELSE IF Strstr(Command(msg), "get")
     THEN /\ writeBuffer' = StatusReply
          /\ msgLength' = Len(StatusReply)
          /\ UNCHANGED board
     ELSE /\ msgLength' = 0
          /\ UNCHANGED <<writeBuffer, board>>

(* Fault: the length field is taken to include the header.                 *)
DecodeMessageTooStrict ==
  /\ pc = "decode"
  /\ LET s == CString(readBuffer)
         n == LengthField(s)
     IN  IF n # -1 /\ n + MinBytes < bytesRead
         THEN DecodeNetstring(MessageField(s))
         ELSE pc' = "clear" /\ UNCHANGED <<writeBuffer, msgLength, board>>
  /\ UNCHANGED <<readBuffer, bytesRead, received, wire, ibq, obq, outstanding>>

DecodeMessage ==
  /\ pc = "decode"
  /\ LET s == CString(readBuffer)
         n == LengthField(s)
     IN  IF n # -1 /\ n < bytesRead
         THEN DecodeNetstring(MessageField(s))
         ELSE pc' = "clear" /\ UNCHANGED <<writeBuffer, msgLength, board>>
  /\ UNCHANGED <<readBuffer, bytesRead, received, wire, ibq, obq, outstanding>>

(* A reply as it goes out: "%d:%s;" of the length and the write buffer.    *)
SendMessage ==
  /\ pc = "send"
  /\ Len(obq) < ObqRoom
  /\ obq' = Append(obq, [size |-> msgLength, msg |-> writeBuffer])
  /\ pc' = "clear"
  /\ UNCHANGED <<readBuffer, bytesRead, received, writeBuffer, msgLength, board,
                 wire, ibq, outstanding>>

(* Fault: the read buffer is not cleared.                                  *)
ClearBuffersKeepsRequest ==
  /\ pc = "clear"
  /\ pc' = "read"
  /\ writeBuffer' = << >>
  /\ bytesRead' = 0
  /\ received' = << >>
  /\ UNCHANGED <<readBuffer, msgLength, board, wire, ibq, obq, outstanding>>

(* Fault: the write buffer is not cleared.                                 *)
ClearBuffersKeepsReply ==
  /\ pc = "clear"
  /\ pc' = "read"
  /\ readBuffer' = Zeroed
  /\ bytesRead' = 0
  /\ received' = << >>
  /\ UNCHANGED <<writeBuffer, msgLength, board, wire, ibq, obq, outstanding>>

(* The two memsets that end an iteration; the next read starts.            *)
ClearBuffers ==
  /\ pc = "clear"
  /\ pc' = "read"
  /\ readBuffer' = Zeroed
  /\ writeBuffer' = << >>
  /\ bytesRead' = 0
  /\ received' = << >>
  /\ UNCHANGED <<msgLength, board, wire, ibq, obq, outstanding>>

-----------------------------------------------------------------------------
(* The host and the bus.                                                   *)

(* The ways a frame may be cut into USB transfers.                         *)
Transfers(f) ==
  {<<f>>} \cup
  IF Fragmenting
  THEN {<<SubSeq(f, 1, i), SubSeq(f, i + 1, Len(f))>> : i \in 1..(Len(f) - 1)}
  ELSE {}

HostSend(r) ==
  /\ Len(outstanding) < Window
  /\ \E t \in Transfers(Frame(r)) : wire' = wire \o t
  /\ outstanding' = Append(outstanding, r)
  /\ UNCHANGED <<threadVars, ibq, obq>>

(* The endpoint accepts a transfer while the input queue has a free buffer. *)
UsbDeliver ==
  /\ wire # << >>
  /\ Len(ibq) < IbqBuffers
  /\ ibq' = Append(ibq, Head(wire))
  /\ wire' = Tail(wire)
  /\ UNCHANGED <<threadVars, obq, outstanding>>

(* read_until(';'): the next reply is taken for the oldest request.  flush  *)
(* has seen to it that everything written before has been delivered.       *)
HostReceive ==
  /\ wire = << >>
  /\ outstanding # << >>
  /\ obq # << >>
  /\ obq' = Tail(obq)
  /\ outstanding' = Tail(outstanding)
  /\ UNCHANGED <<threadVars, wire, ibq>>

(* Fault: the host gives up while its write still waits for the board.     *)
HostTimeoutInFlush ==
  /\ HostTimesOut
  /\ outstanding # << >>
  /\ obq = << >>
  /\ outstanding' = Tail(outstanding)
  /\ UNCHANGED <<threadVars, wire, ibq, obq>>

(* read_until gives up after the timeout of the port.                      *)
HostTimeout ==
  /\ HostTimesOut
  /\ wire = << >>
  /\ outstanding # << >>
  /\ obq = << >>
  /\ outstanding' = Tail(outstanding)
  /\ UNCHANGED <<threadVars, wire, ibq, obq>>

Next ==
  \/ ReadChunk
  \/ ReadReturn
  \/ DecodeMessage
  \/ SendMessage
  \/ ClearBuffers
  \/ \E r \in Requests : HostSend(r)
  \/ UsbDeliver
  \/ HostReceive
  \/ HostTimeout

(***************************************************************************)
(* The thread's read returns within a millisecond and its other steps are  *)
(* plain code; the bus delivers and the host reads its port.  (At "decode" *)
(* a step that leaves it is a DecodeMessage step; saying so through pc     *)
(* spares TLC the evaluation of ENABLED on the parser.)                    *)
(***************************************************************************)
Decoded == pc = "decode" /\ pc' \in {"send", "clear"}

Fairness ==
  /\ WF_vars(ReadChunk)
  /\ WF_vars(ReadReturn)
  /\ WF_pc(Decoded)
  /\ WF_vars(SendMessage)
  /\ WF_vars(ClearBuffers)
  /\ WF_vars(UsbDeliver)
  /\ WF_vars(HostReceive)

Spec == Init /\ [][Next]_vars

FairSpec == Spec /\ Fairness

-----------------------------------------------------------------------------
(* Properties.                                                             *)

(* Every buffer holds what its C type allows: the type invariant.          *)
TypeOK ==
  /\ pc \in {"read", "decode", "send", "clear"}
  /\ readBuffer \in [1..BufLen -> Cells]
  /\ bytesRead \in 0..BufLen
  /\ received \in Seq(Cells \ {NUL})
  /\ writeBuffer \in Text
  /\ msgLength \in Nat
  /\ board \in [Lines -> Nat]
  /\ wire \in Seq(Seq(Cells \ {NUL}))
  /\ ibq \in Seq(Seq(Cells \ {NUL}))
  /\ obq \in Seq([size : Nat, msg : Text])
  /\ outstanding \in Seq(Requests)

(***************************************************************************)
(* When decodeMessage runs, the read buffer holds the bytes of this read   *)
(* and nothing else: bytes left by an ignored short read or by an earlier  *)
(* message never follow them.                                              *)
(***************************************************************************)
DecodeSeesOnlyThisRead ==
  pc = "decode" =>
    /\ bytesRead = Len(received)
    /\ \A i \in 1..BufLen :
         readBuffer[i] = IF i <= bytesRead THEN received[i] ELSE NUL

(***************************************************************************)
(* decodeMessage's tokenizer stays inside the read buffer: a zero byte is  *)
(* found before its end, or else the ":" that ends the length and, behind  *)
(* it and behind every ";" that strtok_r skips, the ";" that ends the      *)
(* message.                                                                *)
(***************************************************************************)
DecodeInBounds ==
  pc = "decode" =>
    \/ NUL \in Range(readBuffer)
    \/ ";" \in Range(SkipDelimiters(StrtokRest[":"][CString(readBuffer)], ";"))

(* s occurs in t as a contiguous block.                                    *)
OccursIn(s, t) ==
  \E i \in 0..(Len(t) - Len(s)) : SubSeq(t, i + 1, i + Len(s)) = s

(***************************************************************************)
(* An output changes only as a request says of which the read at hand      *)
(* holds the whole payload with both its delimiters.                       *)
(***************************************************************************)
ExecutesOnlyWholeRequests ==
  [][board' # board =>
       \E r \in Requests :
         /\ OccursIn(<<":">> \o r \o <<";">>, received)
         /\ board' = ProcessCommand(board, Sensor(r), Value(r))]_vars

(* What the protocol says of a request: the verdict of a set, the status   *)
(* for a get, an empty payload for anything else.                          *)
AnswerTo(r) ==
  IF Strstr(Command(r), "set") THEN SetReply(r)
  ELSE IF Strstr(Command(r), "get") THEN StatusReply
  ELSE << >>

(***************************************************************************)
(* With one request at a time and a host that does not give up, a reply on *)
(* its way answers the request the host waits for, and its verdict is      *)
(* true: after ACK the output is at the requested level, and NACK means    *)
(* that the request names no output.                                       *)
(***************************************************************************)
AnswersItsRequest ==
  \A i \in 1..Len(obq) :
    LET r == Head(outstanding)
    IN  /\ outstanding # << >>
        /\ obq[i].msg = AnswerTo(r)
        /\ Strstr(Command(r), "set") =>
             /\ ProcessCommand(board, Sensor(r), Value(r)) = board
             /\ Last(obq[i].msg) = "ACK" <=> Selected(Sensor(r)) # "none"

(***************************************************************************)
(* Request-response: whenever the host waits for a reply, one comes.       *)
(***************************************************************************)
EveryRequestAnswered == (outstanding # << >>) ~> (obq # << >>)

(* What the protocol says a request does to the outputs.                   *)
EffectOf(levels, r) ==
  IF Strstr(Command(r), "set") THEN ProcessCommand(levels, Sensor(r), Value(r)) ELSE levels

ReplyTo(r) == [size |-> Len(AnswerTo(r)), msg |-> AnswerTo(r)]

(* The reply from the moment it is made to the moment the host takes it.   *)
ReplyUnderWay ==
  IF pc = "send" THEN Append(obq, [size |-> msgLength, msg |-> writeBuffer]) ELSE obq

(***************************************************************************)
(* The node as its host sees it: the request is the one it waits for, and  *)
(* it has been answered once decodeNetstring has filled the write buffer.  *)
(***************************************************************************)
Service == INSTANCE RequestService WITH
  AllOff <- [l \in Lines |-> 0],
  Effect <- EffectOf,
  Answer <- ReplyTo,
  outputs <- board,
  request <- outstanding,
  reply <- ReplyUnderWay

(***************************************************************************)
(* For a host that waits, the node implements the service: each request is *)
(* executed exactly once, before its answer and after the one before it,   *)
(* and its reply is well formed, true and taken for no other request.      *)
(***************************************************************************)
ImplementsService == Service!Spec

(***************************************************************************)
(* With one request at a time the board in chnWrite and the host in flush  *)
(* never wait for each other: the output queue full, the input queue full  *)
(* and a transfer still to deliver, also when the host gave up on earlier  *)
(* replies.                                                                *)
(***************************************************************************)
NoCircularWait ==
  ~ /\ pc = "send" /\ Len(obq) >= ObqRoom
    /\ wire # << >> /\ Len(ibq) >= IbqBuffers
=============================================================================
