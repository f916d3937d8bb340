----------------------------- MODULE UsbControl -----------------------------
(***************************************************************************)
(* Control transfers on endpoint 0: the state machine of hal_usb.c, the    *)
(* requests that its default handler and sduRequestsHook answer, and the   *)
(* interrupt of the OTG driver that feeds it, against a host.              *)
(*                                                                         *)
(* The driver is a record, its functions are operators on it, and one run  *)
(* of the interrupt handler is one action.  A size is a number of bytes; a *)
(* request is what the host wants (dir, wLength) and what the handlers     *)
(* make of it (kind, value).  What SET_CONFIGURATION does to the channel   *)
(* is in SerialUsb.                                                        *)
(***************************************************************************)
EXTENDS Naturals, Sequences

CONSTANTS
  MaxPacket,                 \* the maximum packet size of endpoint 0
  Answers,                   \* sizes of what GET requests return
  MaxLength,                 \* bound: wLength of a request
  LineCoding,                \* sizeof(linecoding)
  Aborts                     \* may the host abandon a transfer?

ASSUME SizesAssumption ==
  /\ MaxPacket \in Nat \ {0}
  /\ Answers \subseteq Nat \ {0}
  /\ MaxLength \in Nat
  /\ LineCoding \in 1..MaxLength
  /\ Aborts \in BOOLEAN

(***************************************************************************)
(* The requests.  "get" stands for GET_DESCRIPTOR, GET_STATUS,             *)
(* GET_CONFIGURATION and GET_LINE_CODING, "no_data" for the features and   *)
(* SET_CONTROL_LINE_STATE.                                                 *)
(***************************************************************************)
Requests ==
  [dir : {"in"}, wLength : 1..MaxLength, kind : {"get"}, value : Answers]
  \union [dir : {"out"}, wLength : {0}, kind : {"no_data"}, value : {0}]
  \union [dir : {"out"}, wLength : {0}, kind : {"set_address"}, value : {1}]
  \union [dir : {"out"}, wLength : {0}, kind : {"set_configuration"}, value : {0, 1}]
  \union [dir : {"out"}, wLength : {LineCoding}, kind : {"set_line_coding"}, value : {0}]
  \union [dir : {"in"}, wLength : {MaxLength}, kind : {"unknown"}, value : {0}]
  \union [dir : {"out"}, wLength : {0, LineCoding}, kind : {"unknown"}, value : {0}]

NoRequest == [dir |-> "out", wLength |-> 0, kind |-> "none", value |-> 0]

VARIABLES
  usbp,                      \* the driver and the registers it writes
  fifo,                      \* the receive FIFO of the controller
  setup_buf,                 \* epc[0]->setup_buf
  stup, xfrcOut, xfrcIn,     \* interrupt flags of endpoint 0
  stage, request, count,     \* the host's transfer, and the bytes of its data
  hostAddress, hostConfig    \* what the host believes of the device

hwVars == <<fifo, setup_buf, stup, xfrcOut, xfrcIn>>

hostVars == <<stage, request, count, hostAddress, hostConfig>>

vars == <<usbp, hwVars, hostVars>>

Ep0States ==
  {"STP_WAITING", "IN_TX", "IN_WAITING_TX0", "IN_SENDING_STS", "OUT_RX",
   "OUT_WAITING_STS", "ERROR"}

InStates == {"IN_TX", "IN_WAITING_TX0", "IN_SENDING_STS"}

OutStates == {"OUT_RX", "OUT_WAITING_STS"}

Lesser(a, b) == IF a <= b THEN a ELSE b

-----------------------------------------------------------------------------
(* The driver after _usb_reset, which usb_lld_reset is a part of.          *)
ResetDriver ==
  [state |-> "READY", address |-> 0, configuration |-> 0,
   ep0state |-> "STP_WAITING", ep0n |-> 0, setup |-> NoRequest,
   transmitting |-> FALSE, receiving |-> FALSE,
   txtot |-> 0, rxtot |-> 0, rxcnt |-> 0,
   inen |-> FALSE, outen |-> FALSE, stalled |-> FALSE, panic |-> FALSE]

(* usb_lld_start_in: of a longer transfer the first packet.                *)
StartIn(d, n) == [d EXCEPT !.txtot = n, !.inen = TRUE]

StartOut(d, n) == [d EXCEPT !.rxtot = n, !.rxcnt = 0, !.outen = TRUE]

UsbStartTransmitI(d, n) ==
  StartIn([d EXCEPT !.panic = @ \/ d.transmitting, !.transmitting = TRUE], n)

UsbStartReceiveI(d, n) ==
  StartOut([d EXCEPT !.panic = @ \/ d.receiving, !.receiving = TRUE], n)

Stall(d) == [d EXCEPT !.stalled = TRUE, !.ep0state = "ERROR"]

(* sduRequestsHook and default_handler: what usbSetupTransfer is given.    *)
Answer(req) ==
  CASE req.kind = "get" -> req.value
    [] req.kind = "set_line_coding" -> LineCoding
    [] OTHER -> 0

(* Fault: the old configuration stays when the host selects none.          *)
HandledKeepsConfiguration(d, req) ==
  CASE req.kind = "set_address" -> [d EXCEPT !.address = req.value, !.state = "SELECTED"]
    [] req.kind = "set_configuration" /\ req.value # 0 ->
         [d EXCEPT !.configuration = req.value, !.state = "ACTIVE"]
    [] OTHER -> d

(***************************************************************************)
(* The state changes of default_handler.  A configuration that is active   *)
(* is cleared before the new one, if any, is selected.                     *)
(***************************************************************************)
Handled(d, req) ==
  CASE req.kind = "set_address" -> [d EXCEPT !.address = req.value, !.state = "SELECTED"]
    [] req.kind = "set_configuration" ->
         IF req.value # 0
         THEN [d EXCEPT !.configuration = req.value, !.state = "ACTIVE"]
         ELSE IF d.state = "ACTIVE"
              THEN [d EXCEPT !.configuration = 0, !.state = "SELECTED"]
              ELSE d
    [] OTHER -> d

(* _usb_ep0setup                                                           *)
UsbEp0Setup(d, req) ==
  LET handled == [Handled(d, req) EXCEPT
                    !.setup = req, !.ep0n = Lesser(Answer(req), req.wLength)]
      n == handled.ep0n
  IN  IF req.kind = "unknown"
      THEN Stall([d EXCEPT !.setup = req])
      ELSE IF req.dir = "in"
           THEN IF n # 0
                THEN UsbStartTransmitI([handled EXCEPT !.ep0state = "IN_TX"], n)
                ELSE UsbStartReceiveI([handled EXCEPT !.ep0state = "OUT_WAITING_STS"], 0)
           ELSE IF n # 0
                THEN UsbStartReceiveI([handled EXCEPT !.ep0state = "OUT_RX"], n)
                ELSE UsbStartTransmitI([handled EXCEPT !.ep0state = "IN_SENDING_STS"], 0)

(* Fault: a zero length packet also after an answer of full length.        *)
ZeroPacketDueAlways(d) == d.ep0n % MaxPacket = 0

(* Must a zero length packet end the data?                                 *)
ZeroPacketDue(d) == d.ep0n < d.setup.wLength /\ d.ep0n % MaxPacket = 0

(* _usb_ep0in                                                              *)
UsbEp0In(d) ==
  CASE d.ep0state = "IN_TX" /\ ZeroPacketDue(d) ->
         [UsbStartTransmitI(d, 0) EXCEPT !.ep0state = "IN_WAITING_TX0"]
    [] \/ d.ep0state = "IN_TX" /\ ~ZeroPacketDue(d)
       \/ d.ep0state = "IN_WAITING_TX0" ->
         UsbStartReceiveI([d EXCEPT !.ep0state = "OUT_WAITING_STS"], 0)
    [] d.ep0state = "IN_SENDING_STS" -> [d EXCEPT !.ep0state = "STP_WAITING"]
    [] d.ep0state \in {"STP_WAITING"} \union OutStates -> Stall([d EXCEPT !.panic = TRUE])
    [] d.ep0state = "ERROR" -> Stall(d)

(* _usb_ep0out; a status packet that is not empty is ignored.              *)
UsbEp0Out(d) ==
  CASE d.ep0state = "OUT_RX" ->
         UsbStartTransmitI([d EXCEPT !.ep0state = "IN_SENDING_STS"], 0)
    [] d.ep0state = "OUT_WAITING_STS" ->
         IF d.rxcnt # 0 THEN d ELSE [d EXCEPT !.ep0state = "STP_WAITING"]
    [] d.ep0state \in {"STP_WAITING"} \union InStates -> Stall([d EXCEPT !.panic = TRUE])
    [] d.ep0state = "ERROR" -> Stall(d)

-----------------------------------------------------------------------------
(* The interrupt of hal_usb_lld.c.                                         *)

(* Fault: the end of a packet is taken for the end of the transfer.        *)
OtgEpinHandlerOnePacket(d) == UsbEp0In([d EXCEPT !.transmitting = FALSE])

OtgEpinHandler(d) ==
  IF d.txtot > MaxPacket
  THEN StartIn(d, d.txtot - MaxPacket)
  ELSE UsbEp0In([d EXCEPT !.transmitting = FALSE])

OtgEpoutHandlerXfrc(d) ==
  IF d.rxcnt % MaxPacket = 0 /\ d.rxtot > MaxPacket
  THEN StartOut(d, d.rxtot - MaxPacket)
  ELSE UsbEp0Out([d EXCEPT !.receiving = FALSE])

(* Fault: the handler empties the FIFO.                                    *)
RxWordsAll == Len(fifo)

(* otg_rxfifo_handler takes one word in each interrupt.                    *)
RxWords == Lesser(1, Len(fifo))

Popped(w) == \E i \in 1..RxWords : fifo[i].word = w

(***************************************************************************)
(* usb_lld_serve_interrupt: words of the FIFO, then endpoint 0 OUT (SETUP  *)
(* before the end of a transfer), then endpoint 0 IN.  A word that ends a  *)
(* packet raises its flag for the next interrupt.                          *)
(***************************************************************************)
ServeInterrupt ==
  LET datas == {i \in 1..RxWords : fifo[i].word = "SETUP_DATA"}
      outs == {i \in 1..RxWords : fifo[i].word = "OUT_DATA"}
      buf == IF datas = {} THEN setup_buf ELSE fifo[CHOOSE i \in datas : \A j \in datas : j <= i].req
      d0 == IF outs = {} THEN usbp ELSE [usbp EXCEPT !.rxcnt = @ + fifo[CHOOSE i \in outs : TRUE].n]
      d1 == IF stup THEN UsbEp0Setup(d0, buf) ELSE d0
      d2 == IF xfrcOut THEN OtgEpoutHandlerXfrc(d1) ELSE d1
      d3 == IF xfrcIn THEN OtgEpinHandler(d2) ELSE d2
  IN  /\ ~usbp.panic
      /\ fifo # <<>> \/ stup \/ xfrcOut \/ xfrcIn
      /\ usbp' = d3
      /\ setup_buf' = buf
      /\ fifo' = SubSeq(fifo, RxWords + 1, Len(fifo))
      /\ stup' = Popped("SETUP_COMP")
      /\ xfrcOut' = Popped("OUT_COMP")
      /\ xfrcIn' = FALSE
      /\ UNCHANGED hostVars

(* A bus reset, and the interrupt that serves it.                          *)
BusReset ==
  /\ ~usbp.panic
  /\ usbp' = [ResetDriver EXCEPT !.setup = usbp.setup]
  /\ fifo' = <<>>
  /\ stup' = FALSE /\ xfrcOut' = FALSE /\ xfrcIn' = FALSE
  /\ stage' = "idle"
  /\ hostAddress' = 0
  /\ hostConfig' = 0
  /\ UNCHANGED <<setup_buf, request, count>>

-----------------------------------------------------------------------------
(* The host and the controller.  External.                                 *)

Init ==
  /\ usbp = ResetDriver
  /\ fifo = <<>>
  /\ setup_buf = NoRequest
  /\ stup = FALSE
  /\ xfrcOut = FALSE
  /\ xfrcIn = FALSE
  /\ stage = "idle"
  /\ request = NoRequest
  /\ count = 0
  /\ hostAddress = 0
  /\ hostConfig = 0

(***************************************************************************)
(* A SETUP packet is always taken: the controller drops a stall and stops  *)
(* both directions of endpoint 0.  No host moves a configured device to    *)
(* another address.                                                        *)
(***************************************************************************)
HostSetup(req) ==
  /\ ~usbp.panic
  /\ stage = "idle" \/ (Aborts /\ fifo = <<>>)
  /\ req.kind = "set_address" => hostConfig = 0
  /\ fifo' = fifo \o <<[word |-> "SETUP_DATA", req |-> req], [word |-> "SETUP_COMP"]>>
  /\ usbp' = [usbp EXCEPT !.stalled = FALSE, !.inen = FALSE, !.outen = FALSE]
  /\ stage' = IF req.wLength = 0 THEN "status_in"
              ELSE IF req.dir = "in" THEN "data_in" ELSE "data_out"
  /\ request' = req
  /\ count' = 0
  /\ UNCHANGED <<setup_buf, stup, xfrcOut, xfrcIn, hostAddress, hostConfig>>

(* An IN token: a packet of data, or the status of the transfer.           *)
HostIn ==
  LET n == Lesser(usbp.txtot, MaxPacket) IN
  /\ ~usbp.panic
  /\ stage \in {"data_in", "status_in"}
  /\ usbp.inen /\ ~usbp.stalled
  /\ usbp' = [usbp EXCEPT !.inen = FALSE]
  /\ xfrcIn' = TRUE
  /\ IF stage = "data_in"
     THEN /\ count' = count + n
          /\ stage' = IF n < MaxPacket \/ count + n >= request.wLength
                      THEN "status_out" ELSE "data_in"
          /\ UNCHANGED <<hostAddress, hostConfig>>
     ELSE /\ stage' = "idle"
          /\ hostAddress' = IF request.kind = "set_address" THEN request.value ELSE hostAddress
          /\ hostConfig' = IF request.kind = "set_configuration" THEN request.value ELSE hostConfig
          /\ UNCHANGED count
  /\ UNCHANGED <<fifo, setup_buf, stup, xfrcOut, request>>

(* An OUT packet: data, or the empty status of the transfer.               *)
HostOut ==
  LET n == Lesser(request.wLength - count, MaxPacket) IN
  /\ ~usbp.panic
  /\ stage \in {"data_out", "status_out"}
  /\ usbp.outen /\ ~usbp.stalled
  /\ usbp' = [usbp EXCEPT !.outen = FALSE]
  /\ IF stage = "data_out"
     THEN /\ fifo' = fifo \o <<[word |-> "OUT_DATA", n |-> n], [word |-> "OUT_COMP"]>>
          /\ count' = count + n
          /\ stage' = IF count + n = request.wLength THEN "status_in" ELSE "data_out"
     ELSE /\ fifo' = Append(fifo, [word |-> "OUT_COMP"])
          /\ stage' = "idle"
          /\ UNCHANGED count
  /\ UNCHANGED <<setup_buf, stup, xfrcOut, xfrcIn, request, hostAddress, hostConfig>>

(* The host meets the stall and gives the transfer up.                     *)
HostStalled ==
  /\ ~usbp.panic
  /\ stage # "idle"
  /\ usbp.stalled
  /\ stage' = "idle"
  /\ UNCHANGED <<usbp, hwVars, request, count, hostAddress, hostConfig>>

-----------------------------------------------------------------------------
Next ==
  \/ ServeInterrupt
  \/ BusReset
  \/ \E req \in Requests : HostSetup(req)
  \/ HostIn
  \/ HostOut
  \/ HostStalled

Spec == Init /\ [][Next]_vars

(* Interrupts are served, and a host carries on with what it began.        *)
FairSpec ==
  /\ Spec
  /\ WF_vars(ServeInterrupt)
  /\ WF_vars(HostIn)
  /\ WF_vars(HostOut)
  /\ WF_vars(HostStalled)

-----------------------------------------------------------------------------
(* Properties.                                                             *)

(* The type invariant.                                                     *)
TypeOK ==
  /\ usbp \in [state : {"READY", "SELECTED", "ACTIVE"}, address : {0, 1},
               configuration : {0, 1}, ep0state : Ep0States, ep0n : 0..MaxLength,
               setup : Requests \union {NoRequest}, transmitting : BOOLEAN,
               receiving : BOOLEAN, txtot : 0..MaxLength, rxtot : 0..MaxLength,
               rxcnt : 0..MaxPacket, inen : BOOLEAN, outen : BOOLEAN,
               stalled : BOOLEAN, panic : BOOLEAN]
  /\ Len(fifo) <= 4
  /\ setup_buf \in Requests \union {NoRequest}
  /\ {stup, xfrcOut, xfrcIn} \subseteq BOOLEAN
  /\ stage \in {"idle", "data_in", "data_out", "status_in", "status_out"}
  /\ request \in Requests \union {NoRequest}
  /\ count \in 0..MaxLength
  /\ {hostAddress, hostConfig} \subseteq {0, 1}

(* No assertion of the driver fails: endpoint 0 is never started twice in  *)
(* one direction, and no completion meets a state that cannot expect it,   *)
(* however late the interrupts are served.                                 *)
NoPanic == ~usbp.panic

(* Nothing waits to be served.                                             *)
Quiet == fifo = <<>> /\ ~stup /\ ~xfrcOut /\ ~xfrcIn

(***************************************************************************)
(* Once the interrupts are served the driver waits for what the host will  *)
(* do next: they agree, for every length and every size of an answer, on   *)
(* where the data end and when the status comes.                           *)
(***************************************************************************)
StagesAgree ==
  Quiet =>
    \/ stage = "idle" /\ usbp.ep0state \in {"STP_WAITING", "ERROR"}
    \/ usbp.ep0state = "ERROR" /\ usbp.stalled
    \/ stage = "data_in" /\ usbp.ep0state \in {"IN_TX", "IN_WAITING_TX0"} /\ usbp.inen
    \/ stage = "data_out" /\ usbp.ep0state = "OUT_RX" /\ usbp.outen
    \/ stage = "status_in" /\ usbp.ep0state = "IN_SENDING_STS" /\ usbp.inen
    \/ stage = "status_out" /\ usbp.ep0state = "OUT_WAITING_STS" /\ usbp.outen

(* Driver, controller and host agree on the transfer under way.            *)
ControlConsistent == TypeOK /\ StagesAgree

(* A device the host has left idle is in the configuration and at the      *)
(* address the host believes, and active exactly when it is configured.    *)
ViewsAgree ==
  Quiet /\ stage = "idle" =>
    /\ usbp.address = hostAddress
    /\ usbp.configuration = hostConfig
    /\ usbp.state = "ACTIVE" <=> usbp.configuration # 0

(* A control transfer that the host carries on with comes to its end.      *)
TransfersEnd == stage # "idle" ~> stage = "idle"
=============================================================================
