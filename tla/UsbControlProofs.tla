-------------------------- MODULE UsbControlProofs --------------------------
(***************************************************************************)
(* Safety of the control transfers for every packet size, every answer and *)
(* every length of a request, with a host that ends what it begins.        *)
(*                                                                         *)
(* The invariant is the list of the phases a transfer goes through, the    *)
(* ones in which an interrupt is still to be served included.              *)
(***************************************************************************)
EXTENDS UsbControl, Integers, SequenceTheorems, TLAPS

Driver ==
  [state : {"READY", "SELECTED", "ACTIVE"}, address : {0, 1},
   configuration : {0, 1}, ep0state : Ep0States, ep0n : 0..MaxLength,
   setup : Requests \union {NoRequest}, transmitting : BOOLEAN,
   receiving : BOOLEAN, txtot : 0..MaxLength, rxtot : 0..MaxLength,
   rxcnt : 0..MaxPacket, inen : BOOLEAN, outen : BOOLEAN,
   stalled : BOOLEAN, panic : BOOLEAN]

(* The words of the receive FIFO.                                          *)
SetupData(r) == [word |-> "SETUP_DATA", req |-> r]

SetupComp == [word |-> "SETUP_COMP"]

OutData(n) == [word |-> "OUT_DATA", n |-> n]

OutComp == [word |-> "OUT_COMP"]

(* What the driver does on endpoint 0.                                     *)
Resting == /\ usbp.ep0state \in {"STP_WAITING", "ERROR"}
           /\ ~usbp.transmitting /\ ~usbp.receiving

SendingStatus == /\ usbp.ep0state = "IN_SENDING_STS" /\ usbp.txtot = 0
                 /\ usbp.transmitting /\ ~usbp.receiving

AwaitingStatus == /\ usbp.ep0state = "OUT_WAITING_STS" /\ usbp.rxtot = 0 /\ usbp.rxcnt = 0
                  /\ ~usbp.transmitting /\ usbp.receiving

(* The host knows the address and the configuration of the device.         *)
Seen == usbp.address = hostAddress /\ usbp.configuration = hostConfig

(* It will once it has the status of its request.                          *)
Acted ==
  /\ usbp.address = IF request.kind = "set_address" THEN request.value ELSE hostAddress
  /\ usbp.configuration = IF request.kind = "set_configuration" THEN request.value
                                                               ELSE hostConfig

(***************************************************************************)
(* The last transfer may still have to be ended by an interrupt.  w is     *)
(* what the FIFO holds, ow the same behind the status packet of the host.  *)
(***************************************************************************)
LastEnding(w, ow) ==
  \/ fifo = w /\ ~xfrcOut /\ ~xfrcIn /\ Resting
  \/ fifo = w /\ ~xfrcOut /\ xfrcIn /\ SendingStatus
  \/ fifo = ow /\ ~xfrcOut /\ ~xfrcIn /\ AwaitingStatus
  \/ fifo = w /\ xfrcOut /\ ~xfrcIn /\ AwaitingStatus

(* The phases.                                                             *)
Over ==
  /\ stage = "idle"
  /\ ~stup
  /\ LastEnding(<<>>, <<OutComp>>)
  /\ Seen

Asking ==
  /\ stage = (IF request.wLength = 0 THEN "status_in"
              ELSE IF request.dir = "in" THEN "data_in" ELSE "data_out")
  /\ request \in Requests
  /\ count = 0
  /\ ~usbp.inen /\ ~usbp.outen /\ ~usbp.stalled
  /\ request.kind = "set_address" => hostConfig = 0
  /\ Seen

Asked ==
  /\ Asking
  /\ \/ /\ ~stup
        /\ LastEnding(<<SetupData(request), SetupComp>>,
                      <<OutComp, SetupData(request), SetupComp>>)
     \/ /\ fifo = <<SetupComp>> /\ ~stup
        /\ setup_buf = request /\ Resting /\ ~xfrcOut /\ ~xfrcIn
     \/ /\ fifo = <<>> /\ stup
        /\ setup_buf = request /\ Resting /\ ~xfrcOut /\ ~xfrcIn

Refused ==
  /\ stage \in {"data_in", "data_out", "status_in"}
  /\ usbp.ep0state = "ERROR" /\ usbp.stalled /\ Resting
  /\ fifo = <<>> /\ ~stup /\ ~xfrcOut /\ ~xfrcIn
  /\ Seen

(* Data to the host: ready, a packet just sent, or the last one of size 0. *)
Sending ==
  /\ stage = "data_in"
  /\ fifo = <<>> /\ ~stup /\ ~xfrcOut
  /\ usbp.transmitting /\ ~usbp.receiving /\ ~usbp.outen /\ ~usbp.stalled
  /\ Seen
  /\ usbp.setup = request /\ request \in Requests /\ request.kind = "get"
  /\ usbp.ep0n <= request.wLength
  /\ \/ /\ usbp.ep0state = "IN_TX" /\ usbp.inen /\ ~xfrcIn
        /\ usbp.txtot >= 1 /\ count + usbp.txtot = usbp.ep0n
        /\ count % MaxPacket = 0 /\ count < request.wLength
     \/ /\ usbp.ep0state = "IN_TX" /\ ~usbp.inen /\ xfrcIn
        /\ usbp.txtot >= MaxPacket /\ count + usbp.txtot = usbp.ep0n + MaxPacket
        /\ count % MaxPacket = 0 /\ count < request.wLength
     \/ /\ usbp.ep0state = "IN_WAITING_TX0" /\ usbp.inen /\ ~xfrcIn
        /\ usbp.txtot = 0 /\ count = usbp.ep0n

(* The host has all data, the driver will hear of it.                      *)
Sent ==
  /\ stage = "status_out"
  /\ fifo = <<>> /\ ~stup /\ ~xfrcOut /\ xfrcIn
  /\ usbp.transmitting /\ ~usbp.receiving /\ ~usbp.outen /\ ~usbp.stalled
  /\ usbp.txtot <= MaxPacket
  /\ \/ usbp.ep0state = "IN_TX" /\ ~ZeroPacketDue(usbp)
     \/ usbp.ep0state = "IN_WAITING_TX0"
  /\ request.kind = "get"
  /\ Seen

Acknowledged ==
  /\ stage = "status_out"
  /\ fifo = <<>> /\ ~stup /\ ~xfrcOut /\ ~xfrcIn
  /\ AwaitingStatus /\ usbp.outen /\ ~usbp.stalled
  /\ request.kind = "get"
  /\ Seen

(* Data from the host: expected, or n bytes of it on their way.            *)
Receiving ==
  /\ usbp.ep0state = "OUT_RX"
  /\ ~usbp.transmitting /\ usbp.receiving /\ ~usbp.inen /\ ~usbp.stalled
  /\ ~stup /\ ~xfrcIn
  /\ Seen
  /\ request \in Requests /\ request.kind = "set_line_coding"
  /\ \/ /\ stage = "data_out" /\ fifo = <<>> /\ ~xfrcOut /\ usbp.outen
        /\ usbp.rxcnt = 0 /\ count < request.wLength
        /\ usbp.rxtot + count = request.wLength
     \/ /\ ~usbp.outen
        /\ \E n \in 1..MaxPacket :
             /\ usbp.rxtot + count = request.wLength + n
             /\ \/ stage = "data_out" /\ n = MaxPacket /\ count < request.wLength
                \/ stage = "status_in" /\ count = request.wLength
             /\ \/ fifo = <<OutData(n), OutComp>> /\ usbp.rxcnt = 0 /\ ~xfrcOut
                \/ fifo = <<OutComp>> /\ usbp.rxcnt = n /\ ~xfrcOut
                \/ fifo = <<>> /\ usbp.rxcnt = n /\ xfrcOut

Confirming ==
  /\ stage = "status_in"
  /\ fifo = <<>> /\ ~stup /\ ~xfrcOut /\ ~xfrcIn
  /\ SendingStatus /\ usbp.inen /\ ~usbp.stalled
  /\ request \in Requests
  /\ Acted

Typed ==
  /\ usbp \in Driver
  /\ setup_buf \in Requests \union {NoRequest}
  /\ request \in Requests \union {NoRequest}
  /\ count \in 0..MaxLength
  /\ hostAddress \in {0, 1} /\ hostConfig \in {0, 1}

ActiveIffConfigured == usbp.state = "ACTIVE" <=> usbp.configuration # 0

Phases ==
  Over \/ Asked \/ Refused \/ Sending \/ Sent \/ Acknowledged \/ Receiving \/ Confirming

PInv == Typed /\ ~usbp.panic /\ ActiveIffConfigured /\ Phases

-----------------------------------------------------------------------------
(* Arithmetic.                                                             *)

(* The remainder of a number is unique.                                    *)
LEMMA RemainderUnique ==
  ASSUME NEW m \in Nat \ {0}, NEW a \in Int, NEW b \in Int,
         NEW r \in 0..(m - 1), NEW n \in 0..(m - 1), m * a + r = m * b + n
  PROVE  r = n
<1>1. m * (a - b) = n - r
  OBVIOUS
<1>2. CASE a - b >= 1
  <2>1. m * (a - b) >= m
    BY <1>2
  <2> QED
    BY <2>1, <1>1
<1>3. CASE a - b <= -1
  <2>1. m * (a - b) <= -m
    BY <1>3
  <2> QED
    BY <2>1, <1>1
<1>4. CASE a = b
  BY <1>4
<1>5. \/ a - b >= 1 \/ a - b <= -1 \/ a = b
  OBVIOUS
<1> QED
  BY <1>2, <1>3, <1>4, <1>5, Zenon

(* Whole packets, and a short one behind whole packets.                    *)
LEMMA PacketFacts ==
  /\ MaxPacket \in Nat \ {0}
  /\ MaxPacket % MaxPacket = 0 /\ 0 % MaxPacket = 0
  /\ \A c \in Nat : (c + MaxPacket) % MaxPacket = c % MaxPacket
  /\ \A c \in Nat : \A n \in 1..(MaxPacket - 1) :
       c % MaxPacket = 0 => (c + n) % MaxPacket # 0
<1>1. MaxPacket \in Nat \ {0}
  BY SizesAssumption
<1>2. MaxPacket % MaxPacket = 0 /\ 0 % MaxPacket = 0
  BY <1>1
<1>3. ASSUME NEW c \in Nat
      PROVE  (c + MaxPacket) % MaxPacket = c % MaxPacket
  <2> DEFINE m == MaxPacket
             b == c \div m
             n == c % m
             a == (c + m) \div m
             r == (c + m) % m
  <2>1. m \in Nat \ {0}
    BY <1>1
  <2>2. c = m * b + n /\ n \in 0..(m - 1) /\ b \in Int
    BY <2>1
  <2>3. c + m = m * a + r /\ r \in 0..(m - 1) /\ a \in Int
    BY <2>1
  <2> HIDE DEF a, b, n, r, m
  <2>4. m * a + r = m * (b + 1) + n /\ b + 1 \in Int
    BY <2>1, <2>2, <2>3
  <2>5. r = n
    BY <2>1, <2>2, <2>3, <2>4, RemainderUnique
  <2> QED
    BY <2>5 DEF r, n, m
<1>4. ASSUME NEW c \in Nat, NEW n \in 1..(MaxPacket - 1), c % MaxPacket = 0
      PROVE  (c + n) % MaxPacket # 0
  <2> DEFINE m == MaxPacket
             b == c \div m
             a == (c + n) \div m
             r == (c + n) % m
  <2>1. m \in Nat \ {0} /\ n \in 0..(m - 1) /\ n # 0
    BY <1>1
  <2>2. c = m * b + (c % m) /\ b \in Int
    BY <2>1
  <2>3. c + n = m * a + r /\ r \in 0..(m - 1) /\ a \in Int
    BY <2>1
  <2> HIDE DEF a, b, r, m
  <2>4. c % m = 0
    BY <1>4 DEF m
  <2>5. m * b \in Int /\ m * a \in Int
    BY <2>1, <2>2, <2>3
  <2>6. m * a + r = m * b + n
    BY <2>1, <2>2, <2>3, <2>4, <2>5
  <2>7. r = n
    BY <2>1, <2>2, <2>3, <2>6, RemainderUnique
  <2> QED
    BY <2>1, <2>7 DEF r, m
<1> QED
  BY <1>1, <1>2, <1>3, <1>4

(* The requests.                                                           *)
LEMMA RequestFacts ==
  ASSUME NEW r \in Requests
  PROVE  /\ r.wLength \in 0..MaxLength
         /\ r.kind \in {"get", "no_data", "set_address", "set_configuration",
                        "set_line_coding", "unknown"}
         /\ r.kind = "get" => r.dir = "in" /\ r.wLength >= 1 /\ r.value \in Nat \ {0}
         /\ r.kind = "set_line_coding" => r.dir = "out" /\ r.wLength = LineCoding
         /\ r.kind \in {"no_data", "set_address", "set_configuration"}
              => r.dir = "out" /\ r.wLength = 0 /\ r.value \in {0, 1}
         /\ LineCoding \in 1..MaxLength /\ MaxLength \in Nat
<1>1. LineCoding \in 1..MaxLength /\ MaxLength \in Nat /\ Answers \subseteq Nat \ {0}
  BY SizesAssumption
<1>2. CASE r \in [dir : {"in"}, wLength : 1..MaxLength, kind : {"get"}, value : Answers]
  <2>1. r.dir = "in" /\ r.kind = "get" /\ r.wLength \in 1..MaxLength /\ r.value \in Answers
    BY <1>2
  <2>2. r.wLength \in 0..MaxLength /\ r.wLength >= 1
    BY <1>1, <2>1
  <2>3. r.value \in Nat \ {0}
    BY <1>1, <2>1, Zenon
  <2> QED
    BY <1>1, <2>1, <2>2, <2>3
<1>3. CASE r \in [dir : {"out"}, wLength : {0}, kind : {"no_data"}, value : {0}]
  BY <1>1, <1>3
<1>4. CASE r \in [dir : {"out"}, wLength : {0}, kind : {"set_address"}, value : {1}]
  BY <1>1, <1>4
<1>5. CASE r \in [dir : {"out"}, wLength : {0}, kind : {"set_configuration"}, value : {0, 1}]
  BY <1>1, <1>5
<1>6. CASE r \in [dir : {"out"}, wLength : {LineCoding}, kind : {"set_line_coding"}, value : {0}]
  BY <1>1, <1>6
<1>7. CASE r \in [dir : {"in"}, wLength : {MaxLength}, kind : {"unknown"}, value : {0}]
  BY <1>1, <1>7
<1>8. CASE r \in [dir : {"out"}, wLength : {0, LineCoding}, kind : {"unknown"}, value : {0}]
  BY <1>1, <1>8
<1> QED
  BY <1>2, <1>3, <1>4, <1>5, <1>6, <1>7, <1>8, Zenon DEF Requests

-----------------------------------------------------------------------------
(* The driver's functions, in the states in which they are called.         *)

LEMMA InStatusEnds ==
  ASSUME NEW d \in Driver, d.ep0state = "IN_SENDING_STS", d.txtot = 0
  PROVE  OtgEpinHandler(d) = [d EXCEPT !.transmitting = FALSE, !.ep0state = "STP_WAITING"]
<1> DEFINE e == [d EXCEPT !.transmitting = FALSE]
<1>1. OtgEpinHandler(d) = UsbEp0In(e)
  BY PacketFacts DEF OtgEpinHandler, Driver
<1>2. e.ep0state = "IN_SENDING_STS"
  BY DEF Driver
<1>3. e \in Driver
  BY DEF Driver
<1> HIDE DEF e
<1>4. UsbEp0In(e) = [e EXCEPT !.ep0state = "STP_WAITING"]
  BY <1>2 DEF UsbEp0In, OutStates
<1> QED
  BY <1>1, <1>4 DEF e, Driver

LEMMA InContinues ==
  ASSUME NEW d \in Driver, d.txtot > MaxPacket
  PROVE  OtgEpinHandler(d) = [d EXCEPT !.txtot = d.txtot - MaxPacket, !.inen = TRUE]
BY PacketFacts DEF OtgEpinHandler, StartIn, Driver

LEMMA InEndsWithZero ==
  ASSUME NEW d \in Driver, ~d.panic, d.ep0state = "IN_TX", d.txtot <= MaxPacket, ZeroPacketDue(d)
  PROVE  OtgEpinHandler(d) = [d EXCEPT !.transmitting = TRUE, !.txtot = 0, !.inen = TRUE,
                                       !.ep0state = "IN_WAITING_TX0"]
<1> DEFINE e == [d EXCEPT !.transmitting = FALSE]
<1>1. OtgEpinHandler(d) = UsbEp0In(e)
  BY PacketFacts DEF OtgEpinHandler, Driver
<1>2. e.ep0state = "IN_TX" /\ ~e.panic /\ ~e.transmitting /\ e.panic \in BOOLEAN
  BY DEF Driver
<1>3. ZeroPacketDue(e)
  BY DEF Driver, ZeroPacketDue
<1>4. e \in Driver
  BY DEF Driver
<1> HIDE DEF e
<1>5. UsbEp0In(e) = [UsbStartTransmitI(e, 0) EXCEPT !.ep0state = "IN_WAITING_TX0"]
  BY <1>2, <1>3 DEF UsbEp0In, OutStates
<1>6. UsbStartTransmitI(e, 0) = [e EXCEPT !.transmitting = TRUE, !.txtot = 0, !.inen = TRUE]
  BY <1>2, <1>4 DEF UsbStartTransmitI, StartIn, Driver
<1> QED
  BY <1>1, <1>5, <1>6 DEF e, Driver

LEMMA InEnds ==
  ASSUME NEW d \in Driver, ~d.panic, ~d.receiving, d.txtot <= MaxPacket,
         (d.ep0state = "IN_TX" /\ ~ZeroPacketDue(d)) \/ d.ep0state = "IN_WAITING_TX0"
  PROVE  OtgEpinHandler(d) = [d EXCEPT !.transmitting = FALSE, !.receiving = TRUE,
                                       !.ep0state = "OUT_WAITING_STS", !.rxtot = 0,
                                       !.rxcnt = 0, !.outen = TRUE]
<1> DEFINE e == [d EXCEPT !.transmitting = FALSE]
           f == [e EXCEPT !.ep0state = "OUT_WAITING_STS"]
<1>1. OtgEpinHandler(d) = UsbEp0In(e)
  BY PacketFacts DEF OtgEpinHandler, Driver
<1>2. e.ep0state = d.ep0state /\ (ZeroPacketDue(e) <=> ZeroPacketDue(d))
  BY DEF Driver, ZeroPacketDue
<1>3. f \in Driver /\ ~f.panic /\ ~f.receiving
  BY DEF Driver, Ep0States
<1>4. UsbEp0In(e) = UsbStartReceiveI(f, 0)
  <2> HIDE DEF e
  <2> QED
    BY <1>2 DEF UsbEp0In, OutStates
<1>5. UsbStartReceiveI(f, 0) = [f EXCEPT !.receiving = TRUE, !.rxtot = 0, !.rxcnt = 0, !.outen = TRUE]
  <2> HIDE DEF f
  <2> QED
    BY <1>3 DEF UsbStartReceiveI, StartOut, Driver
<1> QED
  BY <1>1, <1>4, <1>5 DEF Driver

LEMMA OutStatusEnds ==
  ASSUME NEW d \in Driver, d.ep0state = "OUT_WAITING_STS", d.rxtot = 0, d.rxcnt = 0
  PROVE  OtgEpoutHandlerXfrc(d) = [d EXCEPT !.receiving = FALSE, !.ep0state = "STP_WAITING"]
<1> DEFINE e == [d EXCEPT !.receiving = FALSE]
<1>1. OtgEpoutHandlerXfrc(d) = UsbEp0Out(e)
  BY PacketFacts DEF OtgEpoutHandlerXfrc, Driver
<1>2. e.ep0state = "OUT_WAITING_STS" /\ e.rxcnt = 0
  BY DEF Driver
<1>3. UsbEp0Out(e) = [e EXCEPT !.ep0state = "STP_WAITING"]
  <2> HIDE DEF e
  <2> QED
    BY <1>2 DEF UsbEp0Out, InStates
<1> QED
  BY <1>1, <1>3 DEF Driver

LEMMA OutContinues ==
  ASSUME NEW d \in Driver, d.rxcnt = MaxPacket, d.rxtot > MaxPacket
  PROVE  OtgEpoutHandlerXfrc(d) = [d EXCEPT !.rxtot = d.rxtot - MaxPacket, !.rxcnt = 0,
                                            !.outen = TRUE]
BY PacketFacts DEF OtgEpoutHandlerXfrc, StartOut, Driver

LEMMA OutEnds ==
  ASSUME NEW d \in Driver, ~d.panic, ~d.transmitting, d.ep0state = "OUT_RX",
         d.rxtot <= MaxPacket
  PROVE  OtgEpoutHandlerXfrc(d) = [d EXCEPT !.receiving = FALSE, !.ep0state = "IN_SENDING_STS",
                                            !.transmitting = TRUE, !.txtot = 0, !.inen = TRUE]
<1> DEFINE e == [d EXCEPT !.receiving = FALSE]
           f == [e EXCEPT !.ep0state = "IN_SENDING_STS"]
<1>1. OtgEpoutHandlerXfrc(d) = UsbEp0Out(e)
  BY PacketFacts DEF OtgEpoutHandlerXfrc, Driver
<1>2. e.ep0state = "OUT_RX"
  BY DEF Driver
<1>3. f \in Driver /\ ~f.panic /\ ~f.transmitting
  BY DEF Driver, Ep0States
<1>4. UsbEp0Out(e) = UsbStartTransmitI(f, 0)
  <2> HIDE DEF e
  <2> QED
    BY <1>2 DEF UsbEp0Out, InStates
<1>5. UsbStartTransmitI(f, 0) = [f EXCEPT !.transmitting = TRUE, !.txtot = 0, !.inen = TRUE]
  <2> HIDE DEF f
  <2> QED
    BY <1>3 DEF UsbStartTransmitI, StartIn, Driver
<1> QED
  BY <1>1, <1>4, <1>5 DEF Driver

(* _usb_ep0setup with endpoint 0 at rest.                                  *)
LEMMA SetupGet ==
  ASSUME NEW d \in Driver, ~d.panic, ~d.transmitting, NEW r \in Requests, r.kind = "get"
  PROVE  \E n \in 1..r.wLength :
           UsbEp0Setup(d, r) = [d EXCEPT !.setup = r, !.ep0n = n, !.ep0state = "IN_TX",
                                         !.transmitting = TRUE, !.txtot = n, !.inen = TRUE]
<1> DEFINE n == Lesser(r.value, r.wLength)
           f == [d EXCEPT !.setup = r, !.ep0n = n]
           g == [f EXCEPT !.ep0state = "IN_TX"]
<1>1. r.dir = "in" /\ r.wLength \in 0..MaxLength /\ r.wLength >= 1 /\ r.value \in Nat \ {0}
  BY RequestFacts
<1>2. n \in 1..r.wLength /\ n \in 0..MaxLength /\ n # 0
  BY <1>1, RequestFacts DEF Lesser
<1>3. Answer(r) = r.value
  BY DEF Answer
<1>4. Handled(d, r) = d
  BY DEF Handled
<1> HIDE DEF n
<1>5. f \in Driver /\ f.ep0n = n
  BY <1>2 DEF Driver
<1>6. g \in Driver /\ ~g.panic /\ ~g.transmitting
  BY <1>2 DEF Driver, Ep0States
<1>7. UsbEp0Setup(d, r) = UsbStartTransmitI(g, n)
  <2>1. [Handled(d, r) EXCEPT !.setup = r, !.ep0n = Lesser(Answer(r), r.wLength)] = f
    BY <1>3, <1>4 DEF n
  <2> HIDE DEF f
  <2> QED
    BY <2>1, <1>1, <1>2, <1>5 DEF UsbEp0Setup
<1>8. UsbStartTransmitI(g, n) = [g EXCEPT !.transmitting = TRUE, !.txtot = n, !.inen = TRUE]
  <2> HIDE DEF g
  <2> QED
    BY <1>6 DEF UsbStartTransmitI, StartIn, Driver
<1>9. UsbEp0Setup(d, r) = [d EXCEPT !.setup = r, !.ep0n = n, !.ep0state = "IN_TX",
                                    !.transmitting = TRUE, !.txtot = n, !.inen = TRUE]
  BY <1>7, <1>8 DEF Driver
<1> QED
  BY <1>2, <1>9, Zenon

LEMMA SetupLineCoding ==
  ASSUME NEW d \in Driver, ~d.panic, ~d.receiving, NEW r \in Requests,
         r.kind = "set_line_coding"
  PROVE  UsbEp0Setup(d, r) = [d EXCEPT !.setup = r, !.ep0n = LineCoding, !.ep0state = "OUT_RX",
                                       !.receiving = TRUE, !.rxtot = LineCoding,
                                       !.rxcnt = 0, !.outen = TRUE]
<1> DEFINE f == [d EXCEPT !.setup = r, !.ep0n = LineCoding]
           g == [f EXCEPT !.ep0state = "OUT_RX"]
<1>1. r.dir = "out" /\ r.wLength = LineCoding /\ LineCoding \in 0..MaxLength /\ LineCoding # 0
  BY RequestFacts
<1>2. Lesser(Answer(r), r.wLength) = LineCoding
  BY <1>1 DEF Answer, Lesser
<1>3. Handled(d, r) = d
  BY DEF Handled
<1>4. f \in Driver /\ f.ep0n = LineCoding
  BY <1>1 DEF Driver
<1>5. g \in Driver /\ ~g.panic /\ ~g.receiving
  <2>1. ~f.panic /\ ~f.receiving
    BY DEF Driver
  <2> HIDE DEF f
  <2> QED
    BY <2>1, <1>4 DEF Driver, Ep0States
<1>6. UsbEp0Setup(d, r) = UsbStartReceiveI(g, LineCoding)
  <2>1. [Handled(d, r) EXCEPT !.setup = r, !.ep0n = Lesser(Answer(r), r.wLength)] = f
    BY <1>2, <1>3
  <2> HIDE DEF f
  <2> QED
    BY <2>1, <1>1, <1>4 DEF UsbEp0Setup
<1>7. UsbStartReceiveI(g, LineCoding)
        = [g EXCEPT !.receiving = TRUE, !.rxtot = LineCoding, !.rxcnt = 0, !.outen = TRUE]
  <2> HIDE DEF g
  <2> QED
    BY <1>5 DEF UsbStartReceiveI, StartOut, Driver
<1> QED
  BY <1>6, <1>7 DEF Driver

LEMMA SetupUnknown ==
  ASSUME NEW d \in Driver, NEW r \in Requests, r.kind = "unknown"
  PROVE  UsbEp0Setup(d, r) = [d EXCEPT !.setup = r, !.stalled = TRUE, !.ep0state = "ERROR"]
BY DEF UsbEp0Setup, Stall, Driver

(* Handled changes the state, the address and the configuration alone.     *)
LEMMA HandledFacts ==
  ASSUME NEW d \in Driver, NEW r \in Requests,
         r.kind \in {"no_data", "set_address", "set_configuration"},
         d.state = "ACTIVE" <=> d.configuration # 0,
         r.kind = "set_address" => d.configuration = 0
  PROVE  \E st \in {"READY", "SELECTED", "ACTIVE"}, a \in {0, 1}, c \in {0, 1} :
           /\ Handled(d, r) = [d EXCEPT !.state = st, !.address = a, !.configuration = c]
           /\ st = "ACTIVE" <=> c # 0
           /\ a = IF r.kind = "set_address" THEN r.value ELSE d.address
           /\ c = IF r.kind = "set_configuration" THEN r.value ELSE d.configuration
<1>1. r.value \in {0, 1}
  BY RequestFacts
<1>2. CASE r.kind = "no_data"
  <2>1. Handled(d, r) = [d EXCEPT !.state = d.state, !.address = d.address,
                                  !.configuration = d.configuration]
    BY <1>2 DEF Handled, Driver
  <2> QED
    BY <1>2, <2>1 DEF Driver
<1>3. CASE r.kind = "set_address"
  <2>1. Handled(d, r) = [d EXCEPT !.state = "SELECTED", !.address = r.value,
                                  !.configuration = d.configuration]
    BY <1>3 DEF Handled, Driver
  <2> QED
    BY <1>1, <1>3, <2>1 DEF Driver
<1>4. CASE r.kind = "set_configuration" /\ r.value # 0
  <2>1. Handled(d, r) = [d EXCEPT !.state = "ACTIVE", !.address = d.address,
                                  !.configuration = r.value]
    BY <1>4 DEF Handled, Driver
  <2> QED
    BY <1>1, <1>4, <2>1 DEF Driver
<1>5. CASE r.kind = "set_configuration" /\ r.value = 0 /\ d.state = "ACTIVE"
  <2>1. Handled(d, r) = [d EXCEPT !.state = "SELECTED", !.address = d.address,
                                  !.configuration = 0]
    BY <1>5 DEF Handled, Driver
  <2> QED
    BY <1>1, <1>5, <2>1 DEF Driver
<1>6. CASE r.kind = "set_configuration" /\ r.value = 0 /\ d.state # "ACTIVE"
  <2>1. Handled(d, r) = [d EXCEPT !.state = d.state, !.address = d.address,
                                  !.configuration = 0]
    BY <1>6 DEF Handled, Driver
  <2> QED
    BY <1>1, <1>6, <2>1 DEF Driver
<1> QED
  BY <1>2, <1>3, <1>4, <1>5, <1>6

LEMMA SetupNoData ==
  ASSUME NEW d \in Driver, ~d.panic, ~d.transmitting, NEW r \in Requests,
         r.kind \in {"no_data", "set_address", "set_configuration"},
         d.state = "ACTIVE" <=> d.configuration # 0,
         r.kind = "set_address" => d.configuration = 0
  PROVE  \E st \in {"READY", "SELECTED", "ACTIVE"}, a \in {0, 1}, c \in {0, 1} :
           /\ UsbEp0Setup(d, r)
                = [d EXCEPT !.state = st, !.address = a, !.configuration = c, !.setup = r,
                            !.ep0n = 0, !.ep0state = "IN_SENDING_STS", !.transmitting = TRUE,
                            !.txtot = 0, !.inen = TRUE]
           /\ st = "ACTIVE" <=> c # 0
           /\ a = IF r.kind = "set_address" THEN r.value ELSE d.address
           /\ c = IF r.kind = "set_configuration" THEN r.value ELSE d.configuration
<1>1. PICK st \in {"READY", "SELECTED", "ACTIVE"}, a \in {0, 1}, c \in {0, 1} :
        /\ Handled(d, r) = [d EXCEPT !.state = st, !.address = a, !.configuration = c]
        /\ st = "ACTIVE" <=> c # 0
        /\ a = IF r.kind = "set_address" THEN r.value ELSE d.address
        /\ c = IF r.kind = "set_configuration" THEN r.value ELSE d.configuration
  BY HandledFacts
<1> DEFINE h == [d EXCEPT !.state = st, !.address = a, !.configuration = c]
           f == [h EXCEPT !.setup = r, !.ep0n = 0]
           g == [f EXCEPT !.ep0state = "IN_SENDING_STS"]
<1>2. r.dir = "out" /\ r.wLength = 0 /\ MaxLength \in Nat
  BY RequestFacts
<1>3. Lesser(Answer(r), r.wLength) = 0
  BY <1>2 DEF Answer, Lesser
<1>4. f \in Driver /\ f.ep0n = 0
  <2>1. h \in Driver
    BY DEF Driver
  <2>2. 0 \in 0..MaxLength
    BY <1>2
  <2> HIDE DEF h
  <2> QED
    BY <2>1, <2>2 DEF Driver
<1>5. g \in Driver /\ ~g.panic /\ ~g.transmitting
  <2>1. ~f.panic /\ ~f.transmitting
    BY DEF Driver
  <2> HIDE DEF f
  <2> QED
    BY <2>1, <1>4 DEF Driver, Ep0States
<1>6. UsbEp0Setup(d, r) = UsbStartTransmitI(g, 0)
  <2>1. [Handled(d, r) EXCEPT !.setup = r, !.ep0n = Lesser(Answer(r), r.wLength)] = f
    BY <1>1, <1>3
  <2> HIDE DEF f
  <2> QED
    BY <2>1, <1>2, <1>4 DEF UsbEp0Setup
<1>7. UsbStartTransmitI(g, 0) = [g EXCEPT !.transmitting = TRUE, !.txtot = 0, !.inen = TRUE]
  <2> HIDE DEF g
  <2> QED
    BY <1>5 DEF UsbStartTransmitI, StartIn, Driver
<1>8. UsbEp0Setup(d, r)
        = [d EXCEPT !.state = st, !.address = a, !.configuration = c, !.setup = r,
                    !.ep0n = 0, !.ep0state = "IN_SENDING_STS", !.transmitting = TRUE,
                    !.txtot = 0, !.inen = TRUE]
  BY <1>6, <1>7 DEF Driver
<1> QED
  BY <1>1, <1>8, Zenon

-----------------------------------------------------------------------------
(* One interrupt.                                                          *)

(* What the endpoint handlers make of the driver, by the flags raised.     *)
Served(d, buf) ==
  LET d1 == IF stup THEN UsbEp0Setup(d, buf) ELSE d
      d2 == IF xfrcOut THEN OtgEpoutHandlerXfrc(d1) ELSE d1
  IN  IF xfrcIn THEN OtgEpinHandler(d2) ELSE d2

LEMMA ServeEmpty ==
  ASSUME ServeInterrupt, fifo = <<>>
  PROVE  /\ usbp' = Served(usbp, setup_buf)
         /\ setup_buf' = setup_buf
         /\ fifo' = <<>>
         /\ ~stup' /\ ~xfrcOut' /\ ~xfrcIn'
         /\ UNCHANGED hostVars
<1>1. RxWords = 0 /\ 1..RxWords = {}
  BY DEF RxWords, Lesser
<1>2. fifo' = <<>>
  BY <1>1 DEF ServeInterrupt
<1>3. \A w : ~Popped(w)
  BY <1>1 DEF Popped
<1>4. ~stup' /\ ~xfrcOut' /\ ~xfrcIn'
  BY <1>3, Zenon DEF ServeInterrupt
<1>5. setup_buf' = setup_buf /\ UNCHANGED hostVars
  BY <1>1 DEF ServeInterrupt
<1>6. usbp' = Served(usbp, setup_buf)
  BY <1>1, Zenon DEF ServeInterrupt, Served
<1> QED
  BY <1>2, <1>4, <1>5, <1>6

LEMMA ServeWord ==
  ASSUME ServeInterrupt, NEW S, fifo \in Seq(S), Len(fifo) >= 1
  PROVE  /\ fifo[1].word \notin {"SETUP_DATA", "OUT_DATA"}
              => usbp' = Served(usbp, setup_buf) /\ setup_buf' = setup_buf
         /\ fifo[1].word = "SETUP_DATA"
              => usbp' = Served(usbp, fifo[1].req) /\ setup_buf' = fifo[1].req
         /\ fifo[1].word = "OUT_DATA"
              => /\ usbp' = Served([usbp EXCEPT !.rxcnt = @ + fifo[1].n], setup_buf)
                 /\ setup_buf' = setup_buf
         /\ fifo' = SubSeq(fifo, 2, Len(fifo))
         /\ stup' <=> fifo[1].word = "SETUP_COMP"
         /\ xfrcOut' <=> fifo[1].word = "OUT_COMP"
         /\ ~xfrcIn'
         /\ UNCHANGED hostVars
<1>1. RxWords = 1 /\ 1..RxWords = {1}
  BY DEF RxWords, Lesser
<1>2. fifo' = SubSeq(fifo, 2, Len(fifo)) /\ UNCHANGED hostVars
  BY <1>1 DEF ServeInterrupt
<1>3. \A w : Popped(w) <=> fifo[1].word = w
  BY <1>1 DEF Popped
<1>4. (stup' <=> fifo[1].word = "SETUP_COMP") /\ (xfrcOut' <=> fifo[1].word = "OUT_COMP") /\ ~xfrcIn'
  BY <1>3, Zenon DEF ServeInterrupt
<1> DEFINE datas == {i \in 1..RxWords : fifo[i].word = "SETUP_DATA"}
           outs == {i \in 1..RxWords : fifo[i].word = "OUT_DATA"}
           top == CHOOSE i \in datas : \A j \in datas : j <= i
           some == CHOOSE i \in outs : TRUE
           buf == IF datas = {} THEN setup_buf ELSE fifo[top].req
           d0 == IF outs = {} THEN usbp ELSE [usbp EXCEPT !.rxcnt = @ + fifo[some].n]
<1>5. usbp' = Served(d0, buf) /\ setup_buf' = buf
  BY Zenon DEF ServeInterrupt, Served
<1>6. fifo[1].word = "SETUP_DATA" => datas = {1} /\ outs = {}
  BY <1>1
<1>7. fifo[1].word = "OUT_DATA" => outs = {1} /\ datas = {}
  BY <1>1
<1>8. fifo[1].word \notin {"SETUP_DATA", "OUT_DATA"} => datas = {} /\ outs = {}
  BY <1>1
<1>9. datas = {1} => top = 1
  <2> HIDE DEF datas
  <2> QED
    OBVIOUS
<1>10. outs = {1} => some = 1
  <2> HIDE DEF outs
  <2> QED
    OBVIOUS
<1> HIDE DEF datas, outs, top, some
<1> QED
  BY <1>2, <1>4, <1>5, <1>6, <1>7, <1>8, <1>9, <1>10

(* The words behind the first one.                                         *)
LEMMA Words ==
  ASSUME NEW a, NEW b, NEW c
  PROVE  /\ <<a>> \in Seq({a, b, c}) /\ Len(<<a>>) = 1 /\ <<a>>[1] = a
         /\ SubSeq(<<a>>, 2, 1) = <<>>
         /\ <<a, b>> \in Seq({a, b, c}) /\ Len(<<a, b>>) = 2 /\ <<a, b>>[1] = a
         /\ SubSeq(<<a, b>>, 2, 2) = <<b>>
         /\ <<a, b, c>> \in Seq({a, b, c}) /\ Len(<<a, b, c>>) = 3 /\ <<a, b, c>>[1] = a
         /\ SubSeq(<<a, b, c>>, 2, 3) = <<b, c>>
<1>1. /\ <<a>> \in Seq({a, b, c}) /\ Len(<<a>>) = 1 /\ <<a>>[1] = a
      /\ <<a, b>> \in Seq({a, b, c}) /\ Len(<<a, b>>) = 2 /\ <<a, b>>[1] = a
      /\ <<a, b, c>> \in Seq({a, b, c}) /\ Len(<<a, b, c>>) = 3 /\ <<a, b, c>>[1] = a
  OBVIOUS
<1>2. SubSeq(<<a>>, 2, 1) = <<>>
  OBVIOUS
<1>3. SubSeq(<<a, b>>, 2, 2) = <<b>>
  <2> DEFINE s == <<a, b>>
  <2>1. s \in Seq({a, b, c}) /\ Len(s) = 2 /\ s[2] = b
    OBVIOUS
  <2> HIDE DEF s
  <2> DEFINE q == SubSeq(s, 2, 2)
             t == <<b>>
  <2>2. q \in Seq({a, b, c}) /\ Len(q) = 1 /\ q[1] = b
    BY <2>1
  <2>3. t \in Seq({a, b, c}) /\ Len(t) = 1 /\ t[1] = b
    OBVIOUS
  <2> HIDE DEF q, t
  <2>4. \A i \in 1..Len(q) : q[i] = t[i]
    BY <2>2, <2>3
  <2>5. q = t
    BY <2>2, <2>3, <2>4, SeqEqual, Zenon
  <2> QED
    BY <2>5 DEF q, s, t
<1>4. SubSeq(<<a, b, c>>, 2, 3) = <<b, c>>
  <2> DEFINE s == <<a, b, c>>
  <2>1. s \in Seq({a, b, c}) /\ Len(s) = 3 /\ s[2] = b /\ s[3] = c
    OBVIOUS
  <2> HIDE DEF s
  <2> DEFINE q == SubSeq(s, 2, 3)
             t == <<b, c>>
  <2>2. q \in Seq({a, b, c}) /\ Len(q) = 2 /\ q[1] = b /\ q[2] = c
    BY <2>1
  <2>3. t \in Seq({a, b, c}) /\ Len(t) = 2 /\ t[1] = b /\ t[2] = c
    OBVIOUS
  <2> HIDE DEF q, t
  <2>4. \A i \in 1..Len(q) : q[i] = t[i]
    BY <2>2, <2>3
  <2>5. q = t
    BY <2>2, <2>3, <2>4, SeqEqual, Zenon
  <2> QED
    BY <2>5 DEF q, s, t
<1> QED
  BY <1>1, <1>2, <1>3, <1>4

LEMMA WordsBehind ==
  ASSUME NEW a, NEW b, NEW c
  PROVE  <<a>> \o <<b, c>> = <<a, b, c>>
<1> DEFINE S == {a, b, c}
           p == <<a>>
           r == <<b, c>>
           t == <<a, b, c>>
<1>1. p \in Seq(S) /\ Len(p) = 1 /\ p[1] = a
  OBVIOUS
<1>2. r \in Seq(S) /\ Len(r) = 2 /\ r[1] = b /\ r[2] = c
  OBVIOUS
<1>3. t \in Seq(S) /\ Len(t) = 3 /\ t[1] = a /\ t[2] = b /\ t[3] = c
  OBVIOUS
<1> HIDE DEF p, r, t, S
<1>4. /\ p \o r \in Seq(S) /\ Len(p \o r) = Len(p) + Len(r)
      /\ \A i \in 1..(Len(p) + Len(r)) :
           (p \o r)[i] = IF i <= Len(p) THEN p[i] ELSE r[i - Len(p)]
  BY <1>1, <1>2, ConcatProperties
<1> DEFINE q == p \o r
<1> HIDE DEF q
<1>5. Len(q) = 3 /\ q[1] = p[1] /\ q[2] = r[1] /\ q[3] = r[2]
  BY <1>1, <1>2, <1>4 DEF q
<1>6. q = t
  <2>1. q \in Seq(S)
    BY <1>4 DEF q
  <2>2. \A i \in 1..Len(q) : q[i] = t[i]
    BY <1>1, <1>2, <1>3, <1>5
  <2> QED
    BY <1>3, <1>5, <2>1, <2>2, SeqEqual
<1> QED
  BY <1>6 DEF p, q, r, t

(* The same by the words that the FIFO holds here.                         *)
LEMMA ServeFirst ==
  ASSUME ServeInterrupt, NEW a, NEW b, NEW c,
         fifo = <<a>> \/ fifo = <<a, b>> \/ fifo = <<a, b, c>>
  PROVE  /\ a.word \notin {"SETUP_DATA", "OUT_DATA"}
              => usbp' = Served(usbp, setup_buf) /\ setup_buf' = setup_buf
         /\ a.word = "SETUP_DATA" => usbp' = Served(usbp, a.req) /\ setup_buf' = a.req
         /\ a.word = "OUT_DATA"
              => /\ usbp' = Served([usbp EXCEPT !.rxcnt = @ + a.n], setup_buf)
                 /\ setup_buf' = setup_buf
         /\ fifo = <<a>> => fifo' = <<>>
         /\ fifo = <<a, b>> => fifo' = <<b>>
         /\ fifo = <<a, b, c>> => fifo' = <<b, c>>
         /\ stup' <=> a.word = "SETUP_COMP"
         /\ xfrcOut' <=> a.word = "OUT_COMP"
         /\ ~xfrcIn'
         /\ UNCHANGED hostVars
<1>1. fifo \in Seq({a, b, c}) /\ Len(fifo) >= 1 /\ fifo[1] = a
  BY Words
<1>2. /\ fifo = <<a>> => SubSeq(fifo, 2, Len(fifo)) = <<>>
      /\ fifo = <<a, b>> => SubSeq(fifo, 2, Len(fifo)) = <<b>>
      /\ fifo = <<a, b, c>> => SubSeq(fifo, 2, Len(fifo)) = <<b, c>>
  <2>1. CASE fifo = <<a>>
    BY <2>1, Words
  <2>2. CASE fifo = <<a, b>>
    BY <2>2, Words
  <2>3. CASE fifo = <<a, b, c>>
    BY <2>3, Words
  <2> QED
    BY <2>1, <2>2, <2>3
<1>3. /\ fifo[1].word \notin {"SETUP_DATA", "OUT_DATA"}
           => usbp' = Served(usbp, setup_buf) /\ setup_buf' = setup_buf
      /\ fifo[1].word = "SETUP_DATA"
           => usbp' = Served(usbp, fifo[1].req) /\ setup_buf' = fifo[1].req
      /\ fifo[1].word = "OUT_DATA"
           => /\ usbp' = Served([usbp EXCEPT !.rxcnt = @ + fifo[1].n], setup_buf)
              /\ setup_buf' = setup_buf
      /\ fifo' = SubSeq(fifo, 2, Len(fifo))
      /\ stup' <=> fifo[1].word = "SETUP_COMP"
      /\ xfrcOut' <=> fifo[1].word = "OUT_COMP"
      /\ ~xfrcIn'
      /\ UNCHANGED hostVars
  BY <1>1, ServeWord, Zenon
<1> QED
  BY <1>1, <1>2, <1>3, Zenon

(* Neither the host nor the device is at another address, and so on.       *)
SameView ==
  /\ usbp'.state = usbp.state
  /\ usbp'.address = usbp.address
  /\ usbp'.configuration = usbp.configuration

SameLine ==
  /\ usbp'.inen = usbp.inen
  /\ usbp'.outen = usbp.outen
  /\ usbp'.stalled = usbp.stalled

(* The interrupt that ends a transfer leaves endpoint 0 at rest.           *)
LEMMA StatusEnds ==
  ASSUME usbp \in Driver, ~usbp.panic,
         \/ SendingStatus /\ usbp' = OtgEpinHandler(usbp)
         \/ AwaitingStatus /\ usbp' = OtgEpoutHandlerXfrc(usbp)
  PROVE  usbp' \in Driver /\ ~usbp'.panic /\ Resting' /\ SameView /\ SameLine
<1>1. CASE SendingStatus /\ usbp' = OtgEpinHandler(usbp)
  <2>1. usbp' = [usbp EXCEPT !.transmitting = FALSE, !.ep0state = "STP_WAITING"]
    BY <1>1, InStatusEnds DEF SendingStatus
  <2>2. ~usbp.receiving
    BY <1>1 DEF SendingStatus
  <2> QED
    BY <2>1, <2>2 DEF Driver, Ep0States, Resting, SameView, SameLine
<1>2. CASE AwaitingStatus /\ usbp' = OtgEpoutHandlerXfrc(usbp)
  <2>1. usbp' = [usbp EXCEPT !.receiving = FALSE, !.ep0state = "STP_WAITING"]
    BY <1>2, OutStatusEnds DEF AwaitingStatus
  <2>2. ~usbp.transmitting
    BY <1>2 DEF AwaitingStatus
  <2> QED
    BY <2>1, <2>2 DEF Driver, Ep0States, Resting, SameView, SameLine
<1> QED
  BY <1>1, <1>2

LEMMA ServeOver ==
  ASSUME PInv, Over, ServeInterrupt
  PROVE  PInv'
<1>1. /\ usbp \in Driver /\ ~usbp.panic /\ ~stup
      /\ fifo # <<>> \/ stup \/ xfrcOut \/ xfrcIn
  BY DEF PInv, Typed, Over, ServeInterrupt
<1>2. CASE fifo = <<>> /\ ~xfrcOut /\ xfrcIn /\ SendingStatus
  <2>1. /\ usbp' = OtgEpinHandler(usbp) /\ setup_buf' = setup_buf /\ fifo' = <<>>
        /\ ~stup' /\ ~xfrcOut' /\ ~xfrcIn' /\ UNCHANGED hostVars
    BY <1>1, <1>2, ServeEmpty DEF Served
  <2>2. usbp' \in Driver /\ ~usbp'.panic /\ Resting' /\ SameView
    BY <1>1, <1>2, <2>1, StatusEnds
  <2>3. Over'
    BY <2>1, <2>2 DEF Over, LastEnding, Seen, SameView, hostVars
  <2> QED
    BY <2>1, <2>2, <2>3 DEF PInv, Typed, ActiveIffConfigured, Phases, SameView, hostVars
<1>3. CASE fifo = <<OutComp>> /\ ~xfrcOut /\ ~xfrcIn /\ AwaitingStatus
  <2>1. /\ usbp' = usbp /\ setup_buf' = setup_buf /\ fifo' = <<>>
        /\ ~stup' /\ xfrcOut' /\ ~xfrcIn' /\ UNCHANGED hostVars
    <3>1. OutComp.word = "OUT_COMP"
      BY DEF OutComp
    <3>2. /\ usbp' = Served(usbp, setup_buf) /\ setup_buf' = setup_buf /\ fifo' = <<>>
          /\ ~stup' /\ xfrcOut' /\ ~xfrcIn' /\ UNCHANGED hostVars
      BY <1>3, <3>1, ServeFirst
    <3> QED
      BY <1>1, <1>3, <3>2 DEF Served
  <2>2. Over'
    BY <1>3, <2>1 DEF Over, LastEnding, Seen, hostVars, AwaitingStatus
  <2> QED
    BY <2>1, <2>2 DEF PInv, Typed, ActiveIffConfigured, Phases, hostVars
<1>4. CASE fifo = <<>> /\ xfrcOut /\ ~xfrcIn /\ AwaitingStatus
  <2>1. /\ usbp' = OtgEpoutHandlerXfrc(usbp) /\ setup_buf' = setup_buf /\ fifo' = <<>>
        /\ ~stup' /\ ~xfrcOut' /\ ~xfrcIn' /\ UNCHANGED hostVars
    BY <1>1, <1>4, ServeEmpty DEF Served
  <2>2. usbp' \in Driver /\ ~usbp'.panic /\ Resting' /\ SameView
    BY <1>1, <1>4, <2>1, StatusEnds
  <2>3. Over'
    BY <2>1, <2>2 DEF Over, LastEnding, Seen, SameView, hostVars
  <2> QED
    BY <2>1, <2>2, <2>3 DEF PInv, Typed, ActiveIffConfigured, Phases, SameView, hostVars
<1> QED
  BY <1>1, <1>2, <1>3, <1>4, Zenon DEF Over, LastEnding

(* The words of a request reach the driver one interrupt after the other.  *)
LEMMA ServeAsked ==
  ASSUME PInv, Asked, ServeInterrupt, ~stup
  PROVE  PInv'
<1>1. /\ usbp \in Driver /\ ~usbp.panic /\ Asking /\ ~stup
      /\ setup_buf \in Requests \union {NoRequest} /\ request \in Requests
  BY DEF PInv, Typed, Asked, Asking
<1> DEFINE w == SetupData(request)
<1>2. /\ w.word = "SETUP_DATA" /\ w.req = request
      /\ SetupComp.word = "SETUP_COMP" /\ OutComp.word = "OUT_COMP"
  BY DEF SetupData, SetupComp, OutComp
<1> HIDE DEF w
<1>3. ASSUME UNCHANGED hostVars, usbp' \in Driver, ~usbp'.panic, SameView, SameLine,
             setup_buf' \in Requests \union {NoRequest}, Asking' => Asked'
      PROVE  PInv'
  <2>1. Asking'
    BY <1>1, <1>3 DEF Asking, Seen, SameView, SameLine, hostVars
  <2>2. Typed' /\ ActiveIffConfigured'
    BY <1>3 DEF PInv, Typed, ActiveIffConfigured, SameView, hostVars
  <2> QED
    BY <1>3, <2>1, <2>2 DEF PInv, Phases
<1>4. CASE /\ fifo = <<w, SetupComp>>
           /\ \/ ~xfrcOut /\ ~xfrcIn /\ Resting
              \/ ~xfrcOut /\ xfrcIn /\ SendingStatus
              \/ xfrcOut /\ ~xfrcIn /\ AwaitingStatus
  <2>1. /\ usbp' = Served(usbp, request) /\ setup_buf' = request /\ fifo' = <<SetupComp>>
        /\ ~stup' /\ ~xfrcOut' /\ ~xfrcIn' /\ UNCHANGED hostVars
    BY <1>2, <1>4, ServeFirst
  <2>2. usbp' \in Driver /\ ~usbp'.panic /\ Resting' /\ SameView /\ SameLine
    <3>1. CASE ~xfrcOut /\ ~xfrcIn /\ Resting
      <4>1. usbp' = usbp
        BY <1>1, <2>1, <3>1 DEF Served
      <4> QED
        BY <1>1, <3>1, <4>1 DEF Resting, SameView, SameLine
    <3>2. CASE ~xfrcOut /\ xfrcIn /\ SendingStatus
      <4>1. usbp' = OtgEpinHandler(usbp)
        BY <1>1, <2>1, <3>2 DEF Served
      <4> QED
        BY <1>1, <3>2, <4>1, StatusEnds
    <3>3. CASE xfrcOut /\ ~xfrcIn /\ AwaitingStatus
      <4>1. usbp' = OtgEpoutHandlerXfrc(usbp)
        BY <1>1, <2>1, <3>3 DEF Served
      <4> QED
        BY <1>1, <3>3, <4>1, StatusEnds
    <3> QED
      BY <1>4, <3>1, <3>2, <3>3, Zenon
  <2>3. Asking' => Asked'
    BY <2>1, <2>2 DEF Asked, hostVars
  <2> QED
    BY <1>1, <1>3, <2>1, <2>2, <2>3
<1>5. CASE fifo = <<OutComp, w, SetupComp>> /\ ~xfrcOut /\ ~xfrcIn /\ AwaitingStatus
  <2>1. /\ usbp' = Served(usbp, setup_buf) /\ setup_buf' = setup_buf
        /\ fifo' = <<w, SetupComp>>
        /\ ~stup' /\ xfrcOut' /\ ~xfrcIn' /\ UNCHANGED hostVars
    <3>1. fifo = <<OutComp>> \/ fifo = <<OutComp, w>> \/ fifo = <<OutComp, w, SetupComp>>
      BY <1>5, Zenon
    <3>2. /\ OutComp.word \notin {"SETUP_DATA", "OUT_DATA"}
               => usbp' = Served(usbp, setup_buf) /\ setup_buf' = setup_buf
          /\ fifo = <<OutComp, w, SetupComp>> => fifo' = <<w, SetupComp>>
          /\ stup' <=> OutComp.word = "SETUP_COMP"
          /\ xfrcOut' <=> OutComp.word = "OUT_COMP"
          /\ ~xfrcIn'
          /\ UNCHANGED hostVars
      BY <3>1, ServeFirst, Zenon
    <3> QED
      BY <1>2, <1>5, <3>2
  <2>2. usbp' = usbp
    BY <1>1, <1>5, <2>1 DEF Served
  <2>3. AwaitingStatus' /\ fifo' = <<SetupData(request'), SetupComp>>
    BY <1>5, <2>1, <2>2 DEF AwaitingStatus, w, hostVars
  <2>4. Asking' => Asked'
    BY <2>1, <2>3, Zenon DEF Asked, LastEnding
  <2> QED
    BY <1>1, <1>3, <2>1, <2>2, <2>4 DEF SameView, SameLine
<1>6. CASE fifo = <<SetupComp>> /\ ~xfrcOut /\ ~xfrcIn /\ setup_buf = request /\ Resting
  <2>1. /\ usbp' = Served(usbp, setup_buf) /\ setup_buf' = setup_buf /\ fifo' = <<>>
        /\ stup' /\ ~xfrcOut' /\ ~xfrcIn' /\ UNCHANGED hostVars
    BY <1>2, <1>6, ServeFirst
  <2>2. usbp' = usbp
    BY <1>1, <1>6, <2>1 DEF Served
  <2>3. Resting' /\ setup_buf' = request'
    BY <1>6, <2>1, <2>2 DEF Resting, hostVars
  <2>4. Asking' => Asked'
    BY <2>1, <2>3 DEF Asked
  <2> QED
    BY <1>1, <1>3, <2>1, <2>2, <2>4 DEF SameView, SameLine
<1> QED
  BY <1>1, <1>4, <1>5, <1>6, Zenon DEF Asked, LastEnding, w

(* _usb_ep0setup takes the transfer to the phase that its request asks for. *)
LEMMA ServeSetup ==
  ASSUME PInv, Asked, ServeInterrupt, stup
  PROVE  PInv'
<1>1. /\ usbp \in Driver /\ ~usbp.panic /\ Asking /\ Resting /\ ActiveIffConfigured
      /\ fifo = <<>> /\ setup_buf = request /\ ~xfrcOut /\ ~xfrcIn
      /\ setup_buf \in Requests \union {NoRequest} /\ request \in Requests
  BY DEF PInv, Typed, Asked, Asking
<1>2. /\ usbp' = UsbEp0Setup(usbp, request) /\ setup_buf' = setup_buf /\ fifo' = <<>>
      /\ ~stup' /\ ~xfrcOut' /\ ~xfrcIn' /\ UNCHANGED hostVars
  BY <1>1, ServeEmpty DEF Served
<1>3. ~usbp.transmitting /\ ~usbp.receiving
  BY <1>1 DEF Resting
<1>4. /\ ~usbp.inen /\ ~usbp.outen /\ ~usbp.stalled /\ Seen /\ count = 0
      /\ stage = (IF request.wLength = 0 THEN "status_in"
                  ELSE IF request.dir = "in" THEN "data_in" ELSE "data_out")
      /\ request.kind = "set_address" => usbp.configuration = 0
  BY <1>1 DEF Asking, Seen
<1>5. /\ request' = request /\ stage' = stage /\ count' = count
      /\ hostAddress' = hostAddress /\ hostConfig' = hostConfig
  BY <1>2 DEF hostVars
<1>6. ASSUME usbp' \in Driver, ~usbp'.panic, ActiveIffConfigured', Phases'
      PROVE  PInv'
  BY <1>1, <1>2, <1>5, <1>6 DEF PInv, Typed
<1>7. CASE request.kind = "get"
  <2>0. PICK n \in 1..request.wLength :
          UsbEp0Setup(usbp, request)
            = [usbp EXCEPT !.setup = request, !.ep0n = n, !.ep0state = "IN_TX",
                           !.transmitting = TRUE, !.txtot = n, !.inen = TRUE]
    BY <1>1, <1>3, <1>7, SetupGet, Zenon
  <2>1. usbp' = [usbp EXCEPT !.setup = request, !.ep0n = n, !.ep0state = "IN_TX",
                             !.transmitting = TRUE, !.txtot = n, !.inen = TRUE]
    BY <1>2, <2>0, Zenon
  <2>2. /\ request.dir = "in" /\ request.wLength \in 0..MaxLength /\ request.wLength >= 1
        /\ MaxLength \in Nat
    BY <1>1, <1>7, RequestFacts
  <2>3. n \in 0..MaxLength /\ n >= 1 /\ n <= request.wLength
    BY <2>2
  <2>4. usbp' \in Driver /\ ~usbp'.panic
    BY <1>1, <2>1, <2>3 DEF Driver, Ep0States
  <2>5. /\ usbp'.setup = request /\ usbp'.ep0n = n /\ usbp'.txtot = n
        /\ usbp'.ep0state = "IN_TX" /\ usbp'.transmitting /\ usbp'.inen
        /\ ~usbp'.receiving /\ ~usbp'.outen /\ ~usbp'.stalled /\ SameView
    BY <1>1, <1>3, <1>4, <2>1 DEF Driver, SameView
  <2>6. ActiveIffConfigured' /\ Seen'
    BY <1>1, <1>4, <1>5, <2>5 DEF ActiveIffConfigured, Seen, SameView
  <2>7. stage = "data_in" /\ count = 0 /\ 0 % MaxPacket = 0
    BY <1>4, <2>2, PacketFacts
  <2>8. Sending'
    BY <1>1, <1>2, <1>5, <1>7, <2>2, <2>3, <2>5, <2>6, <2>7 DEF Sending
  <2> QED
    BY <1>6, <2>4, <2>6, <2>8 DEF Phases
<1>8. CASE request.kind = "set_line_coding"
  <2>1. usbp' = [usbp EXCEPT !.setup = request, !.ep0n = LineCoding, !.ep0state = "OUT_RX",
                             !.receiving = TRUE, !.rxtot = LineCoding, !.rxcnt = 0,
                             !.outen = TRUE]
    BY <1>1, <1>2, <1>3, <1>8, SetupLineCoding, Zenon
  <2>2. /\ request.dir = "out" /\ request.wLength = LineCoding
        /\ LineCoding \in 0..MaxLength /\ LineCoding \in Nat /\ LineCoding > 0
    BY <1>1, <1>8, RequestFacts
  <2>3. usbp' \in Driver /\ ~usbp'.panic
    <3>1. 0 \in 0..MaxPacket
      BY PacketFacts
    <3> QED
      BY <1>1, <2>1, <2>2, <3>1 DEF Driver, Ep0States
  <2>4. /\ usbp'.rxtot = LineCoding /\ usbp'.rxcnt = 0
        /\ usbp'.ep0state = "OUT_RX" /\ usbp'.receiving /\ usbp'.outen
        /\ ~usbp'.transmitting /\ ~usbp'.inen /\ ~usbp'.stalled /\ SameView
    BY <1>1, <1>3, <1>4, <2>1 DEF Driver, SameView
  <2>5. ActiveIffConfigured' /\ Seen'
    BY <1>1, <1>4, <1>5, <2>4 DEF ActiveIffConfigured, Seen, SameView
  <2>6. stage = "data_out"
    BY <1>4, <2>2
  <2>7. Receiving'
    BY <1>1, <1>2, <1>4, <1>5, <1>8, <2>2, <2>4, <2>5, <2>6 DEF Receiving
  <2> QED
    BY <1>6, <2>3, <2>5, <2>7 DEF Phases
<1>9. CASE request.kind \in {"no_data", "set_address", "set_configuration"}
  <2>1. PICK st \in {"READY", "SELECTED", "ACTIVE"}, a \in {0, 1}, c \in {0, 1} :
          /\ UsbEp0Setup(usbp, request)
               = [usbp EXCEPT !.state = st, !.address = a, !.configuration = c,
                              !.setup = request, !.ep0n = 0, !.ep0state = "IN_SENDING_STS",
                              !.transmitting = TRUE, !.txtot = 0, !.inen = TRUE]
          /\ st = "ACTIVE" <=> c # 0
          /\ a = IF request.kind = "set_address" THEN request.value ELSE usbp.address
          /\ c = IF request.kind = "set_configuration" THEN request.value ELSE usbp.configuration
    <3>1. usbp.state = "ACTIVE" <=> usbp.configuration # 0
      BY <1>1, Zenon DEF ActiveIffConfigured
    <3> QED
      BY <1>1, <1>3, <1>4, <1>9, <3>1, SetupNoData, Zenon
  <2>2. request.wLength = 0 /\ MaxLength \in Nat /\ 0 \in 0..MaxLength
    BY <1>1, <1>9, RequestFacts
  <2>3. usbp' \in Driver /\ ~usbp'.panic
    <3> DEFINE h == [usbp EXCEPT !.state = st, !.address = a, !.configuration = c]
    <3>1. h \in Driver /\ ~h.panic
      BY <1>1 DEF Driver
    <3>2. usbp' = [h EXCEPT !.setup = request, !.ep0n = 0, !.ep0state = "IN_SENDING_STS",
                            !.transmitting = TRUE, !.txtot = 0, !.inen = TRUE]
      BY <1>1, <1>2, <2>1 DEF Driver
    <3> HIDE DEF h
    <3>3. request \in Requests \union {NoRequest} /\ 0 \in 0..MaxLength
      BY <1>1, <2>2
    <3> QED
      BY <3>1, <3>2, <3>3 DEF Driver, Ep0States
  <2>4. /\ usbp'.state = st /\ usbp'.address = a /\ usbp'.configuration = c
        /\ usbp'.ep0state = "IN_SENDING_STS" /\ usbp'.transmitting /\ usbp'.inen
        /\ usbp'.txtot = 0 /\ ~usbp'.receiving /\ ~usbp'.stalled
    BY <1>1, <1>2, <1>3, <1>4, <2>1 DEF Driver
  <2>5. ActiveIffConfigured'
    BY <2>1, <2>4 DEF ActiveIffConfigured
  <2>6. Acted'
    BY <1>4, <1>5, <2>1, <2>4 DEF Acted, Seen
  <2>7. stage = "status_in"
    BY <1>4, <2>2
  <2>8. Confirming'
    BY <1>1, <1>2, <1>5, <2>4, <2>6, <2>7 DEF Confirming, SendingStatus
  <2> QED
    BY <1>6, <2>3, <2>5, <2>8 DEF Phases
<1>10. CASE request.kind = "unknown"
  <2>1. usbp' = [usbp EXCEPT !.setup = request, !.stalled = TRUE, !.ep0state = "ERROR"]
    BY <1>1, <1>2, <1>10, SetupUnknown, Zenon
  <2>2. usbp' \in Driver /\ ~usbp'.panic
    BY <1>1, <2>1 DEF Driver, Ep0States
  <2>3. /\ usbp'.ep0state = "ERROR" /\ usbp'.stalled
        /\ ~usbp'.transmitting /\ ~usbp'.receiving /\ SameView
    BY <1>1, <1>3, <2>1 DEF Driver, SameView
  <2>4. ActiveIffConfigured' /\ Seen'
    BY <1>1, <1>4, <1>5, <2>3 DEF ActiveIffConfigured, Seen, SameView
  <2>5. stage \in {"data_in", "data_out", "status_in"}
    BY <1>4
  <2>6. Refused'
    BY <1>2, <1>5, <2>3, <2>4, <2>5 DEF Refused, Resting
  <2> QED
    BY <1>6, <2>2, <2>4, <2>6 DEF Phases
<1> QED
  BY <1>1, <1>7, <1>8, <1>9, <1>10, RequestFacts

(* The end of a packet sent: another one, an empty one, or the status.     *)
LEMMA ServeSending ==
  ASSUME PInv, Sending, ServeInterrupt
  PROVE  PInv'
<1>1. /\ usbp \in Driver /\ ~usbp.panic /\ ActiveIffConfigured
      /\ setup_buf \in Requests \union {NoRequest} /\ request \in Requests
      /\ count \in 0..MaxLength /\ hostAddress \in {0, 1} /\ hostConfig \in {0, 1}
  BY DEF PInv, Typed, Sending
<1>2. /\ stage = "data_in" /\ fifo = <<>> /\ ~stup /\ ~xfrcOut
      /\ usbp.transmitting /\ ~usbp.receiving /\ ~usbp.outen /\ ~usbp.stalled /\ Seen
      /\ usbp.setup = request /\ request.kind = "get" /\ usbp.ep0n <= request.wLength
  BY DEF Sending
<1>3. /\ usbp.ep0state = "IN_TX" /\ xfrcIn
      /\ usbp.txtot >= MaxPacket /\ count + usbp.txtot = usbp.ep0n + MaxPacket
      /\ count % MaxPacket = 0 /\ count < request.wLength
  <2>1. xfrcIn
    BY <1>2, Zenon DEF ServeInterrupt
  <2> QED
    BY <2>1 DEF Sending
<1>4. /\ usbp' = OtgEpinHandler(usbp) /\ setup_buf' = setup_buf /\ fifo' = <<>>
      /\ ~stup' /\ ~xfrcOut' /\ ~xfrcIn' /\ UNCHANGED hostVars
  BY <1>2, <1>3, ServeEmpty DEF Served
<1>5. /\ request' = request /\ stage' = stage /\ count' = count
      /\ hostAddress' = hostAddress /\ hostConfig' = hostConfig
  BY <1>4 DEF hostVars
<1>6. ASSUME usbp' \in Driver, ~usbp'.panic, SameView, Seen' => Sending'
      PROVE  PInv'
  <2>1. ActiveIffConfigured' /\ Seen'
    BY <1>1, <1>2, <1>5, <1>6 DEF ActiveIffConfigured, Seen, SameView
  <2> QED
    BY <1>1, <1>4, <1>5, <1>6, <2>1 DEF PInv, Typed, Phases
<1>7. /\ usbp.txtot \in 0..MaxLength /\ usbp.ep0n \in 0..MaxLength /\ MaxLength \in Nat
      /\ MaxPacket \in Nat \ {0} /\ request.wLength \in 0..MaxLength
  BY <1>1, RequestFacts, PacketFacts DEF Driver
<1>8. CASE usbp.txtot > MaxPacket
  <2> DEFINE t == usbp.txtot - MaxPacket
  <2>1. t \in 0..MaxLength /\ t >= 1 /\ count + t = usbp.ep0n
    BY <1>1, <1>3, <1>7, <1>8
  <2>2. usbp' = [usbp EXCEPT !.txtot = t, !.inen = TRUE]
    BY <1>1, <1>4, <1>8, InContinues
  <2> HIDE DEF t
  <2>3. usbp' \in Driver /\ ~usbp'.panic /\ SameView
    BY <1>1, <2>1, <2>2 DEF Driver, SameView
  <2>4. /\ usbp'.txtot = t /\ usbp'.inen /\ usbp'.ep0state = "IN_TX"
        /\ usbp'.transmitting /\ ~usbp'.receiving /\ ~usbp'.outen /\ ~usbp'.stalled
        /\ usbp'.setup = request /\ usbp'.ep0n = usbp.ep0n
    BY <1>1, <1>2, <1>3, <2>2 DEF Driver
  <2>5. Seen' => Sending'
    BY <1>1, <1>2, <1>3, <1>4, <1>5, <2>1, <2>4 DEF Sending
  <2> QED
    BY <1>6, <2>3, <2>5
<1>9. CASE ~(usbp.txtot > MaxPacket)
  <2>1. usbp.txtot <= MaxPacket /\ count = usbp.ep0n /\ 0 \in 0..MaxLength
    BY <1>1, <1>3, <1>7, <1>9
  <2>2. ZeroPacketDue(usbp)
    BY <1>2, <1>3, <2>1 DEF ZeroPacketDue
  <2>3. usbp' = [usbp EXCEPT !.transmitting = TRUE, !.txtot = 0, !.inen = TRUE,
                             !.ep0state = "IN_WAITING_TX0"]
    BY <1>1, <1>3, <1>4, <2>1, <2>2, InEndsWithZero, Zenon
  <2>4. usbp' \in Driver /\ ~usbp'.panic /\ SameView
    BY <1>1, <2>1, <2>3 DEF Driver, SameView, Ep0States
  <2>5. /\ usbp'.txtot = 0 /\ usbp'.inen /\ usbp'.ep0state = "IN_WAITING_TX0"
        /\ usbp'.transmitting /\ ~usbp'.receiving /\ ~usbp'.outen /\ ~usbp'.stalled
        /\ usbp'.setup = request /\ usbp'.ep0n = usbp.ep0n
    BY <1>1, <1>2, <1>3, <2>3 DEF Driver
  <2>6. Seen' => Sending'
    BY <1>1, <1>2, <1>3, <1>4, <1>5, <2>1, <2>5 DEF Sending
  <2> QED
    BY <1>6, <2>4, <2>6
<1> QED
  BY <1>8, <1>9

LEMMA ServeSent ==
  ASSUME PInv, Sent, ServeInterrupt
  PROVE  PInv'
<1>1. /\ usbp \in Driver /\ ~usbp.panic /\ ActiveIffConfigured
      /\ setup_buf \in Requests \union {NoRequest} /\ request \in Requests \union {NoRequest}
      /\ count \in 0..MaxLength /\ hostAddress \in {0, 1} /\ hostConfig \in {0, 1}
  BY DEF PInv, Typed
<1>2. /\ stage = "status_out" /\ fifo = <<>> /\ ~stup /\ ~xfrcOut /\ xfrcIn
      /\ ~usbp.receiving /\ ~usbp.stalled /\ usbp.txtot <= MaxPacket /\ request.kind = "get"
      /\ (usbp.ep0state = "IN_TX" /\ ~ZeroPacketDue(usbp)) \/ usbp.ep0state = "IN_WAITING_TX0"
      /\ Seen
  BY Zenon DEF Sent
<1>3. /\ usbp' = OtgEpinHandler(usbp) /\ setup_buf' = setup_buf /\ fifo' = <<>>
      /\ ~stup' /\ ~xfrcOut' /\ ~xfrcIn' /\ UNCHANGED hostVars
  BY <1>2, ServeEmpty DEF Served
<1>4. /\ request' = request /\ stage' = stage /\ count' = count
      /\ hostAddress' = hostAddress /\ hostConfig' = hostConfig
  BY <1>3 DEF hostVars
<1>5. usbp' = [usbp EXCEPT !.transmitting = FALSE, !.receiving = TRUE,
                           !.ep0state = "OUT_WAITING_STS", !.rxtot = 0,
                           !.rxcnt = 0, !.outen = TRUE]
  BY <1>1, <1>2, <1>3, InEnds, Zenon
<1>6. 0 \in 0..MaxLength /\ 0 \in 0..MaxPacket
  BY SizesAssumption
<1>7. usbp' \in Driver /\ ~usbp'.panic /\ SameView
  BY <1>1, <1>5, <1>6 DEF Driver, Ep0States, SameView
<1>8. /\ usbp'.ep0state = "OUT_WAITING_STS" /\ usbp'.rxtot = 0 /\ usbp'.rxcnt = 0
      /\ ~usbp'.transmitting /\ usbp'.receiving /\ usbp'.outen /\ ~usbp'.stalled
  BY <1>1, <1>2, <1>5 DEF Driver
<1>9. ActiveIffConfigured' /\ Seen'
  BY <1>1, <1>2, <1>4, <1>7 DEF ActiveIffConfigured, Seen, SameView
<1>10. Acknowledged'
  BY <1>2, <1>3, <1>4, <1>8, <1>9 DEF Acknowledged, AwaitingStatus
<1> QED
  BY <1>1, <1>3, <1>4, <1>7, <1>9, <1>10 DEF PInv, Typed, Phases

(* A packet received: its data, its end, and then the next one or the      *)
(* status.                                                                 *)
LEMMA ServeReceiving ==
  ASSUME PInv, Receiving, ServeInterrupt
  PROVE  PInv'
<1>1. /\ usbp \in Driver /\ ~usbp.panic /\ ActiveIffConfigured
      /\ setup_buf \in Requests \union {NoRequest} /\ request \in Requests
      /\ count \in 0..MaxLength /\ hostAddress \in {0, 1} /\ hostConfig \in {0, 1}
  BY DEF PInv, Typed, Receiving
<1>2. /\ usbp.ep0state = "OUT_RX" /\ ~usbp.transmitting /\ usbp.receiving
      /\ ~usbp.inen /\ ~usbp.stalled /\ ~stup /\ ~xfrcIn /\ Seen
      /\ request.kind = "set_line_coding"
  BY DEF Receiving
<1>3. PICK n \in 1..MaxPacket :
        /\ ~usbp.outen
        /\ usbp.rxtot + count = request.wLength + n
        /\ \/ stage = "data_out" /\ n = MaxPacket /\ count < request.wLength
           \/ stage = "status_in" /\ count = request.wLength
        /\ \/ fifo = <<OutData(n), OutComp>> /\ usbp.rxcnt = 0 /\ ~xfrcOut
           \/ fifo = <<OutComp>> /\ usbp.rxcnt = n /\ ~xfrcOut
           \/ fifo = <<>> /\ usbp.rxcnt = n /\ xfrcOut
  <2>1. fifo # <<>> \/ xfrcOut
    BY <1>2, Zenon DEF ServeInterrupt
  <2> QED
    BY <2>1, Zenon DEF Receiving
<1>4. /\ usbp.rxtot \in 0..MaxLength /\ usbp.rxcnt \in 0..MaxPacket /\ MaxLength \in Nat
      /\ MaxPacket \in Nat \ {0} /\ request.wLength \in 0..MaxLength
  BY <1>1, RequestFacts, PacketFacts DEF Driver
<1>5. /\ OutData(n).word = "OUT_DATA" /\ OutData(n).n = n /\ OutComp.word = "OUT_COMP"
  BY DEF OutData, OutComp
<1>6. /\ UNCHANGED hostVars /\ request' = request /\ stage' = stage /\ count' = count
      /\ hostAddress' = hostAddress /\ hostConfig' = hostConfig
  BY DEF ServeInterrupt, hostVars
<1>7. ASSUME usbp' \in Driver, ~usbp'.panic, SameView, setup_buf' = setup_buf,
             Seen' => Receiving' \/ Confirming'
      PROVE  PInv'
  <2>1. ActiveIffConfigured' /\ Seen'
    BY <1>1, <1>2, <1>6, <1>7 DEF ActiveIffConfigured, Seen, SameView
  <2> QED
    BY <1>1, <1>6, <1>7, <2>1 DEF PInv, Typed, Phases
<1>8. CASE fifo = <<OutData(n), OutComp>> /\ usbp.rxcnt = 0 /\ ~xfrcOut
  <2>1. /\ usbp' = Served([usbp EXCEPT !.rxcnt = @ + n], setup_buf) /\ setup_buf' = setup_buf
        /\ fifo' = <<OutComp>> /\ ~stup' /\ ~xfrcOut' /\ ~xfrcIn'
    <3>1. \/ fifo = <<OutData(n)>> \/ fifo = <<OutData(n), OutComp>>
          \/ fifo = <<OutData(n), OutComp, OutComp>>
      BY <1>8, Zenon
    <3>2. /\ OutData(n).word = "OUT_DATA"
               => /\ usbp' = Served([usbp EXCEPT !.rxcnt = @ + OutData(n).n], setup_buf)
                  /\ setup_buf' = setup_buf
          /\ fifo = <<OutData(n), OutComp>> => fifo' = <<OutComp>>
          /\ stup' <=> OutData(n).word = "SETUP_COMP"
          /\ xfrcOut' <=> OutData(n).word = "OUT_COMP"
          /\ ~xfrcIn'
      BY <3>1, ServeFirst, Zenon
    <3>3. ~stup' /\ ~xfrcOut' /\ ~xfrcIn'
      BY <1>5, <3>2
    <3> QED
      BY <1>5, <1>8, <3>2, <3>3, Zenon
  <2>2. usbp' = [usbp EXCEPT !.rxcnt = @ + n]
    BY <1>2, <1>8, <2>1 DEF Served
  <2>3. usbp' = [usbp EXCEPT !.rxcnt = n] /\ n \in 0..MaxPacket
    BY <1>4, <1>8, <2>2
  <2>4. usbp' \in Driver /\ ~usbp'.panic /\ SameView
    BY <1>1, <2>3 DEF Driver, SameView
  <2>5. /\ usbp'.rxcnt = n /\ usbp'.rxtot = usbp.rxtot /\ usbp'.ep0state = "OUT_RX"
        /\ ~usbp'.transmitting /\ usbp'.receiving /\ ~usbp'.inen /\ ~usbp'.stalled
        /\ ~usbp'.outen
    BY <1>1, <1>2, <1>3, <2>3 DEF Driver
  <2>6. Seen' => Receiving'
    BY <1>1, <1>2, <1>3, <1>6, <2>1, <2>5 DEF Receiving
  <2> QED
    BY <1>7, <2>1, <2>4, <2>6
<1>9. CASE fifo = <<OutComp>> /\ usbp.rxcnt = n /\ ~xfrcOut
  <2>1. /\ usbp' = Served(usbp, setup_buf) /\ setup_buf' = setup_buf
        /\ fifo' = <<>> /\ ~stup' /\ xfrcOut' /\ ~xfrcIn'
    BY <1>5, <1>9, ServeFirst
  <2>2. usbp' = usbp
    BY <1>2, <1>9, <2>1 DEF Served
  <2>3. Seen' => Receiving'
    BY <1>1, <1>2, <1>3, <1>6, <1>9, <2>1, <2>2 DEF Receiving
  <2> QED
    BY <1>1, <1>7, <2>1, <2>2, <2>3 DEF SameView
<1>10. CASE fifo = <<>> /\ usbp.rxcnt = n /\ xfrcOut
  <2>1. /\ usbp' = OtgEpoutHandlerXfrc(usbp) /\ setup_buf' = setup_buf
        /\ fifo' = <<>> /\ ~stup' /\ ~xfrcOut' /\ ~xfrcIn'
    BY <1>2, <1>10, ServeEmpty DEF Served
  <2>2. CASE stage = "data_out" /\ n = MaxPacket /\ count < request.wLength
    <3> DEFINE t == usbp.rxtot - MaxPacket
    <3>1. usbp.rxtot > MaxPacket /\ t \in 0..MaxLength /\ t + count = request.wLength
      <4>1. usbp.rxtot + count = request.wLength + MaxPacket
        BY <1>3, <2>2, Zenon
      <4>2. count < request.wLength
        BY <2>2, Zenon
      <4>3. count \in 0..MaxLength
        BY <1>1, Zenon
      <4> QED
        BY <1>4, <4>1, <4>2, <4>3
    <3>2. usbp' = [usbp EXCEPT !.rxtot = t, !.rxcnt = 0, !.outen = TRUE] /\ 0 \in 0..MaxPacket
      <4>1. usbp.rxcnt = MaxPacket
        BY <1>10, <2>2
      <4>2. OtgEpoutHandlerXfrc(usbp) = [usbp EXCEPT !.rxtot = t, !.rxcnt = 0, !.outen = TRUE]
        BY <1>1, <3>1, <4>1, OutContinues, Zenon
      <4> QED
        BY <1>4, <2>1, <4>2
    <3> HIDE DEF t
    <3>3. usbp' \in Driver /\ ~usbp'.panic /\ SameView
      BY <1>1, <3>1, <3>2 DEF Driver, SameView
    <3>4. /\ usbp'.rxcnt = 0 /\ usbp'.rxtot = t /\ usbp'.ep0state = "OUT_RX"
          /\ ~usbp'.transmitting /\ usbp'.receiving /\ ~usbp'.inen /\ ~usbp'.stalled
          /\ usbp'.outen
      BY <1>1, <1>2, <3>2 DEF Driver
    <3>5. Seen' => Receiving'
      BY <1>1, <1>2, <1>6, <2>1, <2>2, <3>1, <3>4 DEF Receiving
    <3> QED
      BY <1>7, <2>1, <3>3, <3>5
  <2>3. CASE stage = "status_in" /\ count = request.wLength
    <3>1. usbp.rxtot <= MaxPacket /\ 0 \in 0..MaxLength
      BY <1>1, <1>3, <1>4, <2>3
    <3>2. usbp' = [usbp EXCEPT !.receiving = FALSE, !.ep0state = "IN_SENDING_STS",
                               !.transmitting = TRUE, !.txtot = 0, !.inen = TRUE]
      BY <1>1, <1>2, <2>1, <3>1, OutEnds, Zenon
    <3>3. usbp' \in Driver /\ ~usbp'.panic /\ SameView
      BY <1>1, <3>1, <3>2 DEF Driver, SameView, Ep0States
    <3>4. /\ usbp'.ep0state = "IN_SENDING_STS" /\ usbp'.txtot = 0
          /\ usbp'.transmitting /\ ~usbp'.receiving /\ usbp'.inen /\ ~usbp'.stalled
      BY <1>1, <1>2, <3>2 DEF Driver
    <3>5. Seen' => Acted'
      BY <1>2, <1>6 DEF Seen, Acted
    <3>6. Seen' => Confirming'
      BY <1>1, <1>6, <2>1, <2>3, <3>4, <3>5 DEF Confirming, SendingStatus
    <3> QED
      BY <1>7, <2>1, <3>3, <3>6
  <2> QED
    BY <1>3, <2>2, <2>3
<1> QED
  BY <1>3, <1>8, <1>9, <1>10

(* Whatever the phase, the interrupt keeps the transfer in one.            *)
LEMMA Serve ==
  ASSUME PInv, ServeInterrupt
  PROVE  PInv'
<1>1. ~Refused /\ ~Acknowledged /\ ~Confirming
  BY Zenon DEF Refused, Acknowledged, Confirming, ServeInterrupt
<1>2. Over \/ Asked \/ Sending \/ Sent \/ Receiving
  BY <1>1, Zenon DEF PInv, Phases
<1> QED
  BY <1>2, ServeOver, ServeAsked, ServeSetup, ServeSending, ServeSent, ServeReceiving, Zenon

-----------------------------------------------------------------------------
(* The host's steps.                                                       *)

(* A host that ends what it begins sends a request when the last is over.  *)
LEMMA SetupStep ==
  ASSUME PInv, ~Aborts, NEW req \in Requests, HostSetup(req)
  PROVE  PInv'
<1>1. /\ usbp \in Driver /\ ~usbp.panic /\ ActiveIffConfigured
      /\ setup_buf \in Requests \union {NoRequest}
      /\ hostAddress \in {0, 1} /\ hostConfig \in {0, 1}
  BY DEF PInv, Typed
<1>2. /\ stage = "idle"
      /\ req.kind = "set_address" => hostConfig = 0
      /\ fifo' = fifo \o <<SetupData(req), SetupComp>>
      /\ usbp' = [usbp EXCEPT !.stalled = FALSE, !.inen = FALSE, !.outen = FALSE]
      /\ stage' = (IF req.wLength = 0 THEN "status_in"
                   ELSE IF req.dir = "in" THEN "data_in" ELSE "data_out")
      /\ request' = req /\ count' = 0 /\ setup_buf' = setup_buf
      /\ stup' = stup /\ xfrcOut' = xfrcOut /\ xfrcIn' = xfrcIn
      /\ hostAddress' = hostAddress /\ hostConfig' = hostConfig
  BY Zenon DEF HostSetup, SetupData, SetupComp
<1>3. Over
  <2>1. stage = "idle"
    BY <1>2
  <2> QED
    BY <2>1 DEF PInv, Phases, Asked, Asking, Refused, Sending, Sent, Acknowledged,
                Receiving, Confirming
<1>4. /\ usbp' \in Driver /\ ~usbp'.panic /\ SameView
      /\ ~usbp'.inen /\ ~usbp'.outen /\ ~usbp'.stalled
  BY <1>1, <1>2 DEF Driver, SameView
<1>5. /\ Resting => Resting'
      /\ SendingStatus => SendingStatus'
      /\ AwaitingStatus => AwaitingStatus'
  BY <1>1, <1>2 DEF Driver, Resting, SendingStatus, AwaitingStatus
<1>6. Seen' /\ ActiveIffConfigured'
  BY <1>1, <1>2, <1>3, <1>4 DEF Over, Seen, ActiveIffConfigured, SameView
<1>7. Asking'
  BY <1>2, <1>4, <1>6 DEF Asking
<1>8. LastEnding(<<SetupData(request), SetupComp>>, <<OutComp, SetupData(request), SetupComp>>)'
  <2> DEFINE a == SetupData(req)
             b == SetupComp
  <2>1. SetupData(request') = a
    BY <1>2
  <2> HIDE DEF a, b
  <2>2. fifo = <<>> => fifo' = <<a, b>>
    <3>1. <<>> \o <<a, b>> = <<a, b>>
      OBVIOUS
    <3> QED
      BY <1>2, <3>1, Zenon DEF a, b
  <2>3. fifo = <<OutComp>> => fifo' = <<OutComp, a, b>>
    <3>1. <<OutComp>> \o <<a, b>> = <<OutComp, a, b>>
      BY WordsBehind, Zenon
    <3> QED
      BY <1>2, <3>1, Zenon DEF a, b
  <2>4. \/ fifo = <<>> /\ ~xfrcOut /\ ~xfrcIn /\ Resting
        \/ fifo = <<>> /\ ~xfrcOut /\ xfrcIn /\ SendingStatus
        \/ fifo = <<OutComp>> /\ ~xfrcOut /\ ~xfrcIn /\ AwaitingStatus
        \/ fifo = <<>> /\ xfrcOut /\ ~xfrcIn /\ AwaitingStatus
    BY <1>3, Zenon DEF Over, LastEnding
  <2> QED
    BY <1>2, <1>5, <2>1, <2>2, <2>3, <2>4, Zenon DEF LastEnding, b
<1>9. Asked'
  <2>1. ~stup'
    BY <1>2, <1>3, Zenon DEF Over
  <2> QED
    BY <1>7, <1>8, <2>1, Zenon DEF Asked
<1>10. Typed'
  <2>1. 0 \in 0..MaxLength
    BY SizesAssumption
  <2> QED
    BY <1>1, <1>2, <1>4, <2>1 DEF Typed
<1> QED
  BY <1>4, <1>6, <1>9, <1>10 DEF PInv, Phases

(* A packet of data, or the status, taken by the host.                     *)
LEMMA InStep ==
  ASSUME PInv, HostIn
  PROVE  PInv'
<1> DEFINE n == Lesser(usbp.txtot, MaxPacket)
<1>1. /\ usbp \in Driver /\ ~usbp.panic /\ ActiveIffConfigured
      /\ setup_buf \in Requests \union {NoRequest} /\ request \in Requests \union {NoRequest}
      /\ count \in 0..MaxLength /\ hostAddress \in {0, 1} /\ hostConfig \in {0, 1}
  BY DEF PInv, Typed
<1>2. /\ stage \in {"data_in", "status_in"} /\ usbp.inen /\ ~usbp.stalled
      /\ usbp' = [usbp EXCEPT !.inen = FALSE] /\ xfrcIn'
      /\ fifo' = fifo /\ setup_buf' = setup_buf /\ stup' = stup /\ xfrcOut' = xfrcOut
      /\ request' = request
  BY DEF HostIn
<1>3. /\ usbp' \in Driver /\ ~usbp'.panic /\ SameView /\ ~usbp'.inen
      /\ usbp'.ep0state = usbp.ep0state /\ usbp'.txtot = usbp.txtot /\ usbp'.ep0n = usbp.ep0n
      /\ usbp'.setup = usbp.setup /\ usbp'.outen = usbp.outen
      /\ usbp'.transmitting = usbp.transmitting /\ usbp'.receiving = usbp.receiving
      /\ usbp'.stalled = usbp.stalled
  BY <1>1, <1>2 DEF Driver, SameView
<1>4. ActiveIffConfigured'
  BY <1>1, <1>3 DEF ActiveIffConfigured, SameView
<1>5. Sending \/ Confirming
  BY <1>2 DEF PInv, Phases, Over, Asked, Asking, Refused, Sent, Acknowledged, Receiving
<1>6. /\ usbp.txtot \in 0..MaxLength /\ usbp.ep0n \in 0..MaxLength /\ MaxLength \in Nat
      /\ MaxPacket \in Nat \ {0}
  BY <1>1, SizesAssumption DEF Driver
<1>7. CASE Sending
  <2>1. /\ stage = "data_in" /\ fifo = <<>> /\ ~stup /\ ~xfrcOut
        /\ usbp.transmitting /\ ~usbp.receiving /\ ~usbp.outen /\ ~usbp.stalled /\ Seen
        /\ usbp.setup = request /\ request \in Requests /\ request.kind = "get"
        /\ usbp.ep0n <= request.wLength
    BY <1>7 DEF Sending
  <2>2. /\ count' = count + n
        /\ stage' = IF n < MaxPacket \/ count + n >= request.wLength
                    THEN "status_out" ELSE "data_in"
        /\ hostAddress' = hostAddress /\ hostConfig' = hostConfig
    BY <2>1 DEF HostIn
  <2>3. Seen'
    BY <1>3, <2>1, <2>2 DEF Seen, SameView
  <2>4. request.wLength \in 0..MaxLength
    BY <2>1, RequestFacts
  <2>5. ASSUME count' \in 0..MaxLength, Sending' \/ Sent'
        PROVE  PInv'
    BY <1>1, <1>2, <1>3, <1>4, <2>2, <2>5 DEF PInv, Typed, Phases
  <2>6. ASSUME stage' = "status_out", usbp.txtot <= MaxPacket,
               (usbp.ep0state = "IN_TX" /\ ~ZeroPacketDue(usbp)) \/ usbp.ep0state = "IN_WAITING_TX0"
        PROVE  Sent'
    <3>1. ZeroPacketDue(usbp)' <=> ZeroPacketDue(usbp)
      BY <1>3 DEF ZeroPacketDue
    <3> QED
      BY <1>2, <1>3, <2>1, <2>3, <2>6, <3>1 DEF Sent
  <2>7. CASE usbp.ep0state = "IN_WAITING_TX0" /\ usbp.txtot = 0
    <3>1. n = 0 /\ 0 < MaxPacket /\ count + 0 = count
      BY <1>1, <1>6, <2>7 DEF Lesser
    <3> HIDE DEF n
    <3>2. stage' = "status_out" /\ count' = count
      BY <2>2, <3>1
    <3>3. usbp.txtot <= MaxPacket
      BY <1>6, <2>7
    <3> QED
      BY <1>1, <2>5, <2>6, <2>7, <3>2, <3>3
  <2>8. CASE /\ usbp.ep0state = "IN_TX" /\ usbp.txtot >= 1 /\ count + usbp.txtot = usbp.ep0n
             /\ count % MaxPacket = 0 /\ count < request.wLength
    <3>1. CASE usbp.txtot < MaxPacket
      <4>1. n = usbp.txtot /\ n \in 1..(MaxPacket - 1)
        BY <1>6, <2>8, <3>1 DEF Lesser
      <4>2. usbp.ep0n % MaxPacket # 0
        <5>1. count \in Nat /\ usbp.txtot \in 1..(MaxPacket - 1) /\ count % MaxPacket = 0
          BY <1>1, <1>6, <2>8, <4>1
        <5>2. (count + usbp.txtot) % MaxPacket # 0
          BY <5>1, PacketFacts, Zenon
        <5> QED
          BY <2>8, <5>2, Zenon
      <4>3. ~ZeroPacketDue(usbp)
        BY <4>2 DEF ZeroPacketDue
      <4>4. count + n = usbp.ep0n
        BY <2>8, <4>1
      <4> HIDE DEF n
      <4>5. stage' = "status_out" /\ count' \in 0..MaxLength /\ usbp.txtot <= MaxPacket
        BY <1>6, <2>2, <3>1, <4>1, <4>4
      <4> QED
        BY <2>5, <2>6, <2>8, <4>3, <4>5
    <3>2. CASE usbp.txtot >= MaxPacket /\ count + MaxPacket >= request.wLength
      <4>1. n = MaxPacket
        BY <1>6, <3>2 DEF Lesser
      <4>2. usbp.txtot <= MaxPacket /\ count + MaxPacket = usbp.ep0n /\ ~(usbp.ep0n < request.wLength)
        BY <1>1, <1>6, <2>1, <2>4, <2>8, <3>2
      <4>3. ~ZeroPacketDue(usbp)
        BY <2>1, <4>2 DEF ZeroPacketDue
      <4> HIDE DEF n
      <4>4. stage' = "status_out" /\ count' \in 0..MaxLength
        BY <1>6, <2>2, <3>2, <4>1, <4>2
      <4> QED
        BY <2>5, <2>6, <2>8, <4>2, <4>3, <4>4
    <3>3. CASE usbp.txtot >= MaxPacket /\ ~(count + MaxPacket >= request.wLength)
      <4>1. n = MaxPacket
        BY <1>6, <3>3 DEF Lesser
      <4>2. /\ count + MaxPacket < request.wLength /\ count + MaxPacket \in 0..MaxLength
            /\ (count + MaxPacket) + usbp.txtot = usbp.ep0n + MaxPacket
            /\ ~(MaxPacket < MaxPacket)
        BY <1>1, <1>6, <2>4, <2>8, <3>3
      <4>3. (count + MaxPacket) % MaxPacket = 0
        BY <1>1, <2>8, PacketFacts
      <4> HIDE DEF n
      <4>4. stage' = "data_in" /\ count' = count + MaxPacket
        BY <2>2, <3>3, <4>1, <4>2
      <4>5. Sending'
        BY <1>2, <1>3, <2>1, <2>3, <2>8, <3>3, <4>2, <4>3, <4>4 DEF Sending
      <4> QED
        BY <2>5, <4>2, <4>4, <4>5
    <3> QED
      BY <1>6, <3>1, <3>2, <3>3
  <2> QED
    BY <1>2, <1>7, <2>7, <2>8 DEF Sending
<1>8. CASE Confirming
  <2>1. /\ stage = "status_in" /\ fifo = <<>> /\ ~stup /\ ~xfrcOut /\ SendingStatus
        /\ request \in Requests /\ Acted
    BY <1>8 DEF Confirming
  <2>2. /\ stage' = "idle" /\ count' = count
        /\ hostAddress' = IF request.kind = "set_address" THEN request.value ELSE hostAddress
        /\ hostConfig' = IF request.kind = "set_configuration" THEN request.value ELSE hostConfig
    BY <2>1 DEF HostIn
  <2>3. Seen'
    BY <1>3, <2>1, <2>2 DEF Seen, Acted, SameView
  <2>4. SendingStatus'
    BY <1>3, <2>1 DEF SendingStatus
  <2>5. Over'
    BY <1>2, <2>1, <2>2, <2>3, <2>4 DEF Over, LastEnding
  <2>6. hostAddress' \in {0, 1} /\ hostConfig' \in {0, 1}
    BY <1>3, <2>3 DEF Seen, Driver
  <2> QED
    BY <1>1, <1>2, <1>3, <1>4, <2>2, <2>5, <2>6 DEF PInv, Typed, Phases
<1> QED
  BY <1>5, <1>7, <1>8

(* A packet of data, or the status, from the host.                         *)
LEMMA OutStep ==
  ASSUME PInv, HostOut
  PROVE  PInv'
<1>1. /\ usbp \in Driver /\ ~usbp.panic /\ ActiveIffConfigured
      /\ setup_buf \in Requests \union {NoRequest} /\ request \in Requests \union {NoRequest}
      /\ count \in 0..MaxLength /\ hostAddress \in {0, 1} /\ hostConfig \in {0, 1}
  BY DEF PInv, Typed
<1>2. /\ stage \in {"data_out", "status_out"} /\ usbp.outen /\ ~usbp.stalled
      /\ usbp' = [usbp EXCEPT !.outen = FALSE]
      /\ setup_buf' = setup_buf /\ stup' = stup /\ xfrcOut' = xfrcOut /\ xfrcIn' = xfrcIn
      /\ request' = request /\ hostAddress' = hostAddress /\ hostConfig' = hostConfig
  BY DEF HostOut
<1>3. /\ usbp' \in Driver /\ ~usbp'.panic /\ SameView /\ ~usbp'.outen
      /\ usbp'.ep0state = usbp.ep0state /\ usbp'.rxtot = usbp.rxtot
      /\ usbp'.rxcnt = usbp.rxcnt /\ usbp'.inen = usbp.inen
      /\ usbp'.transmitting = usbp.transmitting /\ usbp'.receiving = usbp.receiving
      /\ usbp'.stalled = usbp.stalled
  BY <1>1, <1>2 DEF Driver, SameView
<1>4. ActiveIffConfigured'
  BY <1>1, <1>3 DEF ActiveIffConfigured, SameView
<1>5. Acknowledged \/ Receiving
  BY <1>2 DEF PInv, Phases, Over, Asked, Asking, Refused, Sending, Sent, Confirming
<1>6. CASE Acknowledged
  <2>1. /\ stage = "status_out" /\ fifo = <<>> /\ ~stup /\ ~xfrcOut /\ ~xfrcIn
        /\ AwaitingStatus /\ Seen
    BY <1>6 DEF Acknowledged
  <2>2. fifo' = Append(fifo, OutComp) /\ stage' = "idle" /\ count' = count
    BY <2>1 DEF HostOut, OutComp
  <2>3. fifo' = <<OutComp>>
    BY <2>1, <2>2
  <2>4. AwaitingStatus' /\ Seen'
    BY <1>2, <1>3, <2>1 DEF AwaitingStatus, Seen, SameView
  <2>5. Over'
    BY <1>2, <2>1, <2>2, <2>3, <2>4 DEF Over, LastEnding
  <2> QED
    BY <1>1, <1>2, <1>3, <1>4, <2>2, <2>5 DEF PInv, Typed, Phases
<1>7. CASE Receiving
  <2>1. /\ usbp.ep0state = "OUT_RX" /\ ~usbp.transmitting /\ usbp.receiving
        /\ ~usbp.inen /\ ~usbp.stalled /\ ~stup /\ ~xfrcIn /\ Seen
        /\ request \in Requests /\ request.kind = "set_line_coding"
        /\ stage = "data_out" /\ fifo = <<>> /\ ~xfrcOut
        /\ usbp.rxcnt = 0 /\ count < request.wLength
        /\ usbp.rxtot + count = request.wLength
    BY <1>2, <1>7 DEF Receiving
  <2> DEFINE n == Lesser(request.wLength - count, MaxPacket)
  <2>2. /\ fifo' = fifo \o <<OutData(n), OutComp>>
        /\ count' = count + n
        /\ stage' = IF count + n = request.wLength THEN "status_in" ELSE "data_out"
    BY <2>1 DEF HostOut, OutData, OutComp
  <2>3. /\ usbp.rxtot \in 0..MaxLength /\ MaxLength \in Nat /\ MaxPacket \in Nat \ {0}
        /\ request.wLength \in 0..MaxLength /\ count \in Nat
    BY <1>1, <2>1, RequestFacts, SizesAssumption DEF Driver
  <2>4. /\ n \in 1..MaxPacket /\ count + n <= request.wLength
        /\ n = MaxPacket \/ count + n = request.wLength
    <3>1. CASE request.wLength - count <= MaxPacket
      BY <2>1, <2>3, <3>1 DEF Lesser
    <3>2. CASE ~(request.wLength - count <= MaxPacket)
      BY <2>1, <2>3, <3>2 DEF Lesser
    <3> QED
      BY <3>1, <3>2
  <2> HIDE DEF n
  <2>5. count' \in 0..MaxLength /\ usbp.rxtot + count' = request.wLength + n
    BY <2>1, <2>2, <2>3, <2>4
  <2>6. \/ stage' = "data_out" /\ n = MaxPacket /\ count' < request.wLength
        \/ stage' = "status_in" /\ count' = request.wLength
    <3>1. CASE count + n = request.wLength
      BY <2>2, <3>1, Zenon
    <3>2. CASE count + n # request.wLength
      <4>1. n = MaxPacket /\ stage' = "data_out"
        BY <2>2, <2>4, <3>2, Zenon
      <4>2. count + n < request.wLength
        BY <2>3, <2>4, <3>2
      <4> QED
        BY <2>2, <4>1, <4>2, Zenon
    <3> QED
      BY <3>1, <3>2, Zenon
  <2>7. fifo' = <<OutData(n), OutComp>>
    <3> DEFINE a == OutData(n)
    <3> HIDE DEF a
    <3>1. <<>> \o <<a, OutComp>> = <<a, OutComp>>
      OBVIOUS
    <3> QED
      BY <2>1, <2>2, <3>1, Zenon DEF a
  <2>8. Seen'
    BY <1>2, <1>3, <2>1 DEF Seen, SameView
  <2>9. Receiving'
    <3>1. /\ usbp'.rxtot + count' = request'.wLength + n
          /\ \/ stage' = "data_out" /\ n = MaxPacket /\ count' < request'.wLength
             \/ stage' = "status_in" /\ count' = request'.wLength
          /\ fifo' = <<OutData(n), OutComp>> /\ usbp'.rxcnt = 0 /\ ~xfrcOut'
      BY <1>2, <1>3, <2>1, <2>5, <2>6, <2>7
    <3>2. /\ usbp'.ep0state = "OUT_RX"
          /\ ~usbp'.transmitting /\ usbp'.receiving /\ ~usbp'.inen /\ ~usbp'.stalled
          /\ ~stup' /\ ~xfrcIn' /\ ~usbp'.outen
          /\ request' \in Requests /\ request'.kind = "set_line_coding"
      BY <1>2, <1>3, <2>1
    <3> QED
      BY <2>4, <2>8, <3>1, <3>2, Zenon DEF Receiving
  <2> QED
    BY <1>1, <1>2, <1>3, <1>4, <2>5, <2>9 DEF PInv, Typed, Phases
<1> QED
  BY <1>5, <1>6, <1>7

LEMMA StalledStep ==
  ASSUME PInv, HostStalled
  PROVE  PInv'
<1>1. /\ stage # "idle" /\ usbp.stalled /\ stage' = "idle"
      /\ usbp' = usbp /\ fifo' = fifo /\ setup_buf' = setup_buf /\ stup' = stup
      /\ xfrcOut' = xfrcOut /\ xfrcIn' = xfrcIn /\ request' = request /\ count' = count
      /\ hostAddress' = hostAddress /\ hostConfig' = hostConfig
  BY DEF HostStalled, hwVars
<1>2. Refused
  BY <1>1 DEF PInv, Phases, Over, Asked, Asking, Sending, Sent, Acknowledged, Receiving,
              Confirming
<1>3. Over'
  BY <1>1, <1>2 DEF Refused, Over, LastEnding, Resting, Seen
<1> QED
  BY <1>1, <1>3 DEF PInv, Typed, ActiveIffConfigured, Phases

LEMMA ResetStep ==
  ASSUME PInv, BusReset
  PROVE  PInv'
<1>1. /\ usbp' = [ResetDriver EXCEPT !.setup = usbp.setup]
      /\ fifo' = <<>> /\ ~stup' /\ ~xfrcOut' /\ ~xfrcIn' /\ stage' = "idle"
      /\ hostAddress' = 0 /\ hostConfig' = 0
      /\ setup_buf' = setup_buf /\ request' = request /\ count' = count
  BY DEF BusReset
<1>2. 0 \in 0..MaxLength /\ 0 \in 0..MaxPacket
  BY SizesAssumption
<1>3. usbp' \in Driver /\ ~usbp'.panic
  BY <1>1, <1>2 DEF PInv, Typed, Driver, ResetDriver, Ep0States
<1>4. /\ usbp'.ep0state = "STP_WAITING" /\ ~usbp'.transmitting /\ ~usbp'.receiving
      /\ usbp'.address = 0 /\ usbp'.configuration = 0 /\ usbp'.state = "READY"
  BY <1>1 DEF ResetDriver
<1>5. Over'
  BY <1>1, <1>4 DEF Over, LastEnding, Resting, Seen
<1> QED
  BY <1>1, <1>3, <1>4, <1>5 DEF PInv, Typed, ActiveIffConfigured, Phases

-----------------------------------------------------------------------------
(* The specification.                                                      *)

(* SMT takes the flags as they come; that they are flags is Zenon's part.  *)
Bits == stup \in BOOLEAN /\ xfrcOut \in BOOLEAN /\ xfrcIn \in BOOLEAN

IInv == Bits /\ PInv

LEMMA InitInv == Init => IInv
<1> SUFFICES ASSUME Init
             PROVE  IInv
  OBVIOUS
<1>1. /\ usbp = ResetDriver /\ fifo = <<>> /\ setup_buf = NoRequest /\ ~stup /\ ~xfrcOut
      /\ ~xfrcIn /\ stage = "idle" /\ request = NoRequest /\ count = 0
      /\ hostAddress = 0 /\ hostConfig = 0
  BY DEF Init
<1>2. 0 \in 0..MaxLength /\ 0 \in 0..MaxPacket
  BY SizesAssumption
<1>3. usbp \in Driver /\ ~usbp.panic
  BY <1>1, <1>2 DEF Driver, ResetDriver, Ep0States
<1>4. /\ usbp.ep0state = "STP_WAITING" /\ ~usbp.transmitting /\ ~usbp.receiving
      /\ usbp.address = 0 /\ usbp.configuration = 0 /\ usbp.state = "READY"
  BY <1>1 DEF ResetDriver
<1>5. Over
  BY <1>1, <1>4 DEF Over, LastEnding, Resting, Seen
<1>6. PInv
  BY <1>1, <1>2, <1>3, <1>4, <1>5 DEF PInv, Typed, ActiveIffConfigured, Phases
<1>7. Bits
  BY Zenon DEF Init, Bits
<1> QED
  BY <1>6, <1>7 DEF IInv

LEMMA BitsStep ==
  ASSUME Bits, [Next]_vars
  PROVE  Bits'
<1>1. ASSUME UNCHANGED <<stup, xfrcOut, xfrcIn>>
      PROVE  Bits'
  BY <1>1, Zenon DEF Bits
<1>2. CASE ServeInterrupt
  BY <1>2, Zenon DEF ServeInterrupt, Popped, Bits
<1>3. CASE BusReset
  BY <1>3, Zenon DEF BusReset, Bits
<1>4. ASSUME NEW req \in Requests, HostSetup(req)
      PROVE  Bits'
  BY <1>1, <1>4, Zenon DEF HostSetup
<1>5. CASE HostIn
  BY <1>5, Zenon DEF HostIn, Bits
<1>6. CASE HostOut
  BY <1>1, <1>6, Zenon DEF HostOut
<1>7. CASE HostStalled
  BY <1>1, <1>7, Zenon DEF HostStalled, hwVars
<1>8. CASE UNCHANGED vars
  BY <1>1, <1>8, Zenon DEF vars, hwVars
<1> QED
  BY <1>2, <1>3, <1>4, <1>5, <1>6, <1>7, <1>8, Zenon DEF Next

LEMMA StutterStep ==
  ASSUME PInv, UNCHANGED vars
  PROVE  PInv'
<1>1. /\ usbp' = usbp /\ fifo' = fifo /\ setup_buf' = setup_buf /\ stup' = stup
      /\ xfrcOut' = xfrcOut /\ xfrcIn' = xfrcIn /\ stage' = stage /\ request' = request
      /\ count' = count /\ hostAddress' = hostAddress /\ hostConfig' = hostConfig
  BY DEF vars, hwVars, hostVars
<1>2. Typed' /\ ~usbp'.panic /\ ActiveIffConfigured'
  BY <1>1 DEF PInv, Typed, ActiveIffConfigured
<1>3. /\ Over => Over'
      /\ Asked => Asked'
  BY <1>1, Zenon DEF Over, Asked, Asking, LastEnding, Resting, SendingStatus, AwaitingStatus, Seen
<1>4. /\ Refused => Refused'
      /\ Sent => Sent'
      /\ Acknowledged => Acknowledged'
      /\ Confirming => Confirming'
  BY <1>1, Zenon DEF Refused, Sent, ZeroPacketDue, Acknowledged, Confirming, Resting,
                     SendingStatus, AwaitingStatus, Seen, Acted
<1>5. Sending => Sending'
  BY <1>1, Zenon DEF Sending, Seen
<1>6. Receiving => Receiving'
  BY <1>1, Zenon DEF Receiving, Seen
<1> QED
  BY <1>2, <1>3, <1>4, <1>5, <1>6, Zenon DEF PInv, Phases

(* The phases follow each other, if the host ends what it begins.          *)
THEOREM Inductive ==
  ASSUME ~Aborts
  PROVE  Spec => []IInv
<1>1. Init => IInv
  BY InitInv
<1>2. IInv /\ [Next]_vars => IInv'
  <2> SUFFICES ASSUME IInv, [Next]_vars
               PROVE  IInv'
    OBVIOUS
  <2>1. Bits'
    BY BitsStep, Zenon DEF IInv
  <2>2. PInv
    BY DEF IInv
  <2>3. PInv'
    <3>1. CASE ServeInterrupt
      BY <2>2, <3>1, Serve, Zenon
    <3>2. CASE BusReset
      BY <2>2, <3>2, ResetStep, Zenon
    <3>3. ASSUME NEW req \in Requests, HostSetup(req)
          PROVE  PInv'
      BY <2>2, <3>3, SetupStep, Zenon
    <3>4. CASE HostIn
      BY <2>2, <3>4, InStep, Zenon
    <3>5. CASE HostOut
      BY <2>2, <3>5, OutStep, Zenon
    <3>6. CASE HostStalled
      BY <2>2, <3>6, StalledStep, Zenon
    <3>7. CASE UNCHANGED vars
      BY <2>2, <3>7, StutterStep, Zenon
    <3> QED
      BY <3>1, <3>2, <3>3, <3>4, <3>5, <3>6, <3>7, Zenon DEF Next
  <2> QED
    BY <2>1, <2>3 DEF IInv
<1> QED
  BY <1>1, <1>2, PTL DEF Spec

(* No assertion of hal_usb.c fails on endpoint 0, for any sizes: no        *)
(* direction is started twice and no completion comes in a state that      *)
(* cannot expect it.                                                       *)
THEOREM DriverNeverPanics ==
  ASSUME ~Aborts
  PROVE  Spec => []NoPanic
<1>1. IInv => NoPanic
  BY DEF IInv, PInv, NoPanic
<1> QED
  BY <1>1, Inductive, PTL

(* Once the interrupts are served, driver, controller and host are at the  *)
(* same place of the transfer: they agree on where data of every size end. *)
THEOREM TransfersAgree ==
  ASSUME ~Aborts
  PROVE  Spec => []ControlConsistent
<1>1. IInv => TypeOK
  <2> SUFFICES ASSUME IInv
               PROVE  TypeOK
    OBVIOUS
  <2>1. {stup, xfrcOut, xfrcIn} \subseteq BOOLEAN
    BY Zenon DEF IInv, Bits
  <2>2. Len(fifo) <= 4
    <3> DEFINE w == SetupData(request)
               k == SetupComp
               o == OutComp
    <3>1. ASSUME NEW a, NEW b, NEW c,
                 fifo = <<>> \/ fifo = <<a>> \/ fifo = <<a, b>> \/ fifo = <<a, b, c>>
          PROVE  Len(fifo) <= 4
      <4>1. CASE fifo = <<>>
        BY <4>1
      <4>2. CASE fifo = <<a>>
        BY <4>2
      <4>3. CASE fifo = <<a, b>>
        BY <4>3
      <4>4. CASE fifo = <<a, b, c>>
        BY <4>4
      <4> QED
        BY <3>1, <4>1, <4>2, <4>3, <4>4, Zenon
    <3>2. Over => fifo = <<>> \/ fifo = <<o>>
      BY Zenon DEF Over, LastEnding
    <3>3. Asked => fifo = <<>> \/ fifo = <<k>> \/ fifo = <<w, k>> \/ fifo = <<o, w, k>>
      BY Zenon DEF Asked, LastEnding
    <3>4. Refused \/ Sending \/ Sent \/ Acknowledged \/ Confirming => fifo = <<>>
      BY Zenon DEF Refused, Sending, Sent, Acknowledged, Confirming
    <3>5. Receiving => fifo = <<>> \/ fifo = <<o>> \/ \E n \in 1..MaxPacket : fifo = <<OutData(n), o>>
      BY Zenon DEF Receiving
    <3> HIDE DEF w, k, o
    <3> QED
      BY <3>1, <3>2, <3>3, <3>4, <3>5, Zenon DEF IInv, PInv, Phases
  <2>3. stage \in {"idle", "data_in", "data_out", "status_in", "status_out"}
    BY DEF IInv, PInv, Phases, Over, Asked, Asking, Refused, Sending, Sent, Acknowledged,
           Receiving, Confirming
  <2>4. Typed
    BY DEF IInv, PInv
  <2> QED
    BY <2>1, <2>2, <2>3, <2>4 DEF TypeOK, Typed, Driver
<1>2. IInv => StagesAgree
  <2> SUFFICES ASSUME PInv, Quiet
               PROVE  \/ stage = "idle" /\ usbp.ep0state \in {"STP_WAITING", "ERROR"}
                      \/ usbp.ep0state = "ERROR" /\ usbp.stalled
                      \/ /\ stage = "data_in" /\ usbp.ep0state \in {"IN_TX", "IN_WAITING_TX0"}
                         /\ usbp.inen
                      \/ stage = "data_out" /\ usbp.ep0state = "OUT_RX" /\ usbp.outen
                      \/ stage = "status_in" /\ usbp.ep0state = "IN_SENDING_STS" /\ usbp.inen
                      \/ stage = "status_out" /\ usbp.ep0state = "OUT_WAITING_STS" /\ usbp.outen
    BY DEF IInv, StagesAgree
  <2>1. fifo = <<>> /\ ~stup /\ ~xfrcOut /\ ~xfrcIn
    BY DEF Quiet
  <2>2. CASE Over
    BY <2>1, <2>2 DEF Over, LastEnding, Resting
  <2>3. ~Asked
    BY <2>1 DEF Asked, LastEnding
  <2>4. CASE Refused
    BY <2>4 DEF Refused
  <2>5. CASE Sending
    BY <2>1, <2>5 DEF Sending
  <2>6. ~Sent
    BY <2>1 DEF Sent
  <2>7. CASE Acknowledged
    BY <2>7 DEF Acknowledged, AwaitingStatus
  <2>8. CASE Receiving
    BY <2>1, <2>8 DEF Receiving
  <2>9. CASE Confirming
    BY <2>9 DEF Confirming, SendingStatus
  <2> QED
    BY <2>2, <2>3, <2>4, <2>5, <2>6, <2>7, <2>8, <2>9, Zenon DEF PInv, Phases
<1> QED
  BY <1>1, <1>2, Inductive, PTL DEF ControlConsistent

(* A device left idle is at the address and in the configuration that the  *)
(* host believes, whatever requests it has refused or answered.            *)
THEOREM HostIsRight ==
  ASSUME ~Aborts
  PROVE  Spec => []ViewsAgree
<1>1. IInv => ViewsAgree
  <2> SUFFICES ASSUME PInv, stage = "idle"
               PROVE  /\ usbp.address = hostAddress
                      /\ usbp.configuration = hostConfig
                      /\ usbp.state = "ACTIVE" <=> usbp.configuration # 0
    BY DEF IInv, ViewsAgree
  <2>1. Over
    BY DEF PInv, Phases, Asked, Asking, Refused, Sending, Sent, Acknowledged, Receiving,
           Confirming
  <2> QED
    BY <2>1 DEF PInv, Over, Seen, ActiveIffConfigured
<1> QED
  BY <1>1, Inductive, PTL
=============================================================================
