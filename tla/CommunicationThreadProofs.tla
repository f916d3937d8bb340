---------------------- MODULE CommunicationThreadProofs ----------------------
(***************************************************************************)
(* The request-response loop for every set of requests, every buffer       *)
(* length, every number of queue buffers and every way the reads fall.     *)
(* First what needs nothing of the host: the read buffer, the replies, the *)
(* types.  Then a host with one request at a time: the answers, the widths *)
(* and the parser.  Last a host that gives up on replies, so that requests *)
(* run into each other: the tokenizer and what is executed.                *)
(***************************************************************************)
EXTENDS NetstringChecks, NetstringProofs, FiniteSetTheorems

(* What the host frames holds no zero byte.                                *)
Clean == Seq(Cells \ {NUL})

(* What is on its way to the thread.                                       *)
QueuesHoldText == wire \in Seq(Clean) /\ ibq \in Seq(Clean)

(***************************************************************************)
(* The first bytesRead cells are the bytes of this read.  Behind them an   *)
(* ignored short read may have left bytes, but only in the first MinBytes  *)
(* cells; a read that is decoded is longer than that.                      *)
(***************************************************************************)
BufferHoldsThisRead ==
  /\ bytesRead \in Nat
  /\ bytesRead <= BufLen
  /\ received \in Clean
  /\ bytesRead = Len(received)
  /\ \A i \in 1..BufLen : i <= bytesRead => readBuffer[i] = received[i]

StaleOnlyAtTheStart ==
  /\ pc \in {"read", "decode"} =>
       \A i \in 1..BufLen : i > bytesRead /\ i > MinBytes => readBuffer[i] = NUL
  /\ pc = "decode" => bytesRead > MinBytes

ReadInv == QueuesHoldText /\ BufferHoldsThisRead /\ StaleOnlyAtTheStart

(* A frame holds no zero byte either.                                      *)
LEMMA FrameIsClean ==
  \A r \in Requests : Frame(r) \in Clean /\ r \in Text
<1> SUFFICES ASSUME NEW r \in Requests PROVE Frame(r) \in Clean /\ r \in Text
  OBVIOUS
<1> DEFINE D == Decimal[Len(r)]
<1>1. r \in Clean
  BY RequestsAssumption DEF Clean
<1>2. Len(r) \in Nat
  BY <1>1, LenProperties DEF Clean
<1>3. D \in Seq(Digits)
  BY <1>2, DecimalEquation
<1>4. Digits \subseteq Cells \ {NUL}
  BY DigitFacts, Zenon
<1> HIDE DEF D
<1>5. D \in Clean
  BY <1>3, <1>4, SeqDef DEF Clean
<1>6. ":" \in Cells \ {NUL} /\ ";" \in Cells \ {NUL}
  BY CellsAssumption DEF NUL
<1>7. ((D \o <<":">>) \o r) \o <<";">> \in Clean
  BY <1>1, <1>5, <1>6, DelimitedFacts, Zenon DEF Clean
<1>8. r \in Text
  BY <1>1, SeqDef DEF Clean, Text
<1> QED
  BY <1>7, <1>8 DEF Frame, D

(* The first state.                                                        *)
LEMMA ReadInvInit == Init => ReadInv
<1> SUFFICES ASSUME Init PROVE ReadInv
  OBVIOUS
<1>1. << >> \in Seq(Clean) /\ << >> \in Clean /\ Len(<< >>) = 0
  BY DEF Clean
<1>2. QueuesHoldText
  BY <1>1 DEF Init, QueuesHoldText
<1>3. BufferHoldsThisRead
  BY <1>1, BoundsAssumption DEF Init, BufferHoldsThisRead
<1>4. StaleOnlyAtTheStart
  BY DEF Init, StaleOnlyAtTheStart, Zeroed
<1> QED
  BY <1>2, <1>3, <1>4 DEF ReadInv

(* A prefix of a text appended to another: its length and its cells.       *)
LEMMA AppendPrefix ==
  ASSUME NEW r \in Clean, NEW t \in Clean, NEW n \in Nat, n <= Len(t)
  PROVE  LET a == r \o SubSeq(t, 1, n)
         IN  /\ a \in Clean
             /\ Len(a) = Len(r) + n
             /\ \A i \in 1..Len(r) : a[i] = r[i]
             /\ \A i \in 1..(Len(r) + n) : i > Len(r) => a[i] = t[i - Len(r)]
<1> DEFINE p == SubSeq(t, 1, n)
<1>1. Len(t) \in Nat /\ Len(r) \in Nat
  BY LenProperties DEF Clean
<1>2. p \in Clean /\ Len(p) = n /\ \A i \in 1..n : p[i] = t[i]
  <2>1. 1 \in 1..(Len(t) + 1) /\ n \in 0..Len(t)
    BY <1>1
  <2> QED
    BY <1>1, <2>1, SubSeqProperties DEF Clean
<1> HIDE DEF p
<1>3. /\ r \o p \in Clean /\ Len(r \o p) = Len(r) + n
      /\ \A i \in 1..(Len(r) + n) :
           (r \o p)[i] = IF i <= Len(r) THEN r[i] ELSE p[i - Len(r)]
  BY <1>2, ConcatProperties DEF Clean
<1>4. \A i \in 1..Len(r) : (r \o p)[i] = r[i]
  BY <1>1, <1>3
<1>5. \A i \in 1..(Len(r) + n) : i > Len(r) => (r \o p)[i] = t[i - Len(r)]
  <2> SUFFICES ASSUME NEW i \in 1..(Len(r) + n), i > Len(r)
               PROVE  (r \o p)[i] = t[i - Len(r)]
    OBVIOUS
  <2>1. i - Len(r) \in 1..n /\ ~(i <= Len(r))
    BY <1>1
  <2>2. (r \o p)[i] = p[i - Len(r)]
    BY <1>3, <2>1
  <2> QED
    BY <1>2, <2>1, <2>2
<1> QED
  BY <1>3, <1>4, <1>5 DEF p

(* ibqReadTimeout copies cells behind those of this read.                  *)
LEMMA ReadChunkStep == ReadInv /\ ReadChunk => ReadInv'
<1> SUFFICES ASSUME ReadInv, ReadChunk PROVE ReadInv'
  OBVIOUS
<1> DEFINE transfer == Head(ibq)
           room     == BufLen - bytesRead
           size     == IF Len(transfer) > room THEN room ELSE Len(transfer)
<1>1. /\ readBuffer' = [i \in 1..BufLen |->
                          IF i > bytesRead /\ i <= bytesRead + size
                          THEN transfer[i - bytesRead] ELSE readBuffer[i]]
      /\ bytesRead' = bytesRead + size
      /\ received' = received \o SubSeq(transfer, 1, size)
      /\ ibq' = IF size = Len(transfer)
                THEN Tail(ibq)
                ELSE <<SubSeq(transfer, size + 1, Len(transfer))>> \o Tail(ibq)
      /\ wire' = wire /\ pc' = "read" /\ pc = "read"
  BY DEF ReadChunk
<1>2. transfer \in Clean /\ Tail(ibq) \in Seq(Clean)
  BY HeadTailProperties DEF ReadInv, QueuesHoldText, ReadChunk
<1>3. Len(transfer) \in Nat
  BY <1>2, LenProperties DEF Clean
<1>4. /\ bytesRead \in Nat /\ bytesRead <= BufLen /\ BufLen \in Nat
      /\ received \in Clean /\ Len(received) = bytesRead
  BY BoundsAssumption DEF ReadInv, BufferHoldsThisRead
<1> HIDE DEF transfer
<1>5. size \in Nat /\ size <= Len(transfer) /\ bytesRead + size <= BufLen
  BY <1>3, <1>4
<1> HIDE DEF size
<1>6. QueuesHoldText'
  <2>1. CASE size = Len(transfer)
    BY <1>1, <1>2, <2>1 DEF ReadInv, QueuesHoldText
  <2>2. CASE size # Len(transfer)
    <3>1. SubSeq(transfer, size + 1, Len(transfer)) \in Clean
      BY <1>2, <1>3, <1>5, SubSeqProperties DEF Clean
    <3>2. <<SubSeq(transfer, size + 1, Len(transfer))>> \in Seq(Clean)
      BY <3>1
    <3>3. <<SubSeq(transfer, size + 1, Len(transfer))>> \o Tail(ibq) \in Seq(Clean)
      BY <1>2, <3>2, ConcatProperties
    <3> QED
      BY <1>1, <2>2, <3>3 DEF ReadInv, QueuesHoldText
  <2> QED
    BY <2>1, <2>2
<1>7. /\ received' \in Clean /\ Len(received') = bytesRead + size
      /\ \A i \in 1..bytesRead : received'[i] = received[i]
      /\ \A i \in 1..(bytesRead + size) :
           i > bytesRead => received'[i] = transfer[i - bytesRead]
  <2> DEFINE a == received \o SubSeq(transfer, 1, size)
  <2>1. /\ a \in Clean /\ Len(a) = Len(received) + size
        /\ \A i \in 1..Len(received) : a[i] = received[i]
        /\ \A i \in 1..(Len(received) + size) :
             i > Len(received) => a[i] = transfer[i - Len(received)]
    BY <1>2, <1>4, <1>5, AppendPrefix
  <2>2. received' = a
    BY <1>1
  <2> HIDE DEF a
  <2> QED
    BY <2>1, <2>2, <1>4
<1>8. bytesRead' = bytesRead + size /\ bytesRead' \in Nat /\ bytesRead' <= BufLen
  BY <1>1, <1>4, <1>5
<1>9. ASSUME NEW i \in 1..BufLen, i <= bytesRead' PROVE readBuffer'[i] = received'[i]
  <2>1. CASE i <= bytesRead
    <3>1. readBuffer'[i] = readBuffer[i]
      BY <1>1, <1>4, <2>1
    <3>2. readBuffer[i] = received[i]
      BY <2>1 DEF ReadInv, BufferHoldsThisRead
    <3>3. i \in 1..bytesRead
      BY <1>4, <2>1
    <3> QED
      BY <1>7, <3>1, <3>2, <3>3
  <2>2. CASE i > bytesRead
    <3>1. i <= bytesRead + size /\ i \in 1..(bytesRead + size)
      BY <1>4, <1>5, <1>8, <1>9
    <3>2. readBuffer'[i] = transfer[i - bytesRead]
      BY <1>1, <2>2, <3>1
    <3> QED
      BY <1>7, <2>2, <3>1, <3>2
  <2> QED
    BY <1>4, <2>1, <2>2
<1>10. BufferHoldsThisRead'
  BY <1>7, <1>8, <1>9 DEF BufferHoldsThisRead
<1>11. ASSUME NEW i \in 1..BufLen, i > bytesRead', i > MinBytes
       PROVE  readBuffer'[i] = NUL
  <2>1. ~(i <= bytesRead + size) /\ i > bytesRead
    BY <1>4, <1>5, <1>8, <1>11
  <2>2. readBuffer'[i] = readBuffer[i]
    BY <1>1, <2>1
  <2> QED
    BY <1>1, <1>11, <2>1, <2>2 DEF ReadInv, StaleOnlyAtTheStart
<1>12. StaleOnlyAtTheStart'
  BY <1>1, <1>11 DEF StaleOnlyAtTheStart
<1> QED
  BY <1>6, <1>10, <1>12 DEF ReadInv

(* The read returns; a short one is ignored, but its bytes stay.           *)
LEMMA ReadReturnStep == ReadInv /\ ReadReturn => ReadInv'
<1> SUFFICES ASSUME ReadInv, ReadReturn PROVE ReadInv'
  OBVIOUS
<1>1. QueuesHoldText'
  BY DEF ReadInv, QueuesHoldText, ReadReturn
<1>2. CASE bytesRead > MinBytes
  BY <1>1, <1>2 DEF ReadInv, BufferHoldsThisRead, StaleOnlyAtTheStart, ReadReturn
<1>3. CASE ~(bytesRead > MinBytes)
  <2>1. /\ bytesRead' = 0 /\ received' = << >> /\ pc' = "read" /\ pc = "read"
        /\ readBuffer' = readBuffer
    BY <1>3 DEF ReadReturn
  <2>2. << >> \in Clean /\ Len(<< >>) = 0
    BY DEF Clean
  <2>3. BufferHoldsThisRead'
    BY <2>1, <2>2, BoundsAssumption DEF BufferHoldsThisRead
  <2>4. bytesRead \in Nat /\ bytesRead <= MinBytes
    BY <1>3 DEF ReadInv, BufferHoldsThisRead, MinBytes
  <2>5. \A i \in 1..BufLen : i > MinBytes => readBuffer[i] = NUL
    BY <2>1, <2>4 DEF ReadInv, StaleOnlyAtTheStart, MinBytes
  <2>6. StaleOnlyAtTheStart'
    BY <2>1, <2>5 DEF StaleOnlyAtTheStart
  <2> QED
    BY <1>1, <2>3, <2>6 DEF ReadInv
<1> QED
  BY <1>2, <1>3

(* decodeMessage, sendMessage and the two memsets.                         *)
LEMMA ReplyStep == ReadInv /\ (DecodeMessage \/ SendMessage \/ ClearBuffers) => ReadInv'
<1> SUFFICES ASSUME ReadInv, DecodeMessage \/ SendMessage \/ ClearBuffers PROVE ReadInv'
  OBVIOUS
<1>1. CASE DecodeMessage \/ SendMessage
  <2>1. pc' \in {"send", "clear"} /\ UNCHANGED <<readBuffer, bytesRead, received, wire, ibq>>
    BY <1>1 DEF DecodeMessage, DecodeNetstring, SendMessage
  <2> QED
    BY <2>1 DEF ReadInv, QueuesHoldText, BufferHoldsThisRead, StaleOnlyAtTheStart
<1>2. CASE ClearBuffers
  <2>1. << >> \in Clean /\ Len(<< >>) = 0
    BY DEF Clean
  <2>2. QueuesHoldText' /\ BufferHoldsThisRead'
    BY <1>2, <2>1, BoundsAssumption
    DEF ReadInv, QueuesHoldText, BufferHoldsThisRead, ClearBuffers
  <2>3. StaleOnlyAtTheStart'
    BY <1>2 DEF StaleOnlyAtTheStart, ClearBuffers, Zeroed
  <2> QED
    BY <2>2, <2>3 DEF ReadInv
<1> QED
  BY <1>1, <1>2

(* The ways to cut a frame give texts.                                     *)
LEMMA TransfersType ==
  ASSUME NEW f \in Clean, NEW t \in Transfers(f) PROVE t \in Seq(Clean)
<1>1. CASE t = <<f>>
  BY <1>1
<1>2. CASE \E i \in 1..(Len(f) - 1) : t = <<SubSeq(f, 1, i), SubSeq(f, i + 1, Len(f))>>
  <2>1. PICK i \in 1..(Len(f) - 1) : t = <<SubSeq(f, 1, i), SubSeq(f, i + 1, Len(f))>>
    BY <1>2
  <2>2. Len(f) \in Nat
    BY LenProperties DEF Clean
  <2>3. SubSeq(f, 1, i) \in Clean /\ SubSeq(f, i + 1, Len(f)) \in Clean
    BY <2>2, SubSeqProperties DEF Clean
  <2> QED
    BY <2>1, <2>3
<1> QED
  BY <1>1, <1>2 DEF Transfers

(* The host and the bus only touch what is on its way.                     *)
LEMMA HostStep ==
  ReadInv /\ (\/ \E r \in Requests : HostSend(r)
              \/ UsbDeliver \/ HostReceive \/ HostTimeout) => ReadInv'
<1> SUFFICES ASSUME ReadInv,
                    \/ \E r \in Requests : HostSend(r)
                    \/ UsbDeliver \/ HostReceive \/ HostTimeout
             PROVE  ReadInv'
  OBVIOUS
<1>1. UNCHANGED <<pc, readBuffer, bytesRead, received>>
  BY DEF HostSend, UsbDeliver, HostReceive, HostTimeout, threadVars
<1>2. BufferHoldsThisRead' /\ StaleOnlyAtTheStart'
  BY <1>1 DEF ReadInv, BufferHoldsThisRead, StaleOnlyAtTheStart
<1>3. CASE \E r \in Requests : HostSend(r)
  <2>1. PICK r \in Requests : HostSend(r)
    BY <1>3
  <2>2. Frame(r) \in Clean
    BY FrameIsClean
  <2>3. PICK t \in Transfers(Frame(r)) : wire' = wire \o t
    BY <2>1 DEF HostSend
  <2>4. t \in Seq(Clean)
    BY <2>2, TransfersType
  <2>5. wire' \in Seq(Clean)
    BY <2>3, <2>4, ConcatProperties DEF ReadInv, QueuesHoldText
  <2> QED
    BY <1>2, <2>1, <2>5 DEF ReadInv, QueuesHoldText, HostSend
<1>4. CASE UsbDeliver
  <2>1. Head(wire) \in Clean /\ Tail(wire) \in Seq(Clean)
    BY <1>4, HeadTailProperties DEF ReadInv, QueuesHoldText, UsbDeliver
  <2>2. ibq' \in Seq(Clean) /\ wire' \in Seq(Clean)
    BY <1>4, <2>1, AppendProperties DEF ReadInv, QueuesHoldText, UsbDeliver
  <2> QED
    BY <1>2, <2>2 DEF ReadInv, QueuesHoldText
<1>5. CASE HostReceive \/ HostTimeout
  BY <1>2, <1>5 DEF ReadInv, QueuesHoldText, HostReceive, HostTimeout
<1> QED
  BY <1>3, <1>4, <1>5

(* ReadInv by itself is inductive.                                         *)
LEMMA ReadInvPreserved == ReadInv /\ [Next]_vars => ReadInv'
<1>1. ReadInv /\ UNCHANGED vars => ReadInv'
  BY DEF vars, ReadInv, QueuesHoldText, BufferHoldsThisRead, StaleOnlyAtTheStart
<1> QED
  BY <1>1, ReadChunkStep, ReadReturnStep, ReplyStep, HostStep DEF Next

(***************************************************************************)
(* However the host's bytes are grouped into transfers and reads, what     *)
(* decodeMessage parses is what this read has received and nothing else.   *)
(***************************************************************************)
THEOREM DecodesThisReadOnly == Spec => []DecodeSeesOnlyThisRead
<1>1. Init => ReadInv
  BY ReadInvInit
<1>2. ReadInv /\ [Next]_vars => ReadInv'
  BY ReadInvPreserved
<1>3. ReadInv => DecodeSeesOnlyThisRead
  <2> SUFFICES ASSUME ReadInv, pc = "decode", NEW i \in 1..BufLen
               PROVE  /\ bytesRead = Len(received)
                      /\ readBuffer[i] = IF i <= bytesRead THEN received[i] ELSE NUL
    BY DEF DecodeSeesOnlyThisRead, ReadInv, BufferHoldsThisRead
  <2>1. bytesRead \in Nat /\ bytesRead > MinBytes /\ bytesRead = Len(received)
    BY DEF ReadInv, BufferHoldsThisRead, StaleOnlyAtTheStart
  <2>2. CASE i <= bytesRead
    BY <2>1, <2>2 DEF ReadInv, BufferHoldsThisRead
  <2>3. CASE ~(i <= bytesRead)
    <3>1. i > bytesRead /\ i > MinBytes
      BY <2>1, <2>3 DEF MinBytes
    <3> QED
      BY <2>1, <2>3, <3>1 DEF ReadInv, StaleOnlyAtTheStart
  <2> QED
    BY <2>2, <2>3
<1> QED
  BY <1>1, <1>2, <1>3, PTL DEF Spec

-----------------------------------------------------------------------------
(***************************************************************************)
(* The length a reply announces is the length of the payload it carries,   *)
(* also for the replies that bring no payload.                             *)
(***************************************************************************)
HeaderMatchesPayload == \A i \in 1..Len(obq) : obq[i].size = Len(obq[i].msg)

(***************************************************************************)
(* The replies.  A reply's size is not computed from what is sent: it is   *)
(* the length of the string sprintf made, or zero, and the write buffer    *)
(* must still be empty then.                                               *)
(***************************************************************************)
ReplyInv ==
  /\ \E S : obq \in Seq(S)
  /\ pc \in {"read", "decode"} => writeBuffer = << >>
  /\ pc = "send" => msgLength = Len(writeBuffer)
  /\ HeaderMatchesPayload

(* Appending a matching reply, or taking the oldest, keeps all matching.   *)
LEMMA ReplyQueueLemma ==
  ASSUME NEW S, NEW o \in Seq(S), \A i \in 1..Len(o) : o[i].size = Len(o[i].msg)
  PROVE  /\ \A e : e.size = Len(e.msg) =>
              /\ Append(o, e) \in Seq(S \cup {e})
              /\ \A i \in 1..Len(Append(o, e)) :
                   Append(o, e)[i].size = Len(Append(o, e)[i].msg)
         /\ o # << >> =>
              /\ Tail(o) \in Seq(S)
              /\ \A i \in 1..Len(Tail(o)) : Tail(o)[i].size = Len(Tail(o)[i].msg)
<1>1. ASSUME NEW e, e.size = Len(e.msg)
      PROVE  /\ Append(o, e) \in Seq(S \cup {e})
             /\ \A i \in 1..Len(Append(o, e)) :
                  Append(o, e)[i].size = Len(Append(o, e)[i].msg)
  <2>1. o \in Seq(S \cup {e}) /\ e \in S \cup {e}
    BY SeqDef
  <2>2. /\ Append(o, e) \in Seq(S \cup {e})
        /\ Len(Append(o, e)) = Len(o) + 1
        /\ \A i \in 1..Len(o) : Append(o, e)[i] = o[i]
        /\ Append(o, e)[Len(o) + 1] = e
    BY <2>1, AppendProperties
  <2>3. ASSUME NEW i \in 1..(Len(o) + 1) PROVE i \in 1..Len(o) \/ i = Len(o) + 1
    BY <2>1, LenProperties
  <2> QED
    BY <1>1, <2>2, <2>3
<1>2. ASSUME o # << >>
      PROVE  /\ Tail(o) \in Seq(S)
             /\ \A i \in 1..Len(Tail(o)) : Tail(o)[i].size = Len(Tail(o)[i].msg)
  <2>1. /\ Tail(o) \in Seq(S) /\ Len(Tail(o)) = Len(o) - 1 /\ Len(o) \in Nat
        /\ \A i \in 1..Len(Tail(o)) : Tail(o)[i] = o[i + 1]
    BY <1>2, HeadTailProperties, LenProperties
  <2>2. ASSUME NEW i \in 1..Len(Tail(o)) PROVE i + 1 \in 1..Len(o)
    BY <2>1
  <2> QED
    BY <2>1, <2>2
<1> QED
  BY <1>1, <1>2

(* decodeNetstring announces what it has put into the write buffer.        *)
LEMMA DecodeAnnounces == ReplyInv /\ DecodeMessage => ReplyInv'
<1> SUFFICES ASSUME ReplyInv, DecodeMessage PROVE ReplyInv'
  OBVIOUS
<1>1. writeBuffer = << >> /\ obq' = obq
  BY DEF ReplyInv, DecodeMessage
<1>2. Len(<< >>) = 0
  OBVIOUS
<1>3. \/ pc' = "clear"
      \/ pc' = "send" /\ msgLength' = Len(writeBuffer')
  <2>1. ASSUME NEW m, DecodeNetstring(m) PROVE pc' = "send" /\ msgLength' = Len(writeBuffer')
    BY <1>1, <1>2, <2>1 DEF DecodeNetstring
  <2> QED
    BY <2>1 DEF DecodeMessage
<1> QED
  BY <1>1, <1>3 DEF ReplyInv, HeaderMatchesPayload

(* The other steps.                                                        *)
LEMMA ReplyInvPreserved == ReplyInv /\ [Next]_vars => ReplyInv'
<1> SUFFICES ASSUME ReplyInv, [Next]_vars PROVE ReplyInv'
  OBVIOUS
<1>1. CASE DecodeMessage
  BY <1>1, DecodeAnnounces
<1>2. CASE SendMessage
  <2> DEFINE e == [size |-> msgLength, msg |-> writeBuffer]
  <2>1. PICK S : obq \in Seq(S)
    BY DEF ReplyInv
  <2>2. e.size = Len(e.msg)
    BY <1>2 DEF ReplyInv, SendMessage
  <2>3. obq' = Append(obq, e) /\ pc' = "clear"
    BY <1>2 DEF SendMessage
  <2> HIDE DEF e
  <2>4. obq' \in Seq(S \cup {e}) /\ \A i \in 1..Len(obq') : obq'[i].size = Len(obq'[i].msg)
    BY <2>1, <2>2, <2>3, ReplyQueueLemma DEF ReplyInv, HeaderMatchesPayload
  <2> QED
    BY <2>3, <2>4 DEF ReplyInv, HeaderMatchesPayload
<1>3. CASE HostReceive
  <2>1. PICK S : obq \in Seq(S)
    BY DEF ReplyInv
  <2>2. obq' = Tail(obq) /\ obq # << >> /\ UNCHANGED <<pc, writeBuffer, msgLength>>
    BY <1>3 DEF HostReceive, threadVars
  <2>3. obq' \in Seq(S) /\ \A i \in 1..Len(obq') : obq'[i].size = Len(obq'[i].msg)
    BY <2>1, <2>2, ReplyQueueLemma DEF ReplyInv, HeaderMatchesPayload
  <2> QED
    BY <2>2, <2>3 DEF ReplyInv, HeaderMatchesPayload
<1>4. CASE ReadChunk \/ ReadReturn \/ ClearBuffers
  BY <1>4 DEF ReadChunk, ReadReturn, ClearBuffers, ReplyInv, HeaderMatchesPayload
<1>5. CASE UsbDeliver \/ HostTimeout \/ \E r \in Requests : HostSend(r)
  BY <1>5 DEF UsbDeliver, HostTimeout, HostSend, threadVars, ReplyInv, HeaderMatchesPayload
<1>6. CASE UNCHANGED vars
  BY <1>6 DEF vars, ReplyInv, HeaderMatchesPayload
<1> QED
  BY <1>1, <1>2, <1>3, <1>4, <1>5, <1>6 DEF Next

(***************************************************************************)
(* Every reply announces the length of the payload it carries, also the    *)
(* reply to a command that is neither set nor get.                         *)
(***************************************************************************)
THEOREM RepliesAreWellFormed == Spec => []HeaderMatchesPayload
<1>1. Init => ReplyInv
  <2> SUFFICES ASSUME Init PROVE ReplyInv
    OBVIOUS
  <2>1. << >> \in Seq(Cells) /\ Len(<< >>) = 0
    OBVIOUS
  <2> QED
    BY <2>1 DEF Init, ReplyInv, HeaderMatchesPayload
<1>2. ReplyInv => HeaderMatchesPayload
  BY DEF ReplyInv
<1> QED
  BY <1>1, <1>2, ReplyInvPreserved, PTL DEF Spec

-----------------------------------------------------------------------------
(***************************************************************************)
(* No circular wait.  A transfer that the thread has begun to read becomes *)
(* at most one reply, so the transfers and the replies that are somewhere  *)
(* between the host and the host only grow when the host sends.  A host    *)
(* that gives up does so with nothing on the wire and no reply in sight,   *)
(* when they fill the input queue and keep the thread busy at most.        *)
(***************************************************************************)
Busy == IF pc \in {"decode", "send"} \/ (pc = "read" /\ bytesRead > 0) THEN 1 ELSE 0

InFlight == Len(wire) + Len(ibq) + Busy + Len(obq)

(* A queue of transfers that the read buffer has room for.                 *)
Fit(q) == \A i \in 1..Len(q) : Len(q[i]) <= BufLen

WaitInv ==
  /\ outstanding \in Seq(Requests)
  /\ Len(wire) <= Len(outstanding) /\ Len(outstanding) <= 1
  /\ Len(ibq) <= IbqBuffers
  /\ Fit(wire) /\ Fit(ibq)
  /\ InFlight <= IbqBuffers + 1 + Len(outstanding)

(* What the proof below needs of the lengths.                              *)
LEMMA WaitLengths ==
  ASSUME ReadInv, ReplyInv, WaitInv
  PROVE  /\ {Len(wire), Len(ibq), Len(obq), Len(outstanding), bytesRead} \subseteq Nat
         /\ Busy \in {0, 1}
         /\ IbqBuffers \in Nat /\ BufLen \in Nat \ {0} /\ ObqRoom \in Nat \ {0}
<1>1. Len(obq) \in Nat
  BY LenProperties DEF ReplyInv
<1>2. Len(wire) \in Nat /\ Len(ibq) \in Nat /\ bytesRead \in Nat
  BY LenProperties DEF ReadInv, QueuesHoldText, BufferHoldsThisRead
<1>3. Len(outstanding) \in Nat
  BY LenProperties DEF WaitInv
<1>4. Busy \in {0, 1}
  BY DEF Busy
<1> QED
  BY <1>1, <1>2, <1>3, <1>4, BoundsAssumption

(* The head of a queue and what is left of it fit as well.                 *)
LEMMA FitTail ==
  ASSUME NEW q \in Seq(Clean), q # << >>, Fit(q)
  PROVE  /\ Head(q) \in Clean /\ Len(Head(q)) <= BufLen
         /\ Tail(q) \in Seq(Clean) /\ Fit(Tail(q)) /\ Len(Tail(q)) = Len(q) - 1
<1>1. /\ Head(q) = q[1] /\ q[1] \in Clean /\ Len(q) \in Nat /\ Len(q) >= 1
      /\ Tail(q) \in Seq(Clean) /\ Len(Tail(q)) = Len(q) - 1
      /\ \A i \in 1..Len(Tail(q)) : Tail(q)[i] = q[i + 1]
  BY HeadTailProperties, LenProperties
<1>2. 1 \in 1..Len(q) /\ \A i \in 1..Len(Tail(q)) : i + 1 \in 1..Len(q)
  BY <1>1
<1> QED
  BY <1>1, <1>2 DEF Fit

(* A transfer that fits at either end of a queue whose transfers fit.      *)
LEMMA FitEnds ==
  ASSUME NEW q \in Seq(Clean), Fit(q), NEW t \in Clean, Len(t) <= BufLen
  PROVE  /\ Fit(Append(q, t)) /\ Len(Append(q, t)) = Len(q) + 1
         /\ Fit(<<t>> \o q) /\ Len(<<t>> \o q) = Len(q) + 1
<1>1. Len(q) \in Nat
  BY LenProperties
<1>2. /\ Len(Append(q, t)) = Len(q) + 1
      /\ \A i \in 1..(Len(q) + 1) : i \in 1..Len(q) \/ i = Len(q) + 1
      /\ \A i \in 1..Len(q) : Append(q, t)[i] = q[i]
      /\ Append(q, t)[Len(q) + 1] = t
  BY <1>1, AppendProperties
<1>3. Fit(Append(q, t))
  BY <1>2 DEF Fit
<1>4. <<t>> \in Seq(Clean) /\ Len(<<t>>) = 1 /\ <<t>>[1] = t
  OBVIOUS
<1> DEFINE one == <<t>>
<1> HIDE DEF one
<1>5. /\ Len(one \o q) = 1 + Len(q)
      /\ \A i \in 1..(1 + Len(q)) : (one \o q)[i] = IF i <= 1 THEN one[i] ELSE q[i - 1]
  BY <1>4, ConcatProperties DEF one
<1>6. \A i \in 1..(1 + Len(q)) : i = 1 \/ (i > 1 /\ i - 1 \in 1..Len(q))
  BY <1>1
<1>7. one[1] = t
  BY <1>4 DEF one
<1>8. Fit(one \o q)
  <2> SUFFICES ASSUME NEW i \in 1..(1 + Len(q)) PROVE Len((one \o q)[i]) <= BufLen
    BY <1>5 DEF Fit
  <2>1. CASE i = 1
    BY <2>1, <1>5, <1>7
  <2>2. CASE i > 1 /\ i - 1 \in 1..Len(q)
    <3>1. (one \o q)[i] = q[i - 1]
      BY <2>2, <1>5
    <3> QED
      BY <3>1, <2>2 DEF Fit
  <2> QED
    BY <2>1, <2>2, <1>6
<1> QED
  BY <1>1, <1>2, <1>3, <1>5, <1>8 DEF one

(* A read that takes from the queue: a transfer is only cut when the       *)
(* buffer already holds another.                                           *)
LEMMA WaitReadChunk == ReadInv /\ ReplyInv /\ WaitInv /\ ReadChunk => WaitInv'
<1> SUFFICES ASSUME ReadInv, ReplyInv, WaitInv, ReadChunk PROVE WaitInv'
  OBVIOUS
<1>A. /\ Len(wire) \in Nat /\ Len(ibq) \in Nat /\ Len(obq) \in Nat /\ Len(outstanding) \in Nat
      /\ bytesRead \in Nat /\ Busy \in {0, 1}
      /\ IbqBuffers \in Nat /\ BufLen \in Nat \ {0} /\ ObqRoom \in Nat \ {0}
  BY WaitLengths
<1>B. /\ Len(wire) <= Len(outstanding) /\ Len(outstanding) <= 1 /\ Len(ibq) <= IbqBuffers
       /\ InFlight <= IbqBuffers + 1 + Len(outstanding)
       /\ InFlight = Len(wire) + Len(ibq) + Busy + Len(obq)
       /\ outstanding \in Seq(Requests) /\ Fit(wire) /\ Fit(ibq)
  BY DEF WaitInv, InFlight
<1> DEFINE transfer == Head(ibq)
           size == IF Len(transfer) > BufLen - bytesRead THEN BufLen - bytesRead ELSE Len(transfer)
           rest == SubSeq(transfer, size + 1, Len(transfer))
<1>1. /\ pc = "read" /\ ibq # << >> /\ bytesRead < BufLen
      /\ bytesRead' = bytesRead + size
      /\ ibq' = IF size = Len(transfer) THEN Tail(ibq) ELSE <<rest>> \o Tail(ibq)
      /\ pc' = pc /\ wire' = wire /\ obq' = obq /\ outstanding' = outstanding
  BY DEF ReadChunk
<1>2. ibq \in Seq(Clean)
  BY DEF ReadInv, QueuesHoldText
<1>3. /\ transfer \in Clean /\ Len(transfer) <= BufLen
      /\ Tail(ibq) \in Seq(Clean) /\ Fit(Tail(ibq)) /\ Len(Tail(ibq)) = Len(ibq) - 1
  BY <1>1, <1>2, FitTail DEF WaitInv
<1>4. Len(transfer) \in Nat
  BY <1>3, LenProperties DEF Clean
<1> HIDE DEF transfer
<1>5. size \in Nat /\ size <= Len(transfer) /\ (size # Len(transfer) => bytesRead > 0)
  BY <1>1, <1>3, <1>4, <1>A, <1>B
<1> HIDE DEF size
<1>6. rest \in Clean /\ Len(rest) <= BufLen
  <2>1. rest \in Clean /\ Len(rest) <= Len(transfer)
    <3>1. size + 1 \in 1..(Len(transfer) + 1) /\ Len(transfer) \in size..Len(transfer)
      BY <1>4, <1>5
    <3>2. rest \in Clean /\ Len(rest) = (IF size + 1 <= Len(transfer) THEN Len(transfer) - (size + 1) + 1 ELSE 0)
      BY <3>1, <1>3, <1>4, <1>5, SubSeqProperties DEF Clean
    <3> HIDE DEF rest
    <3> QED
      BY <3>2, <1>4, <1>5 DEF Clean
  <2> HIDE DEF rest
  <2> QED
    BY <2>1, <1>3, <1>4, <1>A, <1>B, LenProperties DEF Clean
<1> HIDE DEF rest
<1>7. Len(ibq) \in Nat /\ Len(ibq) - 1 \in Nat
  BY <1>1, <1>2, <1>A, <1>B, EmptySeq
<1>8. CASE size = Len(transfer)
  <2>1. Fit(ibq') /\ Len(ibq') = Len(ibq) - 1
    BY <1>1, <1>3, <1>8
  <2>2. Busy' \in {0, 1} /\ Busy' <= Busy + 1
    BY <1>A, <1>B DEF Busy
  <2>3. Fit(wire') /\ InFlight' <= InFlight
    BY <2>1, <2>2, <1>1, <1>A, <1>B DEF WaitInv, InFlight
  <2>4. InFlight \in Nat /\ InFlight' \in Nat
    BY <2>1, <2>2, <1>1, <1>7, <1>A, <1>B DEF InFlight
  <2> QED
    BY <2>1, <2>3, <2>4, <1>1, <1>7, <1>A, <1>B DEF WaitInv
<1>9. CASE size # Len(transfer)
  <2>1. Fit(ibq') /\ Len(ibq') = Len(ibq)
    <3>1. Fit(<<rest>> \o Tail(ibq)) /\ Len(<<rest>> \o Tail(ibq)) = Len(Tail(ibq)) + 1
      BY <1>3, <1>6, FitEnds
    <3>2. ibq' = <<rest>> \o Tail(ibq)
      BY <1>1, <1>9
    <3>3. Len(Tail(ibq)) + 1 = Len(ibq)
      BY <1>3, <1>7
    <3> QED
      BY <3>1, <3>2, <3>3, Zenon
  <2>2. Busy' = 1 /\ Busy = 1
    BY <1>1, <1>5, <1>9, <1>A, <1>B DEF Busy
  <2>3. Fit(wire') /\ InFlight' <= InFlight
    BY <2>1, <2>2, <1>1, <1>A, <1>B DEF WaitInv, InFlight
  <2>4. InFlight \in Nat /\ InFlight' \in Nat
    BY <2>1, <2>2, <1>1, <1>7, <1>A, <1>B DEF InFlight
  <2> QED
    BY <2>1, <2>3, <2>4, <1>1, <1>7, <1>A, <1>B DEF WaitInv
<1> QED
  BY <1>8, <1>9

(* The other steps of the thread.                                          *)
LEMMA WaitThread ==
  ReadInv /\ ReplyInv /\ WaitInv /\ (ReadReturn \/ DecodeMessage \/ SendMessage \/ ClearBuffers)
    => WaitInv'
<1> SUFFICES ASSUME ReadInv, ReplyInv, WaitInv,
                    ReadReturn \/ DecodeMessage \/ SendMessage \/ ClearBuffers
             PROVE  WaitInv'
  OBVIOUS
<1>A. /\ Len(wire) \in Nat /\ Len(ibq) \in Nat /\ Len(obq) \in Nat /\ Len(outstanding) \in Nat
      /\ bytesRead \in Nat /\ Busy \in {0, 1}
      /\ IbqBuffers \in Nat /\ BufLen \in Nat \ {0} /\ ObqRoom \in Nat \ {0}
  BY WaitLengths
<1>B. /\ Len(wire) <= Len(outstanding) /\ Len(outstanding) <= 1 /\ Len(ibq) <= IbqBuffers
       /\ InFlight <= IbqBuffers + 1 + Len(outstanding)
       /\ InFlight = Len(wire) + Len(ibq) + Busy + Len(obq)
       /\ outstanding \in Seq(Requests) /\ Fit(wire) /\ Fit(ibq)
  BY DEF WaitInv, InFlight
<1>1. wire' = wire /\ ibq' = ibq /\ outstanding' = outstanding
  BY DEF ReadReturn, DecodeMessage, SendMessage, ClearBuffers
<1>2. Busy' + Len(obq') <= Busy + Len(obq)
  <2>1. CASE ReadReturn
    BY <2>1, <1>A, <1>B DEF ReadReturn, Busy, MinBytes
  <2>2. CASE DecodeMessage
    <3>1. pc = "decode" /\ obq' = obq /\ pc' \in {"send", "clear"}
      BY <2>2 DEF DecodeMessage, DecodeNetstring
    <3> QED
      BY <3>1, <1>A, <1>B DEF Busy
  <2>3. CASE SendMessage
    <3>1. pc = "send" /\ pc' = "clear" /\ \E e : obq' = Append(obq, e)
      BY <2>3 DEF SendMessage
    <3>2. PICK e : obq' = Append(obq, e)
      BY <3>1
    <3>3. PICK S : obq \in Seq(S)
      BY DEF ReplyInv
    <3>4. obq \in Seq(S \cup {e})
      BY <3>3, SeqDef
    <3>5. Len(obq') = Len(obq) + 1
      BY <3>2, <3>4, AppendProperties
    <3> QED
      BY <3>1, <3>5, <1>A, <1>B DEF Busy
  <2>4. CASE ClearBuffers
    BY <2>4, <1>A, <1>B DEF ClearBuffers, Busy
  <2> QED
    BY <2>1, <2>2, <2>3, <2>4
<1>3. Busy' \in {0, 1}
  BY DEF Busy
<1>4. Len(obq') \in Nat
  <2>1. ReplyInv'
    BY ReplyInvPreserved DEF Next
  <2> QED
    BY <2>1, LenProperties DEF ReplyInv
<1> QED
  <2>1. InFlight' <= InFlight /\ InFlight' \in Nat /\ InFlight \in Nat
    BY <1>1, <1>2, <1>3, <1>4, <1>A, <1>B DEF InFlight
  <2>2. Fit(wire') /\ Fit(ibq')
    BY <1>1 DEF WaitInv
  <2> QED
    BY <2>1, <2>2, <1>1, <1>A, <1>B DEF WaitInv

(* The host and the bus, with whole frames and one request at a time.      *)
LEMMA WaitHost ==
  ASSUME Window = 1, ~Fragmenting, \A r \in Requests : Len(Frame(r)) <= BufLen,
         ReadInv, ReplyInv, WaitInv,
         (\E r \in Requests : HostSend(r)) \/ UsbDeliver \/ HostReceive \/ HostTimeout
  PROVE  WaitInv'
<1>A. /\ Len(wire) \in Nat /\ Len(ibq) \in Nat /\ Len(obq) \in Nat /\ Len(outstanding) \in Nat
      /\ bytesRead \in Nat /\ Busy \in {0, 1}
      /\ IbqBuffers \in Nat /\ BufLen \in Nat \ {0} /\ ObqRoom \in Nat \ {0}
  BY WaitLengths
<1>B. /\ Len(wire) <= Len(outstanding) /\ Len(outstanding) <= 1 /\ Len(ibq) <= IbqBuffers
       /\ InFlight <= IbqBuffers + 1 + Len(outstanding)
       /\ InFlight = Len(wire) + Len(ibq) + Busy + Len(obq)
       /\ outstanding \in Seq(Requests) /\ Fit(wire) /\ Fit(ibq)
  BY DEF WaitInv, InFlight
<1>1. /\ wire \in Seq(Clean) /\ ibq \in Seq(Clean) /\ outstanding \in Seq(Requests)
      /\ Fit(wire) /\ Fit(ibq)
  BY DEF ReadInv, QueuesHoldText, WaitInv
<1>2. UNCHANGED <<pc, bytesRead>> /\ Busy' = Busy
  BY DEF HostSend, UsbDeliver, HostReceive, HostTimeout, threadVars, Busy
<1>3. CASE \E r \in Requests : HostSend(r)
  <2>1. PICK r \in Requests : HostSend(r)
    BY <1>3
  <2>2. Frame(r) \in Clean
    BY FrameIsClean
  <2> DEFINE f == Frame(r)
  <2>3. /\ wire' = wire \o <<f>> /\ outstanding' = Append(outstanding, r)
        /\ Len(outstanding) < 1 /\ ibq' = ibq /\ obq' = obq
    BY <2>1 DEF HostSend, Transfers
  <2>4. f \in Clean /\ Len(f) <= BufLen
    BY <2>2
  <2> HIDE DEF f
  <2>5. wire = << >>
    BY <2>3, <1>1, <1>A, <1>B, EmptySeq DEF WaitInv
  <2>6. << >> \in Seq(Clean) /\ Fit(<< >>)
    BY DEF Fit
  <2>7. wire' = <<f>> \o << >>
    BY <2>3, <2>5
  <2>8. Fit(wire') /\ Len(wire') = Len(<< >>) + 1
    BY <2>4, <2>6, <2>7, FitEnds
  <2>9. outstanding' \in Seq(Requests) /\ Len(outstanding') = Len(outstanding) + 1
    BY <2>3, <1>1, AppendProperties
  <2>10. Len(wire') = 1 /\ Len(wire) = 0 /\ Len(outstanding) = 0
    BY <2>3, <2>5, <2>8, <1>A, <1>B
  <2> QED
    BY <2>3, <2>8, <2>9, <2>10, <1>1, <1>2, <1>A, <1>B DEF WaitInv, InFlight, Fit
<1>4. CASE UsbDeliver
  <2>1. /\ wire # << >> /\ Len(ibq) < IbqBuffers
        /\ ibq' = Append(ibq, Head(wire)) /\ wire' = Tail(wire)
        /\ obq' = obq /\ outstanding' = outstanding
    BY <1>4 DEF UsbDeliver
  <2>2. /\ Head(wire) \in Clean /\ Len(Head(wire)) <= BufLen
        /\ Fit(Tail(wire)) /\ Len(Tail(wire)) = Len(wire) - 1
    BY <2>1, <1>1, FitTail
  <2>3. Fit(ibq') /\ Len(ibq') = Len(ibq) + 1
    BY <2>1, <2>2, <1>1, FitEnds
  <2>4. Fit(wire') /\ Len(wire') = Len(wire) - 1
    BY <2>1, <2>2
  <2> QED
    BY <2>1, <2>3, <2>4, <1>1, <1>2, <1>A, <1>B DEF WaitInv, InFlight
<1>5. CASE HostReceive \/ HostTimeout
  <2>1. /\ wire = << >> /\ outstanding # << >> /\ outstanding' = Tail(outstanding)
        /\ wire' = wire /\ ibq' = ibq
    BY <1>5 DEF HostReceive, HostTimeout
  <2>2. outstanding' \in Seq(Requests) /\ Len(outstanding') = Len(outstanding) - 1
    BY <2>1, <1>1, HeadTailProperties, LenProperties
  <2>3. Len(wire) = 0 /\ Len(outstanding) = 1
    <3>1. Len(outstanding) # 0
      BY <2>1, <1>1, EmptySeq
    <3>2. Len(wire) = 0
      BY <2>1
    <3>3. Len(outstanding) \in Nat /\ Len(outstanding) <= 1
      BY <1>A, <1>B, Zenon
    <3>4. \A n \in Nat : n # 0 /\ n <= 1 => n = 1
      OBVIOUS
    <3> QED
      BY <3>1, <3>2, <3>3, <3>4, Zenon
  <2>4. \/ Len(obq') = Len(obq) - 1
        \/ obq' = obq /\ Len(obq) = 0
    <3>1. CASE HostReceive
      <4>1. PICK S : obq \in Seq(S)
        BY DEF ReplyInv
      <4> QED
        BY <3>1, <4>1, HeadTailProperties DEF HostReceive
    <3>2. CASE HostTimeout
      BY <3>2 DEF HostTimeout
    <3> QED
      BY <3>1, <3>2, <1>5
  <2>5. Fit(wire') /\ Fit(ibq')
    BY <2>1, <1>1
  <2>6. InFlight' <= IbqBuffers + 1 + Len(outstanding')
    BY <2>1, <2>2, <2>3, <2>4, <1>2, <1>A, <1>B DEF WaitInv, InFlight
  <2>7. Len(wire') <= Len(outstanding') /\ Len(outstanding') <= 1 /\ Len(ibq') <= IbqBuffers
    BY <2>1, <2>2, <2>3, <1>A, <1>B
  <2> QED
    BY <2>2, <2>5, <2>6, <2>7, Zenon DEF WaitInv
<1> QED
  BY <1>3, <1>4, <1>5

(***************************************************************************)
(* With one request at a time, in whole frames that the read buffer has    *)
(* room for, the board in chnWrite and the host in flush never wait for    *)
(* each other, however often the host gives up on a reply and however      *)
(* large or small the two queues are.                                      *)
(***************************************************************************)
THEOREM NeverWaitForEachOther ==
  ASSUME Window = 1, ~Fragmenting, \A r \in Requests : Len(Frame(r)) <= BufLen
  PROVE  Spec => []NoCircularWait
<1> DEFINE Inv == ReadInv /\ ReplyInv /\ WaitInv
<1>1. Init => Inv
  <2> SUFFICES ASSUME Init PROVE Inv
    OBVIOUS
  <2>1. << >> \in Seq(Cells) /\ << >> \in Seq(Requests) /\ Len(<< >>) = 0
    OBVIOUS
  <2>2. ReplyInv
    BY <2>1 DEF Init, ReplyInv, HeaderMatchesPayload
  <2>3. WaitInv
    BY <2>1, BoundsAssumption DEF Init, WaitInv, InFlight, Busy, Fit
  <2> QED
    BY <2>2, <2>3, ReadInvInit
<1>2. Inv /\ [Next]_vars => Inv'
  <2> SUFFICES ASSUME Inv, [Next]_vars PROVE Inv'
    OBVIOUS
  <2>1. ReadInv'
    BY ReadInvPreserved
  <2>2. ReplyInv'
    BY ReplyInvPreserved
  <2>3. WaitInv'
    <3>1. CASE UNCHANGED vars
      BY <3>1 DEF vars, WaitInv, InFlight, Busy, Fit
    <3>2. CASE ReadReturn \/ DecodeMessage \/ SendMessage \/ ClearBuffers
      BY <3>2, WaitThread
    <3>3. CASE (\E r \in Requests : HostSend(r)) \/ UsbDeliver \/ HostReceive \/ HostTimeout
      BY <3>3, WaitHost
    <3>4. CASE ReadChunk
      BY <3>4, WaitReadChunk
    <3> QED
      BY <3>1, <3>2, <3>3, <3>4 DEF Next
  <2> QED
    BY <2>1, <2>2, <2>3
<1>3. Inv => NoCircularWait
  <2> SUFFICES ASSUME Inv, pc = "send", Len(obq) >= ObqRoom, wire # << >>, Len(ibq) >= IbqBuffers
               PROVE  FALSE
    BY DEF NoCircularWait
  <2>1. Len(wire) >= 1
    BY WaitLengths, EmptySeq DEF ReadInv, QueuesHoldText
  <2>2. Busy = 1
    BY DEF Busy
  <2> QED
    BY <2>1, <2>2, WaitLengths DEF WaitInv, InFlight
<1> QED
  BY <1>1, <1>2, <1>3, PTL DEF Spec
-----------------------------------------------------------------------------
(* The C string in a buffer.                                               *)
LEMMA CStringType == \A b \in Text : CString(b) \in Text
<1> SUFFICES ASSUME NEW b \in Text PROVE CString(b) \in Text
  OBVIOUS
<1> DEFINE end == SelectInSeq(b, LAMBDA c : c = NUL)
<1>1. NUL \in Cells
  BY CellsAssumption, Zenon
<1>2. FirstCell(end, b, {NUL})
  BY <1>1, Searches, Zenon
<1>3. CString(b) = IF end = 0 THEN b ELSE SubSeq(b, 1, end - 1)
  BY DEF CString
<1> HIDE DEF end
<1>4. end \in 0..Len(b) /\ Len(b) \in Nat
  BY <1>2, LenProperties DEF FirstCell, Text
<1>5. CASE end # 0
  <2> DEFINE n == end - 1
  <2>1. n \in 0..Len(b) /\ 0 \in Nat
    BY <1>4, <1>5
  <2> HIDE DEF n
  <2>2. SubSeq(b, 0 + 1, n) \in Text
    BY <2>1, Piece DEF Text
  <2> QED
    BY <2>2, <1>3, <1>5 DEF n
<1> QED
  BY <1>3, <1>5

(* ... is what this read has received when it is decoded.                  *)
LEMMA DecodesReceived ==
  ASSUME ReadInv, pc = "decode", readBuffer \in [1..BufLen -> Cells]
  PROVE  CString(readBuffer) = received
<1> DEFINE end == SelectInSeq(readBuffer, LAMBDA c : c = NUL)
<1>1. NUL \in Cells
  BY CellsAssumption, Zenon
<1>2. BufLen \in Nat /\ readBuffer \in Text /\ Len(readBuffer) = BufLen
  BY BoundsAssumption, SeqDef DEF Text
<1>3. FirstCell(end, readBuffer, {NUL})
  BY <1>1, <1>2, Searches, Zenon
<1>4. CString(readBuffer) = IF end = 0 THEN readBuffer ELSE SubSeq(readBuffer, 1, end - 1)
  BY DEF CString
<1> HIDE DEF end
<1>5. /\ bytesRead \in Nat /\ bytesRead <= BufLen /\ Len(received) = bytesRead
      /\ received \in Clean /\ bytesRead > MinBytes
      /\ \A i \in 1..BufLen : i <= bytesRead => readBuffer[i] = received[i]
      /\ \A i \in 1..BufLen : i > bytesRead /\ i > MinBytes => readBuffer[i] = NUL
  BY DEF ReadInv, BufferHoldsThisRead, StaleOnlyAtTheStart
<1>6. \A i \in 1..bytesRead : received[i] # NUL
  BY <1>5, ElementOfSeq DEF Clean
<1>7. \A i \in 1..bytesRead : i \in 1..BufLen /\ readBuffer[i] = received[i]
  BY <1>2, <1>5
<1>8. CASE bytesRead = BufLen
  <2>1. end = 0
    BY <1>2, <1>3, <1>6, <1>7, <1>8 DEF FirstCell
  <2>2. readBuffer = received
    <3>1. received \in Text
      BY <1>5, SeqDef DEF Clean, Text
    <3> QED
      BY <3>1, <1>2, <1>5, <1>7, <1>8, SeqEqual DEF Text
  <2> QED
    BY <2>1, <2>2, <1>4
<1>9. CASE bytesRead # BufLen
  <2> DEFINE k == bytesRead + 1
  <2>1. k \in 1..Len(readBuffer) /\ readBuffer[k] \in {NUL} /\ Len(readBuffer) \in Nat
    BY <1>2, <1>5, <1>9 DEF MinBytes
  <2>2. \A j \in 1..(k - 1) : readBuffer[j] \notin {NUL}
    BY <1>5, <1>6, <1>7
  <2>3. k \in Nat /\ k - 1 = bytesRead /\ k # 0
    BY <1>5
  <2> HIDE DEF k
  <2>4. end = k
    BY <1>3, <2>1, <2>2, FirstCellUnique
  <2> DEFINE p == SubSeq(readBuffer, 0 + 1, bytesRead)
  <2>5. 0 \in Nat /\ bytesRead \in 0..Len(readBuffer)
    BY <1>2, <1>5
  <2>6. p \in Text /\ Len(p) = bytesRead - 0 /\ \A j \in 1..(bytesRead - 0) : p[j] = readBuffer[0 + j]
    BY <1>2, <2>5, Piece DEF Text
  <2>7. CString(readBuffer) = p
    BY <1>4, <2>3, <2>4
  <2> HIDE DEF p
  <2>8. Len(p) = bytesRead /\ \A j \in 1..bytesRead : p[j] = readBuffer[j]
    BY <2>6, <1>5
  <2>9. received \in Text
    BY <1>5, SeqDef DEF Clean, Text
  <2>10. p = received
    BY <2>6, <2>8, <2>9, <1>5, <1>7, SeqEqual DEF Text
  <2> QED
    BY <2>7, <2>10
<1> QED
  BY <1>8, <1>9
-----------------------------------------------------------------------------
(* The thread's own steps keep the types.                                  *)
LEMMA TypesRead == ReadInv /\ ReadInv' /\ TypeOK /\ (ReadChunk \/ ReadReturn) => TypeOK'
<1> SUFFICES ASSUME ReadInv, ReadInv', TypeOK, ReadChunk \/ ReadReturn PROVE TypeOK'
  OBVIOUS
<1>1. /\ received' \in Seq(Cells \ {NUL}) /\ wire' \in Seq(Seq(Cells \ {NUL}))
      /\ ibq' \in Seq(Seq(Cells \ {NUL})) /\ bytesRead' \in 0..BufLen
  <2>1. bytesRead' \in Nat /\ bytesRead' <= BufLen /\ BufLen \in Nat
    BY BoundsAssumption DEF ReadInv, BufferHoldsThisRead
  <2> QED
    BY <2>1 DEF ReadInv, QueuesHoldText, BufferHoldsThisRead, Clean
<1>2. /\ pc' \in {"read", "decode", "send", "clear"}
      /\ UNCHANGED <<writeBuffer, msgLength, board, obq, outstanding>>
  BY DEF ReadChunk, ReadReturn
<1>3. readBuffer' \in [1..BufLen -> Cells]
  <2>1. CASE ReadReturn
    BY <2>1 DEF TypeOK, ReadReturn
  <2>2. CASE ReadChunk
    <3> DEFINE transfer == Head(ibq)
               room     == BufLen - bytesRead
               size     == IF Len(transfer) > room THEN room ELSE Len(transfer)
    <3>1. readBuffer' = [i \in 1..BufLen |->
                          IF i > bytesRead /\ i <= bytesRead + size
                          THEN transfer[i - bytesRead] ELSE readBuffer[i]]
      BY <2>2 DEF ReadChunk
    <3>2. transfer \in Seq(Cells \ {NUL})
      BY <2>2, HeadTailProperties DEF TypeOK, ReadChunk
    <3>3. BufLen \in Nat /\ bytesRead \in Nat /\ Len(transfer) \in Nat
      BY <3>2, BoundsAssumption, LenProperties DEF TypeOK
    <3> HIDE DEF transfer
    <3>4. size <= Len(transfer) /\ size \in Int
      BY <3>3
    <3> HIDE DEF size
    <3>5. ASSUME NEW i \in 1..BufLen, i > bytesRead, i <= bytesRead + size
          PROVE  transfer[i - bytesRead] \in Cells
      <4>1. i - bytesRead \in 1..Len(transfer)
        BY <3>3, <3>4, <3>5
      <4> QED
        BY <4>1, <3>2, ElementOfSeq
    <3>6. \A i \in 1..BufLen : readBuffer[i] \in Cells
      BY DEF TypeOK
    <3> QED
      BY <3>1, <3>5, <3>6
  <2> QED
    BY <2>1, <2>2
<1> QED
  BY <1>1, <1>2, <1>3 DEF TypeOK

(* decodeNetstring, whatever message it is given.                          *)
LEMMA TypesDecode == ReadInv /\ TypeOK /\ DecodeMessage => TypeOK'
<1> SUFFICES ASSUME ReadInv, TypeOK, DecodeMessage PROVE TypeOK'
  OBVIOUS
<1>1. UNCHANGED <<readBuffer, bytesRead, received, wire, ibq, obq, outstanding>>
  BY DEF DecodeMessage
<1>2. readBuffer \in Text
  BY BoundsAssumption, SeqDef DEF TypeOK, Text
<1>3. MessageField(CString(readBuffer)) \in Text
  BY <1>2, CStringType, FieldTypes, Zenon
<1>4. /\ pc' \in {"read", "decode", "send", "clear"}
      /\ writeBuffer' \in Text /\ msgLength' \in Nat /\ board' \in [Lines -> Nat]
  <2>1. CASE pc' = "clear" /\ UNCHANGED <<writeBuffer, msgLength, board>>
    BY <2>1 DEF TypeOK
  <2>2. CASE DecodeNetstring(MessageField(CString(readBuffer)))
    <3> DEFINE m == MessageField(CString(readBuffer))
    <3>1. m \in Text /\ DecodeNetstring(m)
      BY <1>3, <2>2
    <3> HIDE DEF m
    <3>2. SetReply(m) \in Text /\ StatusReply \in Text /\ Value(m) \in Text
      BY <3>1, SetReplyFacts, StatusReplyType, FieldTypes, Zenon
    <3>3. Len(SetReply(m)) \in Nat /\ Len(StatusReply) \in Nat /\ 0 \in Nat
      BY <3>2, LenProperties DEF Text
    <3>4. board \in [Lines -> Nat] /\ writeBuffer \in Text
      BY DEF TypeOK
    <3>5. ProcessCommand(board, Sensor(m), Value(m)) \in [Lines -> Nat]
      BY <3>2, <3>4, ProcessFacts, Zenon
    <3> QED
      BY <3>1, <3>2, <3>3, <3>4, <3>5, Zenon DEF DecodeNetstring
  <2> QED
    BY <2>1, <2>2 DEF DecodeMessage
<1> QED
  BY <1>1, <1>4 DEF TypeOK

(* sendMessage, the memsets, and the other side.                           *)
LEMMA TypesOther ==
  ReadInv' /\ TypeOK /\ (\/ SendMessage \/ ClearBuffers
                         \/ \E r \in Requests : HostSend(r)
                         \/ UsbDeliver \/ HostReceive \/ HostTimeout) => TypeOK'
<1> SUFFICES ASSUME ReadInv', TypeOK,
                    \/ SendMessage \/ ClearBuffers
                    \/ \E r \in Requests : HostSend(r)
                    \/ UsbDeliver \/ HostReceive \/ HostTimeout
             PROVE  TypeOK'
  OBVIOUS
<1>1. /\ received' \in Seq(Cells \ {NUL}) /\ wire' \in Seq(Seq(Cells \ {NUL}))
      /\ ibq' \in Seq(Seq(Cells \ {NUL})) /\ bytesRead' \in 0..BufLen
  <2>1. bytesRead' \in Nat /\ bytesRead' <= BufLen /\ BufLen \in Nat
    BY BoundsAssumption DEF ReadInv, BufferHoldsThisRead
  <2> QED
    BY <2>1 DEF ReadInv, QueuesHoldText, BufferHoldsThisRead, Clean
<1>2. CASE SendMessage
  <2> DEFINE e == [size |-> msgLength, msg |-> writeBuffer]
  <2>1. e \in [size : Nat, msg : Text]
    BY DEF TypeOK
  <2>2. obq' = Append(obq, e) /\ pc' = "clear"
        /\ UNCHANGED <<readBuffer, writeBuffer, msgLength, board, outstanding>>
    BY <1>2 DEF SendMessage
  <2> HIDE DEF e
  <2>3. obq' \in Seq([size : Nat, msg : Text])
    BY <2>1, <2>2, AppendProperties DEF TypeOK
  <2> QED
    BY <1>1, <2>2, <2>3 DEF TypeOK
<1>3. CASE ClearBuffers
  <2>1. << >> \in Text /\ NUL \in Cells
    <3>1. NUL \in Cells
      BY CellsAssumption, Zenon
    <3> QED
      BY <3>1 DEF Text
  <2>2. /\ readBuffer' = Zeroed /\ writeBuffer' = << >> /\ pc' = "read"
        /\ UNCHANGED <<msgLength, board, obq, outstanding>>
    BY <1>3 DEF ClearBuffers
  <2>3. Zeroed \in [1..BufLen -> Cells]
    BY <2>1 DEF Zeroed
  <2> QED
    BY <1>1, <2>1, <2>2, <2>3 DEF TypeOK
<1>4. CASE \/ \E r \in Requests : HostSend(r)
           \/ UsbDeliver \/ HostReceive \/ HostTimeout
  <2>1. UNCHANGED <<pc, readBuffer, writeBuffer, msgLength, board>>
    BY <1>4 DEF HostSend, UsbDeliver, HostReceive, HostTimeout, threadVars
  <2>2. outstanding' \in Seq(Requests)
    <3>1. outstanding \in Seq(Requests)
      BY DEF TypeOK
    <3>2. ASSUME NEW r \in Requests, HostSend(r) PROVE outstanding' \in Seq(Requests)
      BY <3>1, <3>2, AppendProperties DEF HostSend
    <3>3. CASE UsbDeliver \/ HostReceive \/ HostTimeout
      BY <3>1, <3>3, HeadTailProperties DEF UsbDeliver, HostReceive, HostTimeout
    <3> QED
      BY <1>4, <3>2, <3>3
  <2>3. obq' \in Seq([size : Nat, msg : Text])
    BY <1>4, HeadTailProperties DEF TypeOK, HostSend, UsbDeliver, HostReceive, HostTimeout
  <2> QED
    BY <1>1, <2>1, <2>2, <2>3 DEF TypeOK
<1> QED
  BY <1>2, <1>3, <1>4

LEMMA TypesInit == Init => TypeOK
<1> SUFFICES ASSUME Init PROVE TypeOK
  OBVIOUS
<1>1. NUL \in Cells /\ 0 \in Nat /\ 0 \in 0..BufLen
  <2>1. NUL \in Cells
    BY CellsAssumption, Zenon
  <2> QED
    BY <2>1, BoundsAssumption
<1>2. \A S : << >> \in Seq(S)
  OBVIOUS
<1>3. Zeroed \in [1..BufLen -> Cells]
  BY <1>1 DEF Zeroed
<1>4. [l \in Lines |-> 0] \in [Lines -> Nat]
  OBVIOUS
<1> QED
  BY <1>1, <1>2, <1>3, <1>4, Zenon DEF Init, TypeOK, Text

LEMMA TypesPreserved == ReadInv /\ TypeOK /\ [Next]_vars => TypeOK'
<1> SUFFICES ASSUME ReadInv, TypeOK, [Next]_vars PROVE TypeOK'
  OBVIOUS
<1>1. ReadInv'
  BY ReadInvPreserved
<1>2. CASE UNCHANGED vars
  BY <1>2 DEF vars, TypeOK
<1> QED
  BY <1>1, <1>2, TypesRead, TypesDecode, TypesOther DEF Next

(***************************************************************************)
(* Whatever text the host frames and however it is cut, the buffers of the *)
(* thread hold text and the outputs numbers: decodeMessage and             *)
(* decodeNetstring are defined on everything that can be received.         *)
(***************************************************************************)
THEOREM TypeCorrect == Spec => []TypeOK
<1>1. ReadInv /\ TypeOK /\ [Next]_vars => (ReadInv /\ TypeOK)'
  BY ReadInvPreserved, TypesPreserved
<1> QED
  BY <1>1, ReadInvInit, TypesInit, PTL DEF Spec
-----------------------------------------------------------------------------
(***************************************************************************)
(* One request at a time.  The host waits for each reply, and each request *)
(* is text without the delimiter that ends it and fits the read buffer in  *)
(* its frame.  Then there is one request between the host and the host,    *)
(* and it is always in exactly one place.                                  *)
(***************************************************************************)
OneAtATime ==
  /\ Window = 1
  /\ ~Fragmenting
  /\ ~HostTimesOut
  /\ \A r \in Requests : Plain(r) /\ Len(Frame(r)) <= BufLen

Resting == pc \in {"read", "clear"} /\ (pc = "read" => bytesRead = 0)

(* The verdict of a set is true.                                           *)
Obeyed(r) ==
  Strstr(Command(r), "set") =>
    /\ ProcessCommand(board, Sensor(r), Value(r)) = board
    /\ Last(AnswerTo(r)) = "ACK" <=> Selected(Sensor(r)) # "none"

Idle == outstanding = << >> /\ wire = << >> /\ ibq = << >> /\ obq = << >> /\ Resting

OnWire(r) ==
  outstanding = <<r>> /\ wire = <<Frame(r)>> /\ ibq = << >> /\ obq = << >> /\ Resting

Queued(r) ==
  outstanding = <<r>> /\ wire = << >> /\ ibq = <<Frame(r)>> /\ obq = << >> /\ Resting

Reading(r) ==
  /\ outstanding = <<r>> /\ wire = << >> /\ ibq = << >> /\ obq = << >>
  /\ pc \in {"read", "decode"} /\ received = Frame(r)

Answering(r) ==
  /\ outstanding = <<r>> /\ wire = << >> /\ ibq = << >> /\ obq = << >>
  /\ pc = "send" /\ writeBuffer = AnswerTo(r) /\ Obeyed(r)

Answered(r) ==
  /\ outstanding = <<r>> /\ wire = << >> /\ ibq = << >>
  /\ \E n : obq = <<[size |-> n, msg |-> AnswerTo(r)]>>
  /\ Resting /\ Obeyed(r)

PlaceInv ==
  \/ Idle
  \/ \E r \in Requests : \/ OnWire(r) \/ Queued(r) \/ Reading(r)
                         \/ Answering(r) \/ Answered(r)

(* The host sends when nothing else is under way, and gets its reply.      *)
LEMMA PlaceHost ==
  ASSUME OneAtATime, PlaceInv,
         (\E r \in Requests : HostSend(r)) \/ UsbDeliver \/ HostReceive \/ HostTimeout
  PROVE  PlaceInv'
<1>1. CASE \E r \in Requests : HostSend(r)
  <2>1. PICK r \in Requests : HostSend(r)
    BY <1>1
  <2> DEFINE f == Frame(r)
  <2>2. /\ wire' = wire \o <<f>> /\ outstanding' = Append(outstanding, r)
        /\ Len(outstanding) < 1 /\ ibq' = ibq /\ obq' = obq
        /\ UNCHANGED <<pc, bytesRead>>
    BY <2>1 DEF HostSend, Transfers, OneAtATime, threadVars
  <2>3. \A q : Len(<<q>>) = 1
    OBVIOUS
  <2>4. Idle
    BY <2>2, <2>3 DEF PlaceInv, OnWire, Queued, Reading, Answering, Answered
  <2> HIDE DEF f
  <2>5. << >> \o <<f>> = <<f>> /\ Append(<< >>, r) = <<r>>
    OBVIOUS
  <2>6. OnWire(r)'
    BY <2>2, <2>4, <2>5 DEF Idle, OnWire, Resting, f
  <2> QED
    BY <2>6 DEF PlaceInv
<1>2. CASE UsbDeliver
  <2>1. /\ wire # << >> /\ ibq' = Append(ibq, Head(wire)) /\ wire' = Tail(wire)
        /\ UNCHANGED <<obq, outstanding, pc, bytesRead>>
    BY <1>2 DEF UsbDeliver, threadVars
  <2>2. PICK r \in Requests : OnWire(r)
    BY <2>1 DEF PlaceInv, Idle, Queued, Reading, Answering, Answered
  <2> DEFINE f == Frame(r)
  <2>3. wire = <<f>> /\ ibq = << >>
    BY <2>2 DEF OnWire
  <2> HIDE DEF f
  <2>4. wire' = << >> /\ ibq' = <<f>>
    BY <2>1, <2>3
  <2>5. Queued(r)'
    BY <2>1, <2>2, <2>4 DEF OnWire, Queued, Resting, f
  <2> QED
    BY <2>5 DEF PlaceInv
<1>3. CASE HostReceive
  <2>1. /\ obq # << >> /\ obq' = Tail(obq) /\ outstanding' = Tail(outstanding)
        /\ UNCHANGED <<wire, ibq, pc, bytesRead>>
    BY <1>3 DEF HostReceive, threadVars
  <2>2. PICK r \in Requests : Answered(r)
    BY <2>1 DEF PlaceInv, Idle, OnWire, Queued, Reading, Answering
  <2>3. \A q : Tail(<<q>>) = << >>
    OBVIOUS
  <2>4. outstanding' = << >> /\ obq' = << >>
    BY <2>1, <2>2, <2>3 DEF Answered
  <2> QED
    BY <2>1, <2>2, <2>4 DEF PlaceInv, Idle, Answered, Resting
<1>4. CASE HostTimeout
  BY <1>4 DEF HostTimeout, OneAtATime
<1> QED
  BY <1>1, <1>2, <1>3, <1>4

(* A frame that is read is longer than a read that is ignored.             *)
LEMMA FrameLengths ==
  ASSUME OneAtATime, NEW r \in Requests
  PROVE  /\ r \in Text /\ Plain(r) /\ Frame(r) \in Clean /\ Len(r) \in Nat
         /\ Len(Frame(r)) \in Nat /\ Len(Frame(r)) > MinBytes
         /\ Len(Frame(r)) > Len(r) /\ Len(Frame(r)) <= BufLen
<1> DEFINE f == Frame(r)
           l == Len(Decimal[Len(r)])
<1>1. r \in Text /\ Plain(r) /\ f \in Clean /\ Len(f) <= BufLen
  BY FrameIsClean DEF OneAtATime
<1>2. l \in Nat \ {0} /\ Len(r) \in Nat /\ Len(f) = l + Len(r) + 2
  BY <1>1, FrameFacts
<1>3. Len(r) # 0
  BY <1>1, EmptySeq DEF Plain, Text
<1> HIDE DEF f, l
<1>4. Len(f) \in Nat /\ Len(f) > 3 /\ Len(f) > Len(r)
  BY <1>2, <1>3
<1> QED
  BY <1>1, <1>2, <1>4 DEF f, MinBytes

(* The read gathers the request, whole.                                    *)
LEMMA PlaceRead ==
  ASSUME OneAtATime, ReadInv, PlaceInv, ReadChunk \/ ReadReturn \/ ClearBuffers
  PROVE  PlaceInv'
<1>1. CASE ReadChunk
  <2>1. pc = "read" /\ ibq # << >>
    BY <1>1 DEF ReadChunk
  <2>2. PICK r \in Requests : Queued(r)
    BY <2>1 DEF PlaceInv, Idle, OnWire, Reading, Answering, Answered
  <2> DEFINE f == Frame(r)
  <2>3. ibq = <<f>> /\ bytesRead = 0 /\ Head(ibq) = f /\ Tail(ibq) = << >>
    BY <2>1, <2>2 DEF Queued, Resting
  <2>4. f \in Clean /\ Len(f) \in Nat /\ Len(f) <= BufLen /\ BufLen \in Nat
    BY FrameLengths, BoundsAssumption
  <2>5. received = << >>
    BY <2>3, EmptySeq DEF ReadInv, BufferHoldsThisRead, Clean
  <2> HIDE DEF f
  <2>6. SubSeq(f, 1, Len(f)) = f /\ << >> \o f = f
    BY <2>4, SubSeqFull, ConcatEmptySeq DEF Clean
  <2>7. received' = f /\ ibq' = << >> /\ UNCHANGED <<pc, wire, obq, outstanding>>
    <3> DEFINE size == IF Len(f) > BufLen - 0 THEN BufLen - 0 ELSE Len(f)
    <3>1. size = Len(f)
      BY <2>4
    <3>2. /\ received' = received \o SubSeq(f, 1, size)
          /\ ibq' = IF size = Len(f) THEN Tail(ibq)
                    ELSE <<SubSeq(f, size + 1, Len(f))>> \o Tail(ibq)
          /\ UNCHANGED <<pc, wire, obq, outstanding>>
      BY <1>1, <2>3 DEF ReadChunk
    <3> HIDE DEF size
    <3> QED
      BY <3>1, <3>2, <2>3, <2>5, <2>6
  <2>8. Reading(r)'
    BY <2>1, <2>2, <2>7 DEF Reading, Queued, f
  <2> QED
    BY <2>8 DEF PlaceInv
<1>2. CASE ReadReturn
  <2>1. pc = "read" /\ UNCHANGED <<board, wire, ibq, obq, outstanding>>
    BY <1>2 DEF ReadReturn
  <2>2. CASE \E r \in Requests : Reading(r)
    <3>1. PICK r \in Requests : Reading(r)
      BY <2>2
    <3>2. bytesRead > MinBytes
      <4>1. bytesRead = Len(Frame(r))
        BY <3>1 DEF Reading, ReadInv, BufferHoldsThisRead
      <4> QED
        BY <4>1, FrameLengths
    <3>3. pc' = "decode" /\ received' = received
      BY <1>2, <3>2 DEF ReadReturn
    <3>4. Reading(r)'
      BY <3>1, <3>3, <2>1 DEF Reading
    <3> QED
      BY <3>4 DEF PlaceInv
  <2>3. CASE Resting
    <3>1. bytesRead = 0
      BY <2>1, <2>3 DEF Resting
    <3>2. pc' = "read" /\ bytesRead' = 0
      BY <1>2, <3>1 DEF ReadReturn, MinBytes
    <3>3. Resting'
      BY <3>2 DEF Resting
    <3>4. ASSUME NEW r \in Requests, Queued(r) PROVE PlaceInv'
      BY <3>3, <3>4, <2>1 DEF Queued, PlaceInv
    <3>5. \A r \in Requests : ~Reading(r) \/ PlaceInv'
      BY <2>2
    <3>6. CASE Idle
      BY <3>3, <3>6, <2>1 DEF Idle, PlaceInv
    <3>7. ASSUME NEW r \in Requests, OnWire(r) PROVE PlaceInv'
      BY <3>3, <3>7, <2>1 DEF OnWire, PlaceInv
    <3>8. ASSUME NEW r \in Requests, Answered(r) PROVE PlaceInv'
      <4>1. Answered(r)'
        BY <3>3, <3>8, <2>1 DEF Answered, Obeyed
      <4> QED
        BY <4>1 DEF PlaceInv
    <3> QED
      BY <3>4, <3>5, <3>6, <3>7, <3>8, <2>1 DEF PlaceInv, Answering
  <2> QED
    BY <2>1, <2>2, <2>3 DEF PlaceInv, Idle, OnWire, Queued, Answering, Answered
<1>3. CASE ClearBuffers
  <2>1. pc = "clear" /\ pc' = "read" /\ bytesRead' = 0
        /\ UNCHANGED <<board, wire, ibq, obq, outstanding>>
    BY <1>3 DEF ClearBuffers
  <2>2. Resting'
    BY <2>1 DEF Resting
  <2>3. CASE Idle
    BY <2>1, <2>2, <2>3 DEF Idle, PlaceInv
  <2>4. ASSUME NEW r \in Requests, OnWire(r) \/ Queued(r) PROVE PlaceInv'
    BY <2>1, <2>2, <2>4 DEF OnWire, Queued, PlaceInv
  <2>5. ASSUME NEW r \in Requests, Answered(r) PROVE PlaceInv'
    <3>1. Answered(r)'
      BY <2>1, <2>2, <2>5 DEF Answered, Obeyed
    <3> QED
      BY <3>1 DEF PlaceInv
  <2> QED
    BY <2>1, <2>3, <2>4, <2>5 DEF PlaceInv, Reading, Answering
<1> QED
  BY <1>1, <1>2, <1>3
(* decodeMessage finds the request that the host sent.                     *)
LEMMA DecodesRequest ==
  ASSUME OneAtATime, ReadInv, TypeOK, PlaceInv, pc = "decode"
  PROVE  \E r \in Requests :
           /\ Reading(r) /\ bytesRead = Len(Frame(r))
           /\ LengthField(CString(readBuffer)) = Len(r)
           /\ MessageField(CString(readBuffer)) = r
<1>1. PICK r \in Requests : Reading(r)
  BY DEF PlaceInv, Idle, OnWire, Queued, Answering, Answered, Resting
<1>2. received = Frame(r) /\ bytesRead = Len(Frame(r))
  BY <1>1 DEF Reading, ReadInv, BufferHoldsThisRead
<1>3. CString(readBuffer) = Frame(r)
  BY <1>2, DecodesReceived DEF TypeOK
<1>4. r \in Text /\ Plain(r)
  BY FrameLengths, Zenon
<1>5. LengthField(Frame(r)) = Len(r) /\ MessageField(Frame(r)) = r
  BY <1>4, FrameDecodes, Zenon
<1> QED
  BY <1>1, <1>2, <1>3, <1>5, Zenon

(* It executes it.                                                         *)
LEMMA DecodesOnce ==
  ASSUME OneAtATime, ReadInv, TypeOK, PlaceInv, DecodeMessage
  PROVE  \E r \in Requests :
           Reading(r) /\ DecodeNetstring(r) /\ UNCHANGED <<wire, ibq, obq, outstanding>>
<1>1. PICK r \in Requests :
           /\ Reading(r) /\ bytesRead = Len(Frame(r))
           /\ LengthField(CString(readBuffer)) = Len(r)
           /\ MessageField(CString(readBuffer)) = r
  <2>1. pc = "decode"
    BY DEF DecodeMessage
  <2> QED
    BY <2>1, DecodesRequest, Zenon
<1>2. Len(r) # -1 /\ Len(r) < bytesRead
  BY <1>1, FrameLengths
<1> DEFINE n == LengthField(CString(readBuffer))
           m == MessageField(CString(readBuffer))
<1>3. /\ IF n # -1 /\ n < bytesRead THEN DecodeNetstring(m)
         ELSE pc' = "clear" /\ UNCHANGED <<writeBuffer, msgLength, board>>
      /\ UNCHANGED <<wire, ibq, obq, outstanding>>
  BY DEF DecodeMessage
<1>4. n = Len(r) /\ m = r
  BY <1>1
<1> HIDE DEF n, m
<1> QED
  BY <1>1, <1>2, <1>3, <1>4

(* It is answered.                                                         *)
LEMMA PlaceDecode ==
  ASSUME OneAtATime, ReadInv, ReplyInv, TypeOK, PlaceInv, DecodeMessage
  PROVE  PlaceInv'
<1>1. pc = "decode"
  BY DEF DecodeMessage
<1>2. PICK r \in Requests :
           Reading(r) /\ DecodeNetstring(r) /\ UNCHANGED <<wire, ibq, obq, outstanding>>
  BY DecodesOnce, Zenon
<1>3. DecodeNetstring(r) /\ UNCHANGED <<wire, ibq, obq, outstanding>>
  BY <1>2
<1>4. r \in Text
  BY FrameLengths, Zenon
<1>5. pc' = "send" /\ writeBuffer' = AnswerTo(r)
  <2>1. writeBuffer = << >>
    BY <1>1 DEF ReplyInv
  <2> QED
    BY <1>3, <2>1 DEF DecodeNetstring, AnswerTo
<1>6. Obeyed(r)'
  <2> SUFFICES ASSUME Strstr(Command(r), "set")
               PROVE  /\ ProcessCommand(board', Sensor(r), Value(r)) = board'
                      /\ Last(AnswerTo(r)) = "ACK" <=> Selected(Sensor(r)) # "none"
    BY DEF Obeyed
  <2>1. board' = ProcessCommand(board, Sensor(r), Value(r)) /\ AnswerTo(r) = SetReply(r)
    BY <1>3 DEF DecodeNetstring, AnswerTo
  <2>2. board \in [Lines -> Nat] /\ Value(r) \in Text
    BY <1>4, FieldTypes, Zenon DEF TypeOK
  <2>3. ProcessCommand(board', Sensor(r), Value(r)) = board'
    BY <2>1, <2>2, ProcessFacts, Zenon
  <2>4. Last(SetReply(r)) = "ACK" <=> Selected(Sensor(r)) # "none"
    BY <1>4, SetReplyFacts, Zenon
  <2> QED
    BY <2>1, <2>3, <2>4, Zenon
<1>7. Answering(r)'
  BY <1>2, <1>3, <1>5, <1>6, Zenon DEF Answering, Reading
<1> QED
  BY <1>7 DEF PlaceInv

(* The answer goes out.                                                    *)
LEMMA PlaceSend == PlaceInv /\ SendMessage => PlaceInv'
<1> SUFFICES ASSUME PlaceInv, SendMessage PROVE PlaceInv'
  OBVIOUS
<1>1. /\ pc = "send" /\ pc' = "clear"
      /\ obq' = Append(obq, [size |-> msgLength, msg |-> writeBuffer])
      /\ UNCHANGED <<board, wire, ibq, outstanding>>
  BY DEF SendMessage
<1>2. PICK r \in Requests : Answering(r)
  BY <1>1 DEF PlaceInv, Idle, OnWire, Queued, Reading, Answered, Resting
<1>3. \E n : obq' = <<[size |-> n, msg |-> AnswerTo(r)]>>
  <2>1. obq = << >> /\ writeBuffer = AnswerTo(r)
    BY <1>2 DEF Answering
  <2>2. \A e : Append(<< >>, e) = <<e>>
    OBVIOUS
  <2> QED
    BY <1>1, <2>1, <2>2, Zenon
<1>4. Resting'
  BY <1>1 DEF Resting
<1>5. Answered(r)'
  BY <1>1, <1>2, <1>3, <1>4, Zenon DEF Answered, Answering, Obeyed
<1> QED
  BY <1>5 DEF PlaceInv

(* The whole invariant of one request at a time.                           *)
TurnInv == ReadInv /\ ReplyInv /\ TypeOK /\ PlaceInv

LEMMA ReplyInvInit == Init => ReplyInv
<1> SUFFICES ASSUME Init PROVE ReplyInv
  OBVIOUS
<1>1. << >> \in Seq(Cells) /\ Len(<< >>) = 0
  OBVIOUS
<1> QED
  BY <1>1 DEF Init, ReplyInv, HeaderMatchesPayload

LEMMA TurnInvariant ==
  ASSUME OneAtATime
  PROVE  Spec => []TurnInv
<1>1. Init => TurnInv
  <2>1. Init => PlaceInv
    BY DEF Init, PlaceInv, Idle, Resting
  <2> QED
    BY <2>1, ReadInvInit, ReplyInvInit, TypesInit DEF TurnInv
<1>2. TurnInv /\ [Next]_vars => TurnInv'
  <2> SUFFICES ASSUME TurnInv, [Next]_vars PROVE TurnInv'
    OBVIOUS
  <2>1. ReadInv' /\ ReplyInv' /\ TypeOK'
    BY ReadInvPreserved, ReplyInvPreserved, TypesPreserved DEF TurnInv
  <2>2. PlaceInv'
    <3>1. CASE UNCHANGED vars
      BY <3>1 DEF vars, TurnInv, PlaceInv, Idle, OnWire, Queued, Reading, Answering,
                  Answered, Resting, Obeyed
    <3>2. CASE ReadChunk \/ ReadReturn \/ ClearBuffers
      BY <3>2, PlaceRead DEF TurnInv
    <3>3. CASE DecodeMessage
      BY <3>3, PlaceDecode DEF TurnInv
    <3>4. CASE SendMessage
      BY <3>4, PlaceSend DEF TurnInv
    <3>5. CASE (\E r \in Requests : HostSend(r)) \/ UsbDeliver \/ HostReceive \/ HostTimeout
      BY <3>5, PlaceHost DEF TurnInv
    <3> QED
      BY <3>1, <3>2, <3>3, <3>4, <3>5 DEF Next
  <2> QED
    BY <2>1, <2>2 DEF TurnInv
<1> QED
  BY <1>1, <1>2, PTL DEF Spec

(* A reply is only there when its request has been executed.               *)
LEMMA ReplyMeansAnswered ==
  ASSUME PlaceInv, NEW i \in 1..Len(obq)
  PROVE  \E r \in Requests : /\ Answered(r) /\ Head(outstanding) = r
                             /\ obq[i].msg = AnswerTo(r)
<1>1. obq # << >>
  <2>1. Len(<< >>) = 0 /\ 1..0 = {}
    OBVIOUS
  <2> QED
    BY <2>1
<1>2. PICK r \in Requests : Answered(r)
  BY <1>1 DEF PlaceInv, Idle, OnWire, Queued, Reading, Answering
<1>3. PICK n : obq = <<[size |-> n, msg |-> AnswerTo(r)]>>
  BY <1>2 DEF Answered
<1> DEFINE e == [size |-> n, msg |-> AnswerTo(r)]
<1>4. e.msg = AnswerTo(r) /\ obq = <<e>>
  BY <1>3
<1> HIDE DEF e
<1>5. obq[i] = e
  BY <1>4
<1>6. Head(outstanding) = r
  BY <1>2 DEF Answered
<1> QED
  BY <1>2, <1>4, <1>5, <1>6

(***************************************************************************)
(* With one request at a time, any requests and any queue sizes, a reply   *)
(* answers the request the host waits for, and its verdict is true.        *)
(***************************************************************************)
THEOREM RepliesAnswerTheRequest ==
  ASSUME OneAtATime
  PROVE  Spec => []AnswersItsRequest
<1>1. TurnInv => AnswersItsRequest
  <2> SUFFICES ASSUME TurnInv, NEW i \in 1..Len(obq)
               PROVE  LET r == Head(outstanding)
                      IN  /\ outstanding # << >>
                          /\ obq[i].msg = AnswerTo(r)
                          /\ Strstr(Command(r), "set") =>
                               /\ ProcessCommand(board, Sensor(r), Value(r)) = board
                               /\ Last(obq[i].msg) = "ACK" <=> Selected(Sensor(r)) # "none"
    BY DEF AnswersItsRequest
  <2>1. PICK r \in Requests : /\ Answered(r) /\ Head(outstanding) = r
                              /\ obq[i].msg = AnswerTo(r)
    BY ReplyMeansAnswered DEF TurnInv
  <2>2. outstanding # << >>
    BY <2>1 DEF Answered
  <2> QED
    BY <2>1, <2>2, Zenon DEF Answered, Obeyed
<1> QED
  BY <1>1, TurnInvariant, PTL
-----------------------------------------------------------------------------
(***************************************************************************)
(* The node as a service, for a host that waits.                           *)
(***************************************************************************)
ServiceStep == Service!Next \/ UNCHANGED Service!service

(* Nothing that the host could see.                                        *)
LEMMA ServiceRests ==
  ASSUME board' = board, outstanding' = outstanding, ReplyUnderWay' = ReplyUnderWay
  PROVE  ServiceStep
BY DEF ServiceStep, Service!service

LEMMA HostStepServes ==
  ASSUME OneAtATime, PlaceInv,
         (\E r \in Requests : HostSend(r)) \/ UsbDeliver \/ HostReceive \/ HostTimeout
  PROVE  ServiceStep
<1>1. CASE \E r \in Requests : HostSend(r)
  <2>1. PICK r \in Requests : HostSend(r)
    BY <1>1
  <2>2. /\ outstanding' = Append(outstanding, r) /\ Len(outstanding) < 1
        /\ UNCHANGED <<obq, pc, msgLength, writeBuffer, board>>
    BY <2>1 DEF HostSend, OneAtATime, threadVars
  <2>3. \A q : Len(<<q>>) = 1
    OBVIOUS
  <2>4. outstanding = << >>
    BY <2>2, <2>3 DEF PlaceInv, Idle, OnWire, Queued, Reading, Answering, Answered
  <2>5. Append(<< >>, r) = <<r>>
    OBVIOUS
  <2>6. ReplyUnderWay' = ReplyUnderWay
    BY <2>2 DEF ReplyUnderWay
  <2>7. Service!Ask(r)
    BY <2>2, <2>4, <2>5, <2>6, Zenon DEF Service!Ask
  <2> QED
    BY <2>7, Zenon DEF ServiceStep, Service!Next
<1>2. CASE UsbDeliver \/ HostTimeout
  <2>1. UNCHANGED <<board, outstanding, obq, pc, msgLength, writeBuffer>>
    BY <1>2 DEF UsbDeliver, HostTimeout, OneAtATime, threadVars
  <2>2. ReplyUnderWay' = ReplyUnderWay
    BY <2>1 DEF ReplyUnderWay
  <2> QED
    BY <2>1, <2>2, ServiceRests
<1>3. CASE HostReceive
  <2>1. /\ obq # << >> /\ obq' = Tail(obq) /\ outstanding' = Tail(outstanding)
        /\ UNCHANGED <<pc, board>>
    BY <1>3 DEF HostReceive, threadVars
  <2>2. PICK r \in Requests : Answered(r)
    BY <2>1 DEF PlaceInv, Idle, OnWire, Queued, Reading, Answering
  <2>3. \A q : Tail(<<q>>) = << >>
    OBVIOUS
  <2>4. outstanding' = << >> /\ obq' = << >> /\ pc # "send"
    BY <2>1, <2>2, <2>3 DEF Answered, Resting
  <2>5. ReplyUnderWay = obq /\ ReplyUnderWay' = << >>
    BY <2>1, <2>4 DEF ReplyUnderWay
  <2>6. Service!Take
    BY <2>1, <2>4, <2>5, Zenon DEF Service!Take
  <2> QED
    BY <2>6, Zenon DEF ServiceStep, Service!Next
<1> QED
  BY <1>1, <1>2, <1>3

(* Reading, sending and clearing serve nothing.                            *)
LEMMA ThreadStepRests ==
  ASSUME PlaceInv, ReadChunk \/ ReadReturn \/ ClearBuffers \/ SendMessage
  PROVE  ServiceStep
<1>1. UNCHANGED <<board, outstanding>>
  BY DEF ReadChunk, ReadReturn, ClearBuffers, SendMessage
<1>2. CASE ReadChunk \/ ReadReturn \/ ClearBuffers
  <2>1. obq' = obq /\ pc # "send" /\ pc' # "send"
    BY <1>2 DEF ReadChunk, ReadReturn, ClearBuffers
  <2>2. ReplyUnderWay' = ReplyUnderWay
    BY <2>1 DEF ReplyUnderWay
  <2> QED
    BY <1>1, <2>2, ServiceRests
<1>3. CASE SendMessage
  <2>1. ReplyUnderWay' = ReplyUnderWay
    BY <1>3 DEF SendMessage, ReplyUnderWay
  <2> QED
    BY <1>1, <2>1, ServiceRests
<1> QED
  BY <1>2, <1>3

(* decodeMessage executes the request under way, once.                     *)
LEMMA DecodeStepServes ==
  ASSUME OneAtATime, TurnInv, TurnInv', DecodeMessage
  PROVE  ServiceStep
<1>1. pc = "decode" /\ UNCHANGED <<obq, outstanding>>
  BY DEF DecodeMessage
<1>2. PICK r \in Requests : Reading(r) /\ DecodeNetstring(r)
  BY DecodesOnce, Zenon DEF TurnInv
<1>3. outstanding = <<r>> /\ obq = << >>
  BY <1>2 DEF Reading
<1>4. writeBuffer = << >>
  BY <1>1 DEF TurnInv, ReplyInv
<1>5. pc' = "send" /\ writeBuffer' = AnswerTo(r) /\ board' = EffectOf(board, r)
  BY <1>2, <1>4, Zenon DEF DecodeNetstring, AnswerTo, EffectOf
<1>6. msgLength' = Len(AnswerTo(r))
  BY <1>5 DEF TurnInv, ReplyInv
<1>7. ReplyUnderWay = << >> /\ ReplyUnderWay' = <<ReplyTo(r)>>
  <2>1. \A e : Append(<< >>, e) = <<e>>
    OBVIOUS
  <2>2. [size |-> msgLength', msg |-> writeBuffer'] = ReplyTo(r)
    BY <1>5, <1>6, Zenon DEF ReplyTo
  <2>3. ReplyUnderWay' = Append(obq', [size |-> msgLength', msg |-> writeBuffer'])
    BY <1>5, Zenon DEF ReplyUnderWay
  <2>4. ReplyUnderWay = obq
    BY <1>1, Zenon DEF ReplyUnderWay
  <2> QED
    BY <1>1, <1>3, <2>1, <2>2, <2>3, <2>4, Zenon
<1>8. Service!Serve(r)
  BY <1>1, <1>3, <1>5, <1>7, Zenon DEF Service!Serve
<1> QED
  BY <1>8, Zenon DEF ServiceStep, Service!Next

(***************************************************************************)
(* For a host that waits for each answer, communicationThrFunction over    *)
(* the buffered channel is the service: every request is executed exactly  *)
(* once, between its sending and its answer, and the answer is its own.    *)
(***************************************************************************)
THEOREM NodeImplementsService ==
  ASSUME OneAtATime
  PROVE  Spec => ImplementsService
<1>1. Init => Service!Init
  BY DEF Init, Service!Init, ReplyUnderWay
<1>2. TurnInv /\ TurnInv' /\ [Next]_vars => [Service!Next]_(Service!service)
  <2> SUFFICES ASSUME TurnInv, TurnInv', [Next]_vars PROVE ServiceStep
    BY DEF ServiceStep
  <2>1. CASE UNCHANGED vars
    <3>1. ReplyUnderWay' = ReplyUnderWay /\ UNCHANGED <<board, outstanding>>
      BY <2>1 DEF vars, ReplyUnderWay
    <3> QED
      BY <3>1, ServiceRests
  <2>2. CASE ReadChunk \/ ReadReturn \/ ClearBuffers \/ SendMessage
    BY <2>2, ThreadStepRests DEF TurnInv
  <2>3. CASE DecodeMessage
    BY <2>3, DecodeStepServes
  <2>4. CASE (\E r \in Requests : HostSend(r)) \/ UsbDeliver \/ HostReceive \/ HostTimeout
    BY <2>4, HostStepServes DEF TurnInv
  <2> QED
    BY <2>1, <2>2, <2>3, <2>4 DEF Next
<1> QED
  BY <1>1, <1>2, TurnInvariant, PTL DEF Spec, ImplementsService, Service!Spec
-----------------------------------------------------------------------------

(* The width is the product in 32 bits, divided by 10000.                  *)
LEMMA WidthOfProduct ==
  ASSUME NEW n \in Int
  PROVE  \E k \in Int :
           /\ 0 <= 10 * n - 4294967296 * k /\ 10 * n - 4294967296 * k <= 4294967295
           /\ PwmWidth(n) = (10 * n - 4294967296 * k) \div 10000
<1> DEFINE q    == n \div 65536
           s    == n % 65536
           low  == 10 * s
           lh   == low \div 65536
           ll   == low % 65536
           sum  == 10 * q + lh
           high == sum % 65536
           k    == sum \div 65536
           a    == high \div 10000
           rem  == high % 10000
           part == rem * 65536 + ll
           w    == a * 65536 + part \div 10000
           x    == 10 * n - 4294967296 * k
<1>1. PwmWidth(n) = w
  BY SMT DEF PwmWidth, PwmPeriod
<1>2. q \in Int /\ s \in Int /\ 0 <= s /\ s <= 65535 /\ n = 65536 * q + s
  BY SMT
<1> HIDE DEF q, s
<1>3. lh \in Int /\ ll \in Int /\ 0 <= ll /\ ll <= 65535 /\ 10 * s = 65536 * lh + ll
  BY <1>2, SMT
<1> HIDE DEF low, lh, ll
<1>4. k \in Int /\ high \in Int /\ 0 <= high /\ high <= 65535 /\ 10 * q + lh = 65536 * k + high
  BY <1>2, <1>3, SMT
<1> HIDE DEF sum, k, high
<1>5. a \in Int /\ rem \in Int /\ 0 <= rem /\ rem <= 9999 /\ high = 10000 * a + rem
  BY <1>4, SMT
<1> HIDE DEF a, rem
<1>6. part \in Nat /\ part = rem * 65536 + ll
  BY <1>3, <1>5, SMT
<1> HIDE DEF part
<1>7. part \div 10000 \in Int /\ 0 <= part - 10000 * (part \div 10000) /\ part - 10000 * (part \div 10000) <= 9999
  BY <1>6, SMT
<1> HIDE DEF x
<1>8. x = 65536 * high + ll /\ x \in Int
  BY <1>2, <1>3, <1>4, SMT DEF x
<1>9. 0 <= x /\ x <= 4294967295
  BY <1>3, <1>4, <1>8, SMT
<1>10. 0 <= x - 10000 * w /\ x - 10000 * w <= 9999 /\ w \in Int
  BY <1>3, <1>4, <1>5, <1>6, <1>7, <1>8, SMT
<1> HIDE DEF w
<1>11. w = x \div 10000
  <2>1. \A u, v \in Int : 0 <= u - 10000 * v /\ u - 10000 * v <= 9999 => v = u \div 10000
    BY SMT
  <2>2. x \in Int /\ w \in Int /\ 0 <= x - 10000 * w /\ x - 10000 * w <= 9999
    BY <1>8, <1>10, SMT
  <2> QED
    BY <2>1, <2>2, SMT
<1> QED
  BY <1>1, <1>4, <1>9, <1>11, SMT DEF x

(* Where the number lies between the wraps.                                *)
LEMMA ToothFacts ==
  ASSUME NEW n \in Int, -2147483648 <= n, n <= 2147483647
  PROVE  \E w \in Wraps, k \in Int :
           /\ Sawtooth(n) = ((IF n >= 0 THEN n ELSE n + 2147483648) - w) \div 1000
           /\ 0 <= 10 * n - 4294967296 * k /\ 10 * n - 4294967296 * k <= 4294967295
           /\ (10 * n - 4294967296 * k) \div 10 = (IF n >= 0 THEN n ELSE n + 2147483648) - w
<1> DEFINE p == IF n >= 0 THEN n ELSE (n + 2147483647) + 1
           c == IF n >= 0 THEN 0 ELSE 5
           Is(w) == w <= p /\ \A v \in Wraps : v <= p => v <= w
           tooth == CHOOSE w \in Wraps : Is(w)
<1>1. p \in Int /\ 0 <= p /\ p <= 2147483647 /\ p = (IF n >= 0 THEN n ELSE n + 2147483648)
  BY SMT
<1>2. c \in {0, 5} /\ 10 * n = 10 * p - 4294967296 * c
  BY SMT
<1>3. Sawtooth(n) = (p - tooth) \div 1000
  BY SMT DEF Sawtooth
<1> HIDE DEF p, c
<1>4. ASSUME NEW w \in Wraps, Is(w) PROVE tooth = w
  <2>1. tooth \in Wraps /\ Is(tooth)
    BY <1>4, SMT
  <2>2. Wraps \subseteq Int
    BY SMT DEF Wraps
  <2> HIDE DEF tooth
  <2>3. tooth <= w /\ w <= tooth /\ tooth \in Int /\ w \in Int
    BY <2>1, <2>2, <1>4, SMT
  <2> QED
    BY <2>3, SMT
<1> DEFINE Good(w, j) == /\ w \in Wraps /\ Is(w)
                         /\ 0 <= 10 * p - 4294967296 * j /\ 10 * p - 4294967296 * j <= 4294967295
                         /\ (10 * p - 4294967296 * j) \div 10 = p - w
<1>5. \E w \in Wraps, j \in 0..4 : Good(w, j)
  <2>1. CASE p < 429496730
    <3>1. Good(0, 0)
      BY <1>1, <2>1, SMT DEF Wraps
    <3> QED
      BY <3>1, SMT
  <2>2. CASE p >= 429496730 /\ p < 858993460
    <3>1. Good(429496730, 1)
      BY <1>1, <2>2, SMT DEF Wraps
    <3> QED
      BY <3>1, SMT
  <2>3. CASE p >= 858993460 /\ p < 1288490189
    <3>1. Good(858993460, 2)
      BY <1>1, <2>3, SMT DEF Wraps
    <3> QED
      BY <3>1, SMT
  <2>4. CASE p >= 1288490189 /\ p < 1717986919
    <3>1. Good(1288490189, 3)
      BY <1>1, <2>4, SMT DEF Wraps
    <3> QED
      BY <3>1, SMT
  <2>5. CASE p >= 1717986919
    <3>1. Good(1717986919, 4)
      BY <1>1, <2>5, SMT DEF Wraps
    <3> QED
      BY <3>1, SMT
  <2> QED
    BY <1>1, <2>1, <2>2, <2>3, <2>4, <2>5, SMT
<1>6. PICK w \in Wraps, j \in 0..4 : Good(w, j)
  BY <1>5, SMT
<1>7. tooth = w
  BY <1>4, <1>6, SMT
<1> HIDE DEF tooth
<1> DEFINE k == j - c
<1>8. k \in Int /\ 10 * n - 4294967296 * k = 10 * p - 4294967296 * j
  BY <1>1, <1>2, SMT
<1> HIDE DEF k
<1>9. /\ 0 <= 10 * n - 4294967296 * k /\ 10 * n - 4294967296 * k <= 4294967295
      /\ (10 * n - 4294967296 * k) \div 10 = p - w
  BY <1>6, <1>8, SMT
<1>10. Sawtooth(n) = (p - w) \div 1000
  BY <1>3, <1>7, SMT
<1> QED
  BY <1>1, <1>8, <1>9, <1>10, SMT

(* The width is the sawtooth.                                              *)
LEMMA WidthOfNumber ==
  \A n \in Int : -2147483648 <= n /\ n <= 2147483647 => PwmWidth(n) = Sawtooth(n)
<1> SUFFICES ASSUME NEW n \in Int, -2147483648 <= n, n <= 2147483647 PROVE PwmWidth(n) = Sawtooth(n)
  BY SMT
<1>1. PICK k \in Int : /\ 0 <= 10 * n - 4294967296 * k /\ 10 * n - 4294967296 * k <= 4294967295
                       /\ PwmWidth(n) = (10 * n - 4294967296 * k) \div 10000
  BY WidthOfProduct, SMT
<1> DEFINE p == IF n >= 0 THEN n ELSE n + 2147483648
<1>2. PICK w \in Wraps, j \in Int :
         /\ Sawtooth(n) = (p - w) \div 1000
         /\ 0 <= 10 * n - 4294967296 * j /\ 10 * n - 4294967296 * j <= 4294967295
         /\ (10 * n - 4294967296 * j) \div 10 = p - w
  BY ToothFacts, SMT
<1>3. j = k
  BY <1>1, <1>2, SMT
<1> DEFINE x == 10 * n - 4294967296 * k
<1>4. x \in Int /\ PwmWidth(n) = x \div 10000 /\ Sawtooth(n) = (x \div 10) \div 1000
  BY <1>1, <1>2, <1>3, SMT
<1> HIDE DEF x
<1>5. (x \div 10) \div 1000 = x \div 10000
  BY <1>4, SMT
<1> QED
  BY <1>4, <1>5, SMT

(* The number that atoi takes from what the host writes.                   *)
LEMMA AtoiOfSigned ==
  ASSUME NEW n \in Int, Signed(n) \in Text
  PROVE  Atoi[Signed(n)] = n
<1>1. CASE n < 0
  <2> DEFINE m == -n
             d == Decimal[m]
  <2>1. m \in Nat /\ n = -m
    BY <1>1
  <2> HIDE DEF m
  <2>2. d \in Seq(Digits) /\ NumberOf(d) = m
    BY <2>1, DecimalEquation, DecimalNumber
  <2>3. Signed(n) = <<"-">> \o d
    BY <1>1 DEF Signed, m
  <2> HIDE DEF d
  <2>4. Atoi[<<"-">> \o d] = -NumberOf(d)
    BY <2>2, <2>3, AtoiFacts, Zenon
  <2> QED
    BY <2>1, <2>2, <2>3, <2>4, Zenon
<1>2. CASE ~(n < 0)
  <2>1. n \in Nat
    BY <1>2
  <2>2. Decimal[n] \in Seq(Digits) /\ Decimal[n] # << >> /\ NumberOf(Decimal[n]) = n
    BY <2>1, DecimalEquation, DecimalNumber
  <2>3. Signed(n) = Decimal[n]
    BY <1>2 DEF Signed
  <2> QED
    BY <2>2, <2>3, AtoiFacts, Zenon
<1> QED
  BY <1>1, <1>2

(* An int holds each of the numbers.                                       *)
IntNumbers == \A n \in Numbers : -2147483648 <= n /\ n <= 2147483647

(***************************************************************************)
(* After the reply to a set of a PWM channel its width is the sawtooth of  *)
(* the number in the request, for every number that an int holds.          *)
(***************************************************************************)
THEOREM WidthsAreSawtooth ==
  ASSUME OneAtATime, IntNumbers
  PROVE  Spec => []WidthIsSawtooth
<1>1. TurnInv => WidthIsSawtooth
  <2> SUFFICES ASSUME TurnInv, NEW i \in 1..Len(obq), NEW n \in Numbers,
                      Strstr(Command(Head(outstanding)), "set"),
                      Selected(Sensor(Head(outstanding))) \in ToSet(Pwms),
                      Value(Head(outstanding)) = Signed(n)
               PROVE  board[Line(Selected(Sensor(Head(outstanding))))] = Sawtooth(n)
    BY Zenon DEF WidthIsSawtooth
  <2>1. PICK r \in Requests : /\ Answered(r) /\ Head(outstanding) = r
                              /\ obq[i].msg = AnswerTo(r)
    BY ReplyMeansAnswered DEF TurnInv
  <2> DEFINE o == Selected(Sensor(r))
  <2>2. /\ Strstr(Command(r), "set") /\ o \in ToSet(Pwms) /\ Value(r) = Signed(n)
        /\ ProcessCommand(board, Sensor(r), Value(r)) = board
    BY <2>1, Zenon DEF Answered, Obeyed
  <2>3. r \in Text /\ Value(r) \in Text /\ board \in [Lines -> Nat]
    BY FrameIsClean, FieldTypes, Zenon DEF TurnInv, TypeOK
  <2>4. o # "none" /\ o \notin ToSet(Pins)
    BY <2>2 DEF Pins, Pwms, ToSet
  <2>5. board[Line(o)] = Level(o, Value(r))
    <3>1. Selected(Sensor(r)) # "none" =>
            ProcessCommand(board, Sensor(r), Value(r))[Line(Selected(Sensor(r)))]
              = Level(Selected(Sensor(r)), Value(r))
      BY <2>3, ProcessFacts
    <3> QED
      BY <2>2, <2>4, <3>1, Zenon
  <2>6. Level(o, Value(r)) = PwmWidth(Atoi[Value(r)])
    BY <2>4, Zenon DEF Level
  <2>8. Atoi[Value(r)] = n
    <3>1. n \in Int /\ Signed(n) \in Text
      BY <2>2, <2>3, NumbersAssumption, Zenon
    <3> QED
      BY <3>1, <2>2, AtoiOfSigned, Zenon
  <2>9. PwmWidth(n) = Sawtooth(n)
    <3>1. n \in Int /\ -2147483648 <= n /\ n <= 2147483647
      BY NumbersAssumption, SMT DEF IntNumbers
    <3> QED
      BY <3>1, WidthOfNumber, SMT
  <2> QED
    BY <2>1, <2>5, <2>6, <2>8, <2>9, Zenon
<1> QED
  BY <1>1, TurnInvariant, PTL
-----------------------------------------------------------------------------

(* What the tokenizer leaves, cell by cell.                                *)
LEMMA RestCells ==
  ASSUME NEW s \in Text, NEW d, NEW a, NEW b, Splits(s, d, a, b)
  PROVE  LET u == SubSeq(s, b + 2, Len(s))
         IN  /\ u \in Text /\ Len(u) \in Nat /\ Len(s) \in Nat /\ a \in Nat /\ b \in Nat
             /\ a <= b /\ b <= Len(s)
             /\ b < Len(s) => Len(u) = Len(s) - b - 1
             /\ b = Len(s) => Len(u) = 0
             /\ \A j \in 1..Len(u) : u[j] = s[(b + 1) + j]
<1> DEFINE u == SubSeq(s, b + 2, Len(s))
<1>1. Len(s) \in Nat /\ a \in 0..Len(s) /\ b \in a..Len(s)
  BY LenProperties DEF Splits, Text
<1>2. a \in Nat /\ b \in Nat /\ a <= b /\ b <= Len(s)
  BY <1>1
<1>3. CASE b < Len(s)
  <2> DEFINE m == b + 1
             n == Len(s)
  <2>1. m \in Nat /\ n \in m..Len(s) /\ m + 1 = b + 2
    BY <1>1, <1>2, <1>3
  <2>2. u = SubSeq(s, m + 1, n)
    BY <2>1
  <2> HIDE DEF m, n, u
  <2>3. u \in Text /\ Len(u) = n - m /\ \A j \in 1..(n - m) : u[j] = s[m + j]
    BY <2>1, <2>2, Piece DEF Text
  <2> USE DEF m, n
  <2>4. Len(u) = Len(s) - b - 1 /\ Len(u) \in Nat
    BY <1>1, <1>2, <1>3, <2>3
  <2>5. \A j \in 1..Len(u) : u[j] = s[(b + 1) + j]
    BY <2>3
  <2> QED
    BY <1>1, <1>2, <1>3, <2>3, <2>4, <2>5 DEF u
<1>4. CASE b = Len(s)
  <2>1. u = << >>
    BY <1>1, <1>2, <1>4, SubSeqEmpty DEF Text
  <2>2. << >> \in Text /\ Len(<< >>) = 0 /\ 1..0 = {}
    BY DEF Text
  <2> HIDE DEF u
  <2>3. u \in Text /\ Len(u) = 0 /\ Len(u) \in Nat
    BY <2>1, <2>2
  <2>4. \A j \in 1..Len(u) : u[j] = s[(b + 1) + j]
    BY <2>2, <2>3
  <2> QED
    BY <1>1, <1>2, <1>4, <2>3, <2>4 DEF u
<1> QED
  BY <1>2, <1>3, <1>4, <1>1

(* The runs of a text are its first token and the runs of the rest.        *)
LEMMA RunStartsAt ==
  ASSUME NEW s \in Text, NEW d, NEW a, NEW b, Splits(s, d, a, b)
  PROVE  LET u == SubSeq(s, b + 2, Len(s))
         IN  /\ a = Len(s) => RunStarts(s, d) = {} /\ RunStarts(u, d) = {}
             /\ a < Len(s) => /\ a < b
                              /\ a + 1 \in RunStarts(s, d)
                              /\ \A j \in RunStarts(u, d) : (b + 1) + j \in RunStarts(s, d)
                              /\ \A i \in RunStarts(s, d) :
                                   i = a + 1 \/ \E j \in RunStarts(u, d) : i = (b + 1) + j
<1> DEFINE u == SubSeq(s, b + 2, Len(s))
           N == Len(s)
           M == Len(u)
<1>1. /\ u \in Text /\ M \in Nat /\ N \in Nat /\ a \in Nat /\ b \in Nat
      /\ a <= b /\ b <= N
      /\ b < N => M = N - b - 1
      /\ b = N => M = 0
      /\ \A j \in 1..M : u[j] = s[(b + 1) + j]
  BY RestCells
<1>2. /\ RunStarts(s, d) = {i \in 1..N : s[i] # d /\ (i = 1 \/ s[i - 1] = d)}
      /\ RunStarts(u, d) = {i \in 1..M : u[i] # d /\ (i = 1 \/ u[i - 1] = d)}
  <2> HIDE DEF u
  <2> QED
    BY <1>1 DEF RunStarts, Text
<1>3. /\ \A j \in 1..a : s[j] = d
      /\ a < N => s[a + 1] # d
      /\ \A j \in (a + 1)..b : s[j] # d
      /\ b < N => s[b + 1] = d
  BY DEF Splits
<1> HIDE DEF u, N, M
<1>4. CASE a = N
  BY <1>1, <1>2, <1>3, <1>4 DEF u, N
<1>5. CASE a < N
  <2>1. a < b
    BY <1>1, <1>3, <1>5
  <2>2. a + 1 \in RunStarts(s, d)
    BY <1>1, <1>2, <1>3, <1>5
  <2>3. ASSUME NEW j \in RunStarts(u, d) PROVE (b + 1) + j \in RunStarts(s, d)
    <3>1. j \in 1..M /\ u[j] # d /\ (j = 1 \/ u[j - 1] = d)
      BY <1>2
    <3>2. b < N /\ M = N - b - 1
      BY <3>1, <1>1
    <3> DEFINE i == (b + 1) + j
    <3>3. i \in 1..N /\ i - 1 = b + j
      BY <3>1, <3>2, <1>1
    <3>4. s[i] # d
      BY <3>1, <1>1
    <3>5. s[i - 1] = d
      <4>1. CASE j = 1
        BY <4>1, <3>2, <3>3, <1>1, <1>3
      <4>2. CASE j # 1
        <5>1. j - 1 \in 1..M /\ (b + 1) + (j - 1) = i - 1
          BY <4>2, <3>1, <3>3, <1>1
        <5> QED
          BY <5>1, <4>2, <3>1, <1>1
      <4> QED
        BY <4>1, <4>2
    <3> HIDE DEF i
    <3>6. i \in RunStarts(s, d)
      BY <3>3, <3>4, <3>5, <1>2
    <3> QED
      BY <3>6 DEF i
  <2>4. ASSUME NEW i \in RunStarts(s, d), i # a + 1
        PROVE  \E j \in RunStarts(u, d) : i = (b + 1) + j
    <3>1. i \in 1..N /\ s[i] # d /\ (i = 1 \/ s[i - 1] = d)
      BY <1>2
    <3>2. i > b + 1
      <4>1. i > a
        BY <3>1, <1>1, <1>3
      <4>2. ~(i <= b)
        <5> SUFFICES ASSUME i <= b PROVE FALSE
          OBVIOUS
        <5>1. i - 1 \in (a + 1)..b /\ i # 1
          BY <4>1, <2>4, <3>1, <1>1
        <5> QED
          BY <5>1, <3>1, <1>3
      <4>3. i # b + 1
        BY <3>1, <1>1, <1>3
      <4> QED
        BY <4>2, <4>3, <3>1, <1>1
    <3> DEFINE j == i - (b + 1)
    <3>3. j \in 1..M /\ i = (b + 1) + j
      BY <3>1, <3>2, <1>1
    <3>4. u[j] # d
      BY <3>1, <3>3, <1>1
    <3>5. j = 1 \/ u[j - 1] = d
      <4> SUFFICES ASSUME j # 1 PROVE u[j - 1] = d
        OBVIOUS
      <4>1. j - 1 \in 1..M /\ (b + 1) + (j - 1) = i - 1 /\ i # 1
        BY <3>1, <3>3, <1>1
      <4> QED
        BY <4>1, <3>1, <1>1
    <3> HIDE DEF j
    <3>6. j \in RunStarts(u, d)
      BY <3>3, <3>4, <3>5, <1>2
    <3> QED
      BY <3>3, <3>6
  <2> QED
    BY <2>1, <2>2, <2>3, <2>4, <1>5, <1>1 DEF u, N
<1> QED
  BY <1>4, <1>5, <1>1 DEF u, N

(* The runs that begin before one, and those with so many before them.     *)
Before(s, d, i) == {j \in RunStarts(s, d) : j < i}

StartsOf(s, d, k) == {i \in RunStarts(s, d) : Cardinality(Before(s, d, i)) = k - 1}

EndsOf(s, d, i) == {j \in i..Len(s) : \A m \in i..j : s[m] # d}

RunAt(s, d, i) ==
  SubSeq(s, i, CHOOSE j \in EndsOf(s, d, i) : \A m \in EndsOf(s, d, i) : m <= j)

LEMMA RunIs ==
  ASSUME NEW s, NEW d, NEW k
  PROVE  Run(s, d, k) = IF StartsOf(s, d, k) = {} THEN NULL
                        ELSE RunAt(s, d, CHOOSE i \in StartsOf(s, d, k) : TRUE)
BY DEF Run, StartsOf, Before, EndsOf, RunAt

LEMMA BeforeFinite ==
  ASSUME NEW s \in Text, NEW d, NEW i
  PROVE  IsFiniteSet(Before(s, d, i)) /\ RunStarts(s, d) \subseteq 1..Len(s)
<1>1. Len(s) \in Nat /\ DOMAIN s = 1..Len(s)
  BY LenProperties DEF Text
<1>2. RunStarts(s, d) \subseteq 1..Len(s)
  BY <1>1 DEF RunStarts
<1>3. IsFiniteSet(1..Len(s))
  BY <1>1, FS_Interval
<1>4. Before(s, d, i) \in SUBSET (1..Len(s))
  BY <1>2 DEF Before
<1> QED
  BY <1>2, <1>3, <1>4, FS_Subset

(* There is at most one k-th run.                                          *)
LEMMA OneStart ==
  ASSUME NEW s \in Text, NEW d, NEW k, NEW i \in StartsOf(s, d, k), NEW j \in StartsOf(s, d, k)
  PROVE  i = j
<1>1. ASSUME NEW x \in StartsOf(s, d, k), NEW y \in StartsOf(s, d, k), x < y PROVE FALSE
  <2>1. x \in RunStarts(s, d) /\ y \in RunStarts(s, d)
    BY DEF StartsOf
  <2>2. x \in Int /\ y \in Int /\ \A z \in RunStarts(s, d) : z \in Int
    BY <2>1, BeforeFinite
  <2>3. Before(s, d, x) \in SUBSET Before(s, d, y) /\ x \in Before(s, d, y) /\ x \notin Before(s, d, x)
    <3>1. x \in Before(s, d, y)
      BY <1>1, <2>1 DEF Before
    <3>2. x \notin Before(s, d, x)
      BY <2>2 DEF Before
    <3>3. ASSUME NEW z \in Before(s, d, x) PROVE z \in Before(s, d, y)
      <4>1. z \in RunStarts(s, d) /\ z < x /\ z \in Int
        BY <2>2 DEF Before
      <4>2. z < y
        BY <4>1, <1>1, <2>2
      <4> QED
        BY <4>1, <4>2 DEF Before
    <3> QED
      BY <3>1, <3>2, <3>3
  <2>4. Cardinality(Before(s, d, y)) = Cardinality(Before(s, d, x))
    BY DEF StartsOf
  <2>5. IsFiniteSet(Before(s, d, y))
    BY BeforeFinite
  <2>6. Before(s, d, y) = Before(s, d, x)
    BY <2>3, <2>4, <2>5, FS_Subset
  <2> QED
    BY <2>3, <2>6
<1>2. i \in Int /\ j \in Int
  BY BeforeFinite DEF StartsOf
<1> QED
  BY <1>1, <1>2
(* The last end of a run is where the text or the run ends.                *)
LEMMA RunAtEnd ==
  ASSUME NEW s \in Text, NEW d, NEW i \in 1..Len(s), NEW e \in i..Len(s),
         \A m \in i..e : s[m] # d, e < Len(s) => s[e + 1] = d
  PROVE  RunAt(s, d, i) = SubSeq(s, i, e)
<1> DEFINE E == EndsOf(s, d, i)
           last == CHOOSE j \in E : \A m \in E : m <= j
<1>1. Len(s) \in Nat /\ i \in Nat /\ e \in Nat /\ i <= e /\ e <= Len(s)
  BY LenProperties DEF Text
<1>2. e \in E
  BY DEF EndsOf
<1>3. ASSUME NEW j \in E PROVE j <= e /\ j \in Int
  <2>1. j \in i..Len(s) /\ \A m \in i..j : s[m] # d
    BY DEF EndsOf
  <2>2. ~(j > e)
    <3> SUFFICES ASSUME j > e PROVE FALSE
      OBVIOUS
    <3>1. e + 1 \in i..j /\ e < Len(s)
      BY <1>1, <2>1
    <3> QED
      BY <3>1, <2>1
  <2> QED
    BY <2>1, <2>2, <1>1
<1>4. last \in E /\ \A m \in E : m <= last
  BY <1>2, <1>3
<1>5. RunAt(s, d, i) = SubSeq(s, i, last)
  BY DEF RunAt
<1> HIDE DEF E, last
<1>6. last = e
  <2>1. last <= e /\ e <= last /\ last \in Int
    BY <1>2, <1>3, <1>4
  <2> QED
    BY <2>1, <1>1
<1> QED
  BY <1>5, <1>6

(* The first run is the first token.                                       *)
LEMMA RunFirst ==
  ASSUME NEW s \in Text, NEW d \in Cells
  PROVE  Run(s, d, 1) = StrtokToken[d][s]
<1>1. PICK a, b : /\ Splits(s, d, a, b)
                  /\ StrtokToken[d][s] = SubSeq(s, a + 1, b)
                  /\ StrtokRest[d][s] = SubSeq(s, b + 2, Len(s))
  BY StrtokSplits, Zenon
<1> DEFINE u == SubSeq(s, b + 2, Len(s))
           one == 1
           R == RunStarts(s, d)
<1>2. /\ a = Len(s) => R = {} /\ RunStarts(u, d) = {}
      /\ a < Len(s) => /\ a < b
                       /\ a + 1 \in R
                       /\ \A i \in R : i = a + 1 \/ \E j \in RunStarts(u, d) : i = (b + 1) + j
  BY <1>1, RunStartsAt
<1>3. /\ u \in Text /\ Len(u) \in Nat /\ Len(s) \in Nat /\ a \in Nat /\ b \in Nat
      /\ a <= b /\ b <= Len(s)
  BY <1>1, RestCells
<1>4. /\ \A j \in (a + 1)..b : s[j] # d
      /\ b < Len(s) => s[b + 1] = d
  BY <1>1 DEF Splits
<1> HIDE DEF u, R
<1>5. Run(s, d, one) = IF StartsOf(s, d, one) = {} THEN NULL
                       ELSE RunAt(s, d, CHOOSE i \in StartsOf(s, d, one) : TRUE)
  BY RunIs
<1>6. CASE a = Len(s)
  <2>1. StartsOf(s, d, one) = {}
    BY <1>2, <1>6 DEF StartsOf, R
  <2>2. SubSeq(s, a + 1, b) = << >>
    BY <1>3, <1>6, SubSeqEmpty DEF Text
  <2> QED
    BY <1>1, <1>5, <2>1, <2>2 DEF NULL
<1>7. CASE a < Len(s)
  <2> DEFINE x == a + 1
  <2>1. \A j \in RunStarts(u, d) : j \in Nat
    BY <1>3, BeforeFinite
  <2>2. \A i \in R : i >= x
    BY <2>1, <1>2, <1>3, <1>7
  <2>3. Before(s, d, x) = {}
    <3>1. \A i \in R : i \in Int
      <4>1. RunStarts(s, d) \subseteq 1..Len(s)
        BY BeforeFinite
      <4> QED
        BY <4>1 DEF R
    <3>2. x \in Int
      BY <1>3
    <3> HIDE DEF x
    <3> QED
      BY <2>2, <3>1, <3>2 DEF Before, R
  <2>4. x \in StartsOf(s, d, one)
    <3>1. x \in R
      BY <1>2, <1>7
    <3>2. Cardinality(Before(s, d, x)) = one - 1
      BY <2>3, FS_EmptySet
    <3> QED
      BY <3>1, <3>2 DEF StartsOf, R
  <2>5. (CHOOSE i \in StartsOf(s, d, one) : TRUE) = x
    BY <2>4, OneStart
  <2>6. x \in 1..Len(s) /\ b \in x..Len(s) /\ \A m \in x..b : s[m] # d
    BY <1>2, <1>3, <1>4, <1>7
  <2> HIDE DEF x
  <2>7. RunAt(s, d, x) = SubSeq(s, x, b)
    BY <2>6, <1>4, RunAtEnd
  <2> QED
    BY <2>4, <2>5, <2>7, <1>1, <1>5 DEF x
<1> QED
  BY <1>3, <1>6, <1>7

(* A bounded set of numbers has a largest.                                 *)
LEMMA LargestNumber ==
  ASSUME NEW N \in Nat, NEW E \in SUBSET (1..N), E # {}
  PROVE  \E e \in E : \A m \in E : m <= e
<1> DEFINE T == {n \in Nat : \A m \in E : m <= n}
<1>1. N \in T /\ T \in SUBSET Nat
  OBVIOUS
<1>2. PICK n \in T : \A m \in T : n <= m
  <2> HIDE DEF T
  <2>1. T # {}
    BY <1>1
  <2> QED
    BY <1>1, <2>1, LeastNumber
<1>3. n \in E
  <2> SUFFICES ASSUME n \notin E PROVE FALSE
    OBVIOUS
  <2>1. PICK m \in E : TRUE
    OBVIOUS
  <2>2. m \in Nat /\ m >= 1 /\ m <= n /\ n \in Nat
    BY <1>2
  <2>3. \A z \in E : z <= n - 1
    <3> TAKE z \in E
    <3>1. z \in Int /\ z <= n /\ z # n
      BY <1>2
    <3> QED
      BY <3>1, <2>2
  <2>4. n - 1 \in T
    BY <2>2, <2>3
  <2> HIDE DEF T
  <2>5. n <= n - 1
    BY <1>2, <2>4
  <2> QED
    BY <2>2, <2>5
<1> QED
  BY <1>2, <1>3

(* A run of the rest is a run of the text.                                 *)
LEMMA RunAtShift ==
  ASSUME NEW s \in Text, NEW d, NEW a, NEW b, Splits(s, d, a, b),
         NEW j \in RunStarts(SubSeq(s, b + 2, Len(s)), d)
  PROVE  RunAt(s, d, (b + 1) + j) = RunAt(SubSeq(s, b + 2, Len(s)), d, j)
<1> DEFINE u == SubSeq(s, b + 2, Len(s))
           E == EndsOf(u, d, j)
           c == b + 1
<1>1. /\ u \in Text /\ Len(u) \in Nat /\ Len(s) \in Nat /\ a \in Nat /\ b \in Nat
      /\ a <= b /\ b <= Len(s)
      /\ b < Len(s) => Len(u) = Len(s) - b - 1
      /\ b = Len(s) => Len(u) = 0
      /\ \A i \in 1..Len(u) : u[i] = s[c + i]
  BY RestCells
<1>2. u = SubSeq(s, c + 1, Len(s)) /\ c \in Nat
  BY <1>1
<1> HIDE DEF u
<1>3. j \in 1..Len(u) /\ u[j] # d
  BY <1>1, BeforeFinite DEF RunStarts, u
<1>4. Len(s) = c + Len(u) /\ c \in 0..Len(s)
  BY <1>1, <1>3
<1>5. E \in SUBSET (1..Len(u)) /\ j \in E
  BY <1>1, <1>3 DEF EndsOf
<1> HIDE DEF E, c
<1>6. PICK e \in E : \A m \in E : m <= e
  BY <1>1, <1>5, LargestNumber
<1>7. e \in j..Len(u) /\ \A m \in j..e : u[m] # d
  BY DEF E, EndsOf
<1>8. e < Len(u) => u[e + 1] = d
  <2> SUFFICES ASSUME e < Len(u), u[e + 1] # d PROVE FALSE
    OBVIOUS
  <2>1. e + 1 \in j..Len(u) /\ e \in Int
    BY <1>1, <1>3, <1>7
  <2>2. \A m \in j..(e + 1) : m \in j..e \/ m = e + 1
    BY <1>3, <2>1
  <2>3. e + 1 \in E
    BY <1>7, <2>1, <2>2 DEF E, EndsOf
  <2>4. e + 1 <= e
    BY <1>6, <2>3
  <2> QED
    BY <2>1, <2>4
<1>9. RunAt(u, d, j) = SubSeq(u, j, e)
  BY <1>1, <1>3, <1>7, <1>8, RunAtEnd
<1> DEFINE i == c + j
           f == c + e
<1>10. i \in 1..Len(s) /\ f \in i..Len(s) /\ i \in Nat /\ f \in Nat
  BY <1>1, <1>2, <1>3, <1>4, <1>7
<1>11. \A m \in i..f : s[m] # d
  <2> TAKE m \in i..f
  <2>1. m - c \in j..e /\ m - c \in 1..Len(u) /\ c + (m - c) = m
    BY <1>1, <1>2, <1>3, <1>7, <1>10
  <2> QED
    BY <2>1, <1>7, <1>1 DEF c
<1>12. f < Len(s) => s[f + 1] = d
  <2> SUFFICES ASSUME f < Len(s) PROVE s[f + 1] = d
    OBVIOUS
  <2>1. e < Len(u) /\ e + 1 \in 1..Len(u) /\ c + (e + 1) = f + 1
    BY <1>1, <1>2, <1>3, <1>4, <1>7
  <2> QED
    BY <2>1, <1>8, <1>1 DEF c
<1>13. RunAt(s, d, i) = SubSeq(s, i, f)
  <2> HIDE DEF i, f
  <2> QED
    BY <1>10, <1>11, <1>12, RunAtEnd
<1>14. SubSeq(u, j, e) = SubSeq(s, i, f)
  <2> DEFINE m == j - 1
  <2>1. m \in Nat /\ m + 1 = j /\ e \in m..(Len(s) - c) /\ (c + m) + 1 = i
    BY <1>1, <1>2, <1>3, <1>4, <1>7
  <2> HIDE DEF m, i
  <2>2. SubSeq(SubSeq(s, c + 1, Len(s)), m + 1, e) = SubSeq(s, (c + m) + 1, c + e)
    BY <2>1, <1>4, PieceOfEnd DEF Text
  <2> QED
    BY <2>1, <2>2, <1>2
<1> QED
  BY <1>9, <1>13, <1>14 DEF u, c
(* Moving a set of numbers keeps its size.                                 *)
LEMMA Shifted ==
  ASSUME NEW A \in SUBSET Int, IsFiniteSet(A), NEW c \in Int
  PROVE  LET B == {c + j : j \in A}
         IN  IsFiniteSet(B) /\ Cardinality(B) = Cardinality(A)
<1> DEFINE B == {c + j : j \in A}
           f == [j \in A |-> c + j]
<1>1. f \in [A -> B] /\ \A j \in A : f[j] = c + j
  OBVIOUS
<1>2. \A x, y \in A : f[x] = f[y] => x = y
  BY <1>1
<1>3. \A z \in B : \E j \in A : f[j] = z
  BY <1>1
<1> HIDE DEF f, B
<1>4. f \in Bijection(A, B)
  BY <1>1, <1>2, <1>3 DEF Bijection, Injection, Surjection, IsInjective
<1>5. ExistsBijection(A, B)
  BY <1>4 DEF ExistsBijection
<1> QED
  BY <1>5, FS_Bijection DEF B

(* How many runs come before a run of the rest.                            *)
LEMMA BeforeShift ==
  ASSUME NEW s \in Text, NEW d, NEW a, NEW b, Splits(s, d, a, b), a < Len(s),
         NEW j \in RunStarts(SubSeq(s, b + 2, Len(s)), d)
  PROVE  LET u == SubSeq(s, b + 2, Len(s))
         IN  Cardinality(Before(s, d, (b + 1) + j)) = Cardinality(Before(u, d, j)) + 1
<1> DEFINE u == SubSeq(s, b + 2, Len(s))
           c == b + 1
           A == Before(u, d, j)
           B == {c + l : l \in A}
           x == a + 1
<1>1. u \in Text /\ Len(s) \in Nat /\ a \in Nat /\ b \in Nat /\ a <= b
  BY RestCells
<1>2. /\ x \in RunStarts(s, d)
      /\ \A l \in RunStarts(u, d) : c + l \in RunStarts(s, d)
      /\ \A i \in RunStarts(s, d) : i = x \/ \E l \in RunStarts(u, d) : i = c + l
  BY <1>1, RunStartsAt
<1>3. \A l \in RunStarts(u, d) : l \in Nat /\ l >= 1
  <2> HIDE DEF u
  <2>1. RunStarts(u, d) \subseteq 1..Len(u)
    BY <1>1, BeforeFinite
  <2> QED
    BY <2>1
<1>4. IsFiniteSet(A)
  <2> HIDE DEF u
  <2> QED
    BY <1>1, BeforeFinite
<1>5. c \in Int /\ x \in Int /\ x <= c
  BY <1>1
<1> HIDE DEF u, c, x
<1>6. A \in SUBSET Int
  BY <1>3 DEF Before
<1> HIDE DEF A
<1>7. IsFiniteSet(B) /\ Cardinality(B) = Cardinality(A)
  BY <1>4, <1>5, <1>6, Shifted
<1>8. x \notin B
  BY <1>3, <1>5 DEF A, Before
<1>9. Before(s, d, c + j) = B \cup {x}
  <2>1. j \in RunStarts(u, d) /\ j \in Nat /\ j >= 1
    BY <1>3 DEF u
  <2>2. ASSUME NEW i \in Before(s, d, c + j) PROVE i \in B \cup {x}
    <3>1. i \in RunStarts(s, d) /\ i < c + j
      BY DEF Before
    <3>2. ASSUME NEW l \in RunStarts(u, d), i = c + l PROVE i \in B
      <4>1. l < j
        BY <3>1, <3>2, <1>3, <1>5, <2>1
      <4> QED
        BY <3>2, <4>1 DEF A, Before
    <3> QED
      BY <3>1, <3>2, <1>2
  <2>3. ASSUME NEW i \in B PROVE i \in Before(s, d, c + j)
    <3>1. PICK l \in A : i = c + l
      OBVIOUS
    <3>2. l \in RunStarts(u, d) /\ l < j
      BY DEF A, Before
    <3>3. c + l < c + j
      BY <3>2, <1>3, <1>5, <2>1
    <3> QED
      BY <3>1, <3>2, <3>3, <1>2 DEF Before
  <2>4. x \in Before(s, d, c + j)
    <3>1. x < c + j
      BY <1>5, <2>1
    <3> QED
      BY <3>1, <1>2 DEF Before
  <2> HIDE DEF B
  <2> QED
    BY <2>2, <2>3, <2>4
<1> HIDE DEF B
<1>10. Cardinality(B \cup {x}) = Cardinality(B) + 1
  BY <1>7, <1>8, FS_AddElement
<1> QED
  BY <1>7, <1>9, <1>10 DEF A, u, c

(* The next run of a text is the run of the rest.                          *)
LEMMA RunNext ==
  ASSUME NEW s \in Text, NEW d \in Cells, NEW k \in Nat, k >= 1
  PROVE  Run(s, d, k + 1) = Run(StrtokRest[d][s], d, k)
<1>1. PICK a, b : /\ Splits(s, d, a, b)
                  /\ StrtokToken[d][s] = SubSeq(s, a + 1, b)
                  /\ StrtokRest[d][s] = SubSeq(s, b + 2, Len(s))
  BY StrtokSplits, Zenon
<1> DEFINE u == SubSeq(s, b + 2, Len(s))
           n == k + 1
           c == b + 1
<1>2. /\ a = Len(s) => RunStarts(s, d) = {} /\ RunStarts(u, d) = {}
      /\ a < Len(s) => /\ a < b /\ a + 1 \in RunStarts(s, d)
                       /\ \A j \in RunStarts(u, d) : c + j \in RunStarts(s, d)
                       /\ \A i \in RunStarts(s, d) :
                            i = a + 1 \/ \E j \in RunStarts(u, d) : i = c + j
  BY <1>1, RunStartsAt
<1>3. u \in Text /\ Len(s) \in Nat /\ a \in Nat /\ b \in Nat /\ a <= b /\ a <= Len(s)
  BY <1>1, RestCells
<1>4. a < Len(s) => \A j \in RunStarts(u, d) :
                       /\ Cardinality(Before(s, d, c + j)) = Cardinality(Before(u, d, j)) + 1
                       /\ RunAt(s, d, c + j) = RunAt(u, d, j)
  BY <1>1, BeforeShift, RunAtShift
<1> HIDE DEF u, c
<1>5. n \in Nat /\ n - 1 = k
  OBVIOUS
<1>6. /\ Run(s, d, n) = IF StartsOf(s, d, n) = {} THEN NULL
                        ELSE RunAt(s, d, CHOOSE i \in StartsOf(s, d, n) : TRUE)
      /\ Run(u, d, k) = IF StartsOf(u, d, k) = {} THEN NULL
                        ELSE RunAt(u, d, CHOOSE i \in StartsOf(u, d, k) : TRUE)
  BY RunIs
<1> HIDE DEF n
<1>7. CASE a = Len(s)
  <2>1. StartsOf(s, d, n) = {} /\ StartsOf(u, d, k) = {}
    BY <1>2, <1>7 DEF StartsOf
  <2> QED
    BY <2>1, <1>1, <1>6 DEF u, n
<1>8. CASE a < Len(s)
  <2>1. ASSUME NEW j \in StartsOf(u, d, k) PROVE c + j \in StartsOf(s, d, n)
    <3>1. j \in RunStarts(u, d) /\ Cardinality(Before(u, d, j)) = k - 1
      BY DEF StartsOf
    <3>2. Cardinality(Before(s, d, c + j)) = n - 1
      <4>1. Cardinality(Before(s, d, c + j)) = Cardinality(Before(u, d, j)) + 1
        BY <3>1, <1>4, <1>8
      <4> QED
        BY <4>1, <3>1, <1>5
    <3>3. c + j \in RunStarts(s, d)
      BY <3>1, <1>2, <1>8
    <3> QED
      BY <3>2, <3>3 DEF StartsOf
  <2>2. ASSUME NEW i \in StartsOf(s, d, n)
        PROVE  \E j \in StartsOf(u, d, k) : i = c + j
    <3>1. i \in RunStarts(s, d) /\ Cardinality(Before(s, d, i)) = k
      BY <1>5 DEF StartsOf
    <3>2. i # a + 1
      <4> SUFFICES ASSUME i = a + 1 PROVE FALSE
        OBVIOUS
      <4>1. \A j \in RunStarts(u, d) : j \in Nat
        <5>1. RunStarts(u, d) \subseteq 1..Len(u)
          BY <1>3, BeforeFinite
        <5> QED
          BY <5>1
      <4>2. \A x \in RunStarts(s, d) : ~(x < i)
        <5> TAKE x \in RunStarts(s, d)
        <5>1. CASE x = a + 1
          BY <5>1, <1>3
        <5>2. ASSUME NEW j \in RunStarts(u, d), x = c + j PROVE ~(x < i)
          BY <5>2, <4>1, <1>3 DEF c
        <5> QED
          BY <5>1, <5>2, <1>2, <1>8
      <4>3. Before(s, d, i) = {}
        BY <4>2 DEF Before
      <4>4. k = 0
        BY <4>3, <3>1, FS_EmptySet
      <4> QED
        BY <4>4
    <3>3. PICK j \in RunStarts(u, d) : i = c + j
      BY <3>1, <3>2, <1>2, <1>8
    <3>4. Cardinality(Before(s, d, c + j)) = Cardinality(Before(u, d, j)) + 1
      BY <1>4, <1>8
    <3>5. Cardinality(Before(u, d, j)) \in Nat
      BY <1>3, BeforeFinite, FS_CardinalityType
    <3>6. Cardinality(Before(u, d, j)) = k - 1
      BY <3>1, <3>3, <3>4, <3>5
    <3>7. j \in StartsOf(u, d, k)
      BY <3>6 DEF StartsOf
    <3> QED
      BY <3>3, <3>7
  <2>3. CASE StartsOf(u, d, k) = {}
    <3>1. StartsOf(s, d, n) = {}
      BY <2>2, <2>3
    <3> QED
      BY <3>1, <2>3, <1>1, <1>6 DEF u, n
  <2>4. CASE StartsOf(u, d, k) # {}
    <3> DEFINE j == CHOOSE i \in StartsOf(u, d, k) : TRUE
               i == CHOOSE i \in StartsOf(s, d, n) : TRUE
    <3>1. j \in StartsOf(u, d, k)
      BY <2>4
    <3>2. c + j \in StartsOf(s, d, n)
      BY <3>1, <2>1
    <3>3. i \in StartsOf(s, d, n)
      BY <3>2
    <3>4. Run(s, d, n) = RunAt(s, d, i) /\ Run(u, d, k) = RunAt(u, d, j)
      BY <1>6, <2>4, <3>2
    <3> HIDE DEF i, j
    <3>5. i = c + j
      BY <3>2, <3>3, OneStart
    <3>6. j \in RunStarts(u, d)
      BY <3>1 DEF StartsOf
    <3>7. RunAt(s, d, i) = RunAt(u, d, j)
      BY <3>5, <3>6, <1>4, <1>8
    <3> QED
      BY <3>4, <3>7, <1>1 DEF u, n
  <2> QED
    BY <2>3, <2>4
<1> QED
  BY <1>3, <1>7, <1>8

(* The three fields are the first three runs between bars.                 *)
LEMMA FieldsAreRuns ==
  ASSUME NEW r \in Text
  PROVE  /\ Command(r) = Run(r, "|", 1)
         /\ Sensor(r) = Run(r, "|", 2)
         /\ Value(r) = Run(r, "|", 3)
<1>1. ASSUME NEW d \in Cells
      PROVE  LET t == StrtokRest[d][r]
                 v == StrtokRest[d][t]
             IN  /\ StrtokToken[d][r] = Run(r, d, 1)
                 /\ StrtokToken[d][t] = Run(r, d, 2)
                 /\ StrtokToken[d][v] = Run(r, d, 3)
  <2> DEFINE t == StrtokRest[d][r]
             v == StrtokRest[d][t]
  <2>1. t \in Text /\ v \in Text
    BY StrtokType, Zenon
  <2>2. Run(r, d, 1) = StrtokToken[d][r] /\ Run(t, d, 1) = StrtokToken[d][t]
        /\ Run(v, d, 1) = StrtokToken[d][v]
    <3> HIDE DEF v, t
    <3> QED
      BY <2>1, RunFirst, Zenon
  <2>3. 1 \in Nat /\ 2 \in Nat /\ 1 >= 1 /\ 2 >= 1 /\ 1 + 1 = 2 /\ 2 + 1 = 3
    OBVIOUS
  <2>4. Run(r, d, 1 + 1) = Run(t, d, 1) /\ Run(r, d, 2 + 1) = Run(t, d, 2)
    BY <2>3, RunNext, Zenon
  <2>5. Run(t, d, 1 + 1) = Run(v, d, 1)
    <3> DEFINE w == t
    <3>1. w \in Text
      BY <2>1, Zenon
    <3> HIDE DEF w
    <3>2. Run(w, d, 1 + 1) = Run(StrtokRest[d][w], d, 1)
      BY <3>1, <2>3, RunNext, Zenon
    <3> QED
      BY <3>2 DEF w
  <2> HIDE DEF t, v
  <2>6. /\ StrtokToken[d][r] = Run(r, d, 1) /\ StrtokToken[d][t] = Run(r, d, 2)
        /\ StrtokToken[d][v] = Run(r, d, 3)
    BY <2>2, <2>3, <2>4, <2>5
  <2> QED
    BY <2>6, Zenon DEF t, v
<1>2. "|" \in Cells
  BY CellsAssumption, Zenon
<1> QED
  BY <1>1, <1>2, Zenon DEF Command, Sensor, Value

(***************************************************************************)
(* With one request at a time, decodeMessage finds the payload that the    *)
(* host framed and its length, and decodeNetstring its first three fields, *)
(* for every payload without the delimiter that ends it.                   *)
(***************************************************************************)
THEOREM ParserFindsTheRequest ==
  ASSUME OneAtATime
  PROVE  Spec => []ParserIsRight
<1>1. TurnInv => ParserIsRight
  <2> SUFFICES ASSUME TurnInv, pc = "decode"
               PROVE  LET r == Head(outstanding)
                          s == CString(readBuffer)
                          m == MessageField(s)
                      IN  /\ LengthField(s) = Len(r)
                          /\ m = r
                          /\ Command(m) = Run(r, "|", 1)
                          /\ Sensor(m) = Run(r, "|", 2)
                          /\ Value(m) = Run(r, "|", 3)
    BY Zenon DEF ParserIsRight
  <2>1. PICK r \in Requests :
           /\ Reading(r) /\ bytesRead = Len(Frame(r))
           /\ LengthField(CString(readBuffer)) = Len(r)
           /\ MessageField(CString(readBuffer)) = r
    BY DecodesRequest, Zenon DEF TurnInv
  <2>2. Head(outstanding) = r
    <3>1. \A x : Head(<<x>>) = x
      OBVIOUS
    <3> QED
      BY <2>1, <3>1, Zenon DEF Reading
  <2>3. r \in Text
    BY FrameIsClean, Zenon
  <2>4. Command(r) = Run(r, "|", 1) /\ Sensor(r) = Run(r, "|", 2) /\ Value(r) = Run(r, "|", 3)
    BY <2>3, FieldsAreRuns, Zenon
  <2> QED
    BY <2>1, <2>2, <2>4, Zenon
<1> QED
  BY <1>1, TurnInvariant, PTL

-----------------------------------------------------------------------------
(***************************************************************************)
(* Requests in whole frames, two of which fit the read buffer but for one  *)
(* cell.  The host may have any number of them under way and may give up   *)
(* on any.  A read then begins with the end of a frame that the read       *)
(* before it has cut, and when this end has lost its header, whatever is   *)
(* behind it begins with a whole frame.                                    *)
(***************************************************************************)
WholeFrames ==
  /\ ~Fragmenting
  /\ \A r, q \in Requests : Len(Frame(r)) + Len(Frame(q)) <= BufLen + 1

(* No request is empty or made of ";" alone: strtok_r would skip all of it *)
(* and the end of its frame.  Other than that any delimiter may occur.     *)
Worded == \A r \in Requests : \E j \in 1..Len(r) : r[j] # ";"

(* No request has a delimiter of the framing in it.                        *)
Delimited == \A r \in Requests : Plain(r) /\ \A j \in 1..Len(r) : r[j] # ":"

Header(r) == Len(Decimal[Len(r)])

(* What is left of a frame without its first m cells.                      *)
Ending(r, m) == SubSeq(Frame(r), m + 1, Len(Frame(r)))

IsFrame(x) == \E r \in Requests : x = Frame(r)

IsEnding(x) == \E r \in Requests : \E m \in 0..(Len(Frame(r)) - 1) : x = Ending(r, m)

Gathered(x) ==
  \E r \in Requests : \E m \in 0..(Len(Frame(r)) - 1) : \E t \in Clean :
    /\ x = Ending(r, m) \o t
    /\ m < Header(r) \/ t = << >> \/ \E q \in Requests, u \in Clean : t = Frame(q) \o u

AllFrames(q) == \A i \in 1..Len(q) : IsFrame(q[i])

FramesBehindEnding(q) == \A i \in 1..Len(q) : IsEnding(q[i]) /\ (i # 1 => IsFrame(q[i]))

FrameInv ==
  /\ AllFrames(wire)
  /\ FramesBehindEnding(ibq)
  /\ pc = "read" /\ 0 < bytesRead /\ bytesRead < BufLen => AllFrames(ibq)
  /\ received # << >> => Gathered(received)

(* What is enclosed occurs with its delimiters.                            *)
LEMMA EnclosedOccurs ==
  ASSUME NEW x \in Text, NEW r \in Text, NEW e \in Cells, NEW d \in Cells, NEW a, NEW c,
         Encloses(x, r, e, d, a, c)
  PROVE  OccursIn(<<e>> \o r \o <<d>>, x)
<1> DEFINE w == (<<e>> \o r) \o <<d>>
           i == c - 1
           n == Len(r)
<1>1. /\ c \in 1..Len(x) /\ Splits(x, e, a, i) /\ c + n + 1 <= Len(x)
      /\ \A j \in 1..n : x[c + j] = r[j]
      /\ x[c + n + 1] = d
  BY DEF Encloses, StandsIn
<1>2. Len(x) \in Nat /\ n \in Nat /\ c \in Nat /\ i \in Nat
  BY <1>1, LenProperties DEF Text
<1>3. x[c] = e
  <2>1. i < Len(x) /\ i + 1 = c
    BY <1>1, <1>2
  <2>2. i < Len(x) => x[i + 1] = e
    BY <1>1 DEF Splits
  <2> QED
    BY <2>1, <2>2
<1>4. /\ w \in Text /\ Len(w) = n + 2 /\ w[1] = e /\ w[n + 2] = d
      /\ \A j \in 1..n : w[1 + j] = r[j]
  <2> DEFINE p == <<e>>
             v == p \o r
  <2>1. p \in Text /\ Len(p) = 1 /\ p[1] = e
    BY Single DEF Text
  <2> HIDE DEF p
  <2>2. /\ v \in Text /\ Len(v) = 1 + n /\ \A j \in 1..1 : v[j] = p[j]
        /\ \A j \in 1..n : v[1 + j] = r[j]
    <3>1. /\ p \o r \in Text /\ Len(p \o r) = Len(p) + Len(r)
          /\ \A j \in 1..Len(p) : (p \o r)[j] = p[j]
          /\ \A j \in 1..Len(r) : (p \o r)[Len(p) + j] = r[j]
      BY <2>1, JoinedText
    <3> QED
      BY <2>1, <3>1
  <2> HIDE DEF v
  <2>3. /\ v \o <<d>> \in Text /\ Len(v \o <<d>>) = Len(v) + 1
        /\ \A j \in 1..Len(v) : (v \o <<d>>)[j] = v[j]
        /\ (v \o <<d>>)[Len(v) + 1] = d
    BY <2>2, OneMore DEF Text
  <2>4. w = v \o <<d>>
    BY DEF v, p
  <2> HIDE DEF w
  <2>5. Len(v) + 1 = n + 2 /\ 1 \in 1..Len(v) /\ \A j \in 1..n : 1 + j \in 1..Len(v)
    BY <2>2, <1>2
  <2>6. w \in Text /\ Len(w) = n + 2 /\ w[n + 2] = d
    BY <2>3, <2>4, <2>5
  <2>7. w[1] = e
    BY <2>1, <2>2, <2>3, <2>4, <2>5
  <2>8. \A j \in 1..n : w[1 + j] = r[j]
    BY <2>2, <2>3, <2>4, <2>5
  <2> QED
    BY <2>6, <2>7, <2>8
<1> DEFINE s == SubSeq(x, i + 1, i + Len(w))
<1>5. s \in Text /\ Len(s) = n + 2 /\ \A j \in 1..(n + 2) : s[j] = x[i + j]
  <2> DEFINE z == i + Len(w)
  <2>1. z \in i..Len(x) /\ z - i = n + 2
    BY <1>1, <1>2, <1>4
  <2> HIDE DEF z, i
  <2>2. SubSeq(x, i + 1, z) \in Text /\ Len(SubSeq(x, i + 1, z)) = z - i
        /\ \A j \in 1..(z - i) : SubSeq(x, i + 1, z)[j] = x[i + j]
    BY <2>1, <1>2, Piece DEF Text
  <2> QED
    BY <2>1, <2>2 DEF z
<1> HIDE DEF s, w
<1>6. \A j \in 1..(n + 2) : s[j] = w[j]
  <2> TAKE j \in 1..(n + 2)
  <2>1. CASE j = 1
    <3>1. i + 1 = c
      BY <1>2
    <3> QED
      BY <2>1, <3>1, <1>3, <1>4, <1>5
  <2>2. CASE j = n + 2
    <3>1. i + (n + 2) = c + n + 1
      BY <1>2
    <3> QED
      BY <2>2, <3>1, <1>1, <1>4, <1>5
  <2>3. CASE j # 1 /\ j # n + 2
    <3> DEFINE k == j - 1
    <3>1. k \in 1..n /\ 1 + k = j /\ i + j = c + k
      BY <2>3, <1>2
    <3> QED
      BY <3>1, <1>1, <1>4, <1>5
  <2> QED
    BY <2>1, <2>2, <2>3
<1>7. s = w
  BY <1>4, <1>5, <1>6, SeqEqual DEF Text
<1>8. i \in 0..(Len(x) - Len(w))
  BY <1>1, <1>2, <1>4
<1>9. OccursIn(w, x)
  BY <1>7, <1>8 DEF OccursIn, s
<1> QED
  BY <1>9 DEF w

(* A frame is one, in the words of those lemmas.                           *)
LEMMA FrameIsFramed ==
  ASSUME Delimited, NEW r \in Requests
  PROVE  Framed(Frame(r), r, ":", ";", Header(r))
<1> DEFINE F == Frame(r)
           L == Header(r)
<1>1. r \in Text /\ r # << >> /\ \A j \in 1..Len(r) : r[j] # ":" /\ r[j] # ";"
  BY FrameIsClean, Zenon DEF Delimited, Plain
<1>2. /\ F \in Text /\ L \in Nat \ {0} /\ Len(r) \in Nat
      /\ Len(F) = L + Len(r) + 2
      /\ \A j \in 1..L : F[j] \in Digits
      /\ F[L + 1] = ":"
      /\ F[L + Len(r) + 2] = ";"
  BY <1>1, FrameFacts DEF Header
<1>3. \A j \in 1..Len(r) : F[L + 1 + j] = r[j]
  BY <1>1, FrameFacts DEF Header
<1>4. StandsIn(r, F, L + 1)
  BY <1>3 DEF StandsIn
<1>5. \A j \in 1..L : F[j] # ":"
  BY <1>2, DigitFacts, Zenon
<1>6. ":" # ";"
  OBVIOUS
<1> HIDE DEF F, L
<1>7. Framed(F, r, ":", ";", L)
  BY <1>1, <1>2, <1>4, <1>5, <1>6, Zenon DEF Framed
<1> QED
  BY <1>7 DEF F, L

(* The lengths of frames.                                                  *)
LEMMA FrameSizes ==
  ASSUME WholeFrames, NEW r \in Requests
  PROVE  /\ Frame(r) \in Clean /\ Frame(r) \in Text /\ Len(Frame(r)) \in Nat \ {0}
         /\ Len(Frame(r)) <= BufLen /\ Header(r) \in Nat \ {0} /\ BufLen \in Nat
         /\ Header(r) < Len(Frame(r))
         /\ \A q \in Requests : Len(Frame(r)) + Len(Frame(q)) <= BufLen + 1
<1> DEFINE F == Frame(r)
           L == Header(r)
<1>1. r \in Text
  BY FrameIsClean
<1>2. F \in Text /\ L \in Nat \ {0} /\ Len(r) \in Nat /\ Len(F) = L + Len(r) + 2
  BY <1>1, FrameFacts DEF Header
<1>3. F \in Clean
  BY FrameIsClean
<1>4. BufLen \in Nat
  BY BoundsAssumption
<1>5. \A q \in Requests : Len(F) + Len(Frame(q)) <= BufLen + 1
  BY DEF WholeFrames
<1>6. Len(F) + Len(F) <= BufLen + 1
  BY <1>5
<1> HIDE DEF F, L
<1>7. Len(F) \in Nat \ {0} /\ Len(F) <= BufLen /\ L < Len(F)
  BY <1>2, <1>4, <1>6
<1> QED
  BY <1>2, <1>3, <1>4, <1>5, <1>7 DEF F, L

(* The ends of a frame.                                                    *)
LEMMA EndingFacts ==
  ASSUME WholeFrames, NEW r \in Requests, NEW m \in 0..(Len(Frame(r)) - 1)
  PROVE  /\ Ending(r, m) \in Clean /\ Ending(r, m) \in Text
         /\ Len(Ending(r, m)) = Len(Frame(r)) - m /\ m \in Nat
         /\ Len(Ending(r, m)) \in Nat \ {0}
         /\ m = 0 => Ending(r, m) = Frame(r)
<1> DEFINE F == Frame(r)
           n == Len(F)
<1>1. F \in Clean /\ F \in Text /\ n \in Nat \ {0}
  BY FrameSizes
<1>2. m \in Nat /\ n \in m..Len(F) /\ m < n
  BY <1>1
<1>3. Ending(r, m) = SubSeq(F, m + 1, n)
  BY DEF Ending
<1> HIDE DEF F
<1>4. SubSeq(F, m + 1, n) \in Clean /\ Len(SubSeq(F, m + 1, n)) = n - m
  BY <1>1, <1>2, Piece DEF Clean
<1>5. SubSeq(F, m + 1, n) \in Text
  BY <1>1, <1>2, Piece DEF Text
<1>6. n - m \in Nat \ {0}
  BY <1>1, <1>2
<1>7. m = 0 => SubSeq(F, m + 1, n) = F
  BY <1>1, SubSeqFull DEF Text
<1> QED
  BY <1>2, <1>3, <1>4, <1>5, <1>6, <1>7 DEF F

(* What decodeMessage makes of what a read has gathered: a request that it *)
(* has gathered whole, or nothing, and then the buffer was not full.       *)
LEMMA GatheredMessage ==
  ASSUME WholeFrames, Delimited, NEW x, Gathered(x)
  PROVE  \/ MessageField(x) = << >> /\ Len(x) < BufLen
         \/ \E r \in Requests : /\ MessageField(x) = r
                                /\ OccursIn(<<":">> \o r \o <<";">>, x)
                                /\ ";" \in Range(StrtokRest[":"][x])
<1>0. PICK r \in Requests : \E m \in 0..(Len(Frame(r)) - 1) : \E t \in Clean :
        /\ x = Ending(r, m) \o t
        /\ m < Header(r) \/ t = << >> \/ \E q \in Requests, u \in Clean : t = Frame(q) \o u
  BY DEF Gathered
<1>1. PICK m \in 0..(Len(Frame(r)) - 1), t \in Clean :
        /\ x = Ending(r, m) \o t
        /\ m < Header(r) \/ t = << >> \/ \E q \in Requests, u \in Clean : t = Frame(q) \o u
  BY <1>0
<1>2. Framed(Frame(r), r, ":", ";", Header(r))
  BY FrameIsFramed
<1>3. ":" \in Cells /\ ";" \in Cells
  BY CellsAssumption, Zenon
<1>4. \A v \in Clean : v \in Text
  BY SeqDef DEF Clean, Text
<1>5. ASSUME NEW q \in Requests, NEW a, NEW c, x \in Text, Encloses(x, q, ":", ";", a, c)
      PROVE  \E p \in Requests : /\ MessageField(x) = p
                                 /\ OccursIn(<<":">> \o p \o <<";">>, x)
                                 /\ ";" \in Range(StrtokRest[":"][x])
  <2>1. q \in Text
    BY FrameIsClean
  <2>2. MessageField(x) = q /\ ";" \in Range(StrtokRest[":"][x])
    BY <2>1, <1>5, MessageAt, Zenon
  <2>3. OccursIn(<<":">> \o q \o <<";">>, x)
    BY <2>1, <1>3, <1>5, EnclosedOccurs, Zenon
  <2> QED
    BY <2>2, <2>3, Zenon
<1>6. CASE m < Header(r)
  <2>1. m \in 0..(Header(r) - 1)
    BY <1>6, FrameSizes
  <2>2. x \in Text /\ Encloses(x, r, ":", ";", 0, (Header(r) - m) + 1)
    <3>1. t \in Text
      BY <1>4
    <3> DEFINE L == Header(r)
               F == Frame(r)
    <3>2. x = SubSeq(F, m + 1, Len(F)) \o t /\ m \in 0..(L - 1) /\ Framed(F, r, ":", ";", L)
      BY <1>1, <1>2, <2>1, Zenon DEF Ending
    <3> HIDE DEF L, F
    <3>3. x \in Text /\ Encloses(x, r, ":", ";", 0, (L - m) + 1)
      BY <3>1, <3>2, HeaderLeft, Zenon
    <3> QED
      BY <3>3, Zenon DEF L
  <2> QED
    BY <2>2, <1>5, Zenon
<1>7. CASE ~(m < Header(r))
  <2> DEFINE E == Ending(r, m)
  <2>1. m \in Header(r)..(Len(Frame(r)) - 1)
    BY <1>7, FrameSizes
  <2>2. E \in Text /\ Len(E) \in Nat \ {0} /\ Len(E) < Len(Frame(r)) /\ \A j \in 2..Len(E) : E[j] # ":"
    <3> DEFINE L == Header(r)
               F == Frame(r)
               D == SubSeq(F, m + 1, Len(F))
    <3>1. m \in L..(Len(F) - 1) /\ Framed(F, r, ":", ";", L) /\ E = D
      BY <1>2, <2>1, Zenon DEF Ending
    <3> HIDE DEF L, F
    <3>2. D \in Text /\ Len(D) \in Nat \ {0} /\ Len(D) < Len(F) /\ \A j \in 2..Len(D) : D[j] # ":"
      BY <3>1, HeaderGone, Zenon
    <3> QED
      BY <3>1, <3>2, Zenon DEF F
  <2> HIDE DEF E
  <2>3. CASE t = << >>
    <3>1. x = E
      BY <1>1, <2>2, <2>3, ConcatEmptySeq DEF E, Text
    <3>2. PICK a : Splits(E, ":", a, Len(E))
      BY <2>2, EndAlone, Zenon
    <3>3. MessageField(x) = << >>
      BY <2>2, <3>1, <3>2, NoMessage, Zenon
    <3>4. Len(x) < BufLen
      BY <2>2, <3>1, FrameSizes
    <3> QED
      BY <3>3, <3>4
  <2>4. CASE \E q \in Requests, u \in Clean : t = Frame(q) \o u
    <3>1. PICK q \in Requests, u \in Clean : t = Frame(q) \o u
      BY <2>4
    <3>2. Framed(Frame(q), q, ":", ";", Header(q)) /\ u \in Text
      BY FrameIsFramed, <1>4
    <3> DEFINE G == Frame(q)
               K == Header(q)
    <3>3. x = E \o (G \o u) /\ Framed(G, q, ":", ";", K)
      BY <1>1, <3>1, <3>2 DEF E
    <3> HIDE DEF G, K
    <3>4. x \in Text /\ \E a : Encloses(x, q, ":", ";", a, Len(E) + K + 1)
      BY <2>2, <3>2, <3>3, EndAndFrame, Zenon
    <3> QED
      BY <3>4, <1>5, Zenon
  <2> QED
    BY <1>1, <1>7, <2>3, <2>4
<1> QED
  BY <1>6, <1>7
(* Three clean texts one behind the other.                                 *)
LEMMA CleanAssociative ==
  ASSUME NEW a \in Clean, NEW b \in Clean, NEW c \in Clean
  PROVE  (a \o b) \o c = a \o (b \o c)
BY ConcatAssociative DEF Clean

(* A read that has gathered something gathers more: a whole frame, or the  *)
(* beginning of one that fills the buffer.                                 *)
LEMMA GatherMore ==
  ASSUME WholeFrames, NEW x, Gathered(x), NEW q \in Requests, NEW n \in 0..Len(Frame(q)),
         n # Len(Frame(q)) => Len(x) + n = BufLen
  PROVE  Gathered(x \o SubSeq(Frame(q), 1, n))
<1>0. PICK r \in Requests : \E m \in 0..(Len(Frame(r)) - 1) : \E t \in Clean :
        /\ x = Ending(r, m) \o t
        /\ m < Header(r) \/ t = << >> \/ \E p \in Requests, u \in Clean : t = Frame(p) \o u
  BY DEF Gathered
<1>1. PICK m \in 0..(Len(Frame(r)) - 1), t \in Clean :
        /\ x = Ending(r, m) \o t
        /\ m < Header(r) \/ t = << >> \/ \E p \in Requests, u \in Clean : t = Frame(p) \o u
  BY <1>0
<1> DEFINE E == Ending(r, m)
           G == Frame(q)
           y == SubSeq(G, 1, n)
<1>2. G \in Clean /\ Len(G) \in Nat /\ BufLen \in Nat
  BY FrameSizes
<1>3. /\ E \in Clean /\ Len(E) = Len(Frame(r)) - m /\ m \in Nat /\ Len(E) \in Nat
      /\ Len(Frame(r)) \in Nat /\ Header(r) \in Nat \ {0}
      /\ Len(Frame(r)) + Len(G) <= BufLen + 1
  BY EndingFacts, FrameSizes
<1>4. y \in Clean
  <2>1. 0 \in Nat /\ n \in 0..Len(G) /\ 0 + 1 = 1
    OBVIOUS
  <2> HIDE DEF G
  <2> QED
    BY <1>2, <2>1, Piece DEF Clean
<1>5. n = Len(G) => y = G
  BY <1>2, SubSeqFull DEF Clean
<1> HIDE DEF E, G, y
<1>6. x \o y = E \o (t \o y) /\ t \o y \in Clean
  <2>1. (E \o t) \o y = E \o (t \o y)
    <3>1. E \in Clean /\ t \in Clean /\ y \in Clean
      BY <1>3, <1>4
    <3> QED
      BY <3>1, CleanAssociative, Zenon
  <2>2. t \o y \in Clean
    BY <1>4, ConcatProperties DEF Clean
  <2> QED
    BY <2>1, <2>2, <1>1 DEF E
<1>7. \/ m < Header(r) \/ t \o y = << >>
      \/ \E p \in Requests, u \in Clean : t \o y = Frame(p) \o u
  <2>1. CASE m < Header(r)
    BY <2>1
  <2>2. CASE t = << >> /\ ~(m < Header(r))
    <3>1. Len(x) = Len(E)
      <4>1. x = E
        BY <1>1, <1>3, <2>2, ConcatEmptySeq DEF E, Clean
      <4> QED
        BY <4>1
    <3>2. n = Len(G)
      <4> SUFFICES ASSUME n # Len(G) PROVE FALSE
        OBVIOUS
      <4>1. Len(E) + n = BufLen
        BY <3>1 DEF G
      <4>2. n \in Nat /\ n < Len(G)
        BY <1>2 DEF G
      <4>3. m >= 1
        BY <2>2, <1>3
      <4> QED
        BY <4>1, <4>2, <4>3, <1>2, <1>3
    <3>3. t \o y = G \o << >> /\ << >> \in Clean
      BY <3>2, <2>2, <1>2, <1>5, ConcatEmptySeq DEF Clean
    <3> QED
      BY <3>3 DEF G
  <2>3. CASE \E p \in Requests, u \in Clean : t = Frame(p) \o u
    <3>1. PICK p \in Requests, u \in Clean : t = Frame(p) \o u
      BY <2>3
    <3>2. Frame(p) \in Clean
      BY FrameIsClean
    <3>3. t \o y = Frame(p) \o (u \o y)
      <4> DEFINE P == Frame(p)
      <4>1. P \in Clean /\ t = P \o u
        BY <3>1, <3>2
      <4> HIDE DEF P
      <4>2. (P \o u) \o y = P \o (u \o y)
        BY <4>1, <1>4, CleanAssociative
      <4> QED
        BY <4>1, <4>2 DEF P
    <3>4. u \o y \in Clean
      BY <1>4, ConcatProperties DEF Clean
    <3> QED
      BY <3>3, <3>4
  <2> QED
    BY <1>1, <2>1, <2>2, <2>3
<1>8. Gathered(x \o y)
  BY <1>6, <1>7 DEF Gathered, E
<1> QED
  BY <1>8 DEF y, G

(* The first and the other transfers in a queue.                           *)
LEMMA QueueTail ==
  ASSUME WholeFrames, NEW q \in Seq(Clean), q # << >>, FramesBehindEnding(q)
  PROVE  /\ IsEnding(Head(q)) /\ AllFrames(Tail(q)) /\ Tail(q) \in Seq(Clean)
         /\ AllFrames(q) => IsFrame(Head(q))
<1>1. /\ Head(q) = q[1] /\ Len(q) \in Nat /\ Len(q) >= 1
      /\ Tail(q) \in Seq(Clean) /\ Len(Tail(q)) = Len(q) - 1
      /\ \A i \in 1..Len(Tail(q)) : Tail(q)[i] = q[i + 1]
  BY HeadTailProperties, LenProperties
<1>2. 1 \in 1..Len(q) /\ \A i \in 1..Len(Tail(q)) : i + 1 \in 1..Len(q) /\ i + 1 # 1
  BY <1>1
<1> QED
  BY <1>1, <1>2 DEF FramesBehindEnding, AllFrames

LEMMA FramesAreEndings ==
  ASSUME WholeFrames
  PROVE  /\ \A x : IsFrame(x) => IsEnding(x)
         /\ \A q : AllFrames(q) => FramesBehindEnding(q)
<1>1. ASSUME NEW r \in Requests PROVE IsEnding(Frame(r))
  <2>1. 0 \in 0..(Len(Frame(r)) - 1)
    BY FrameSizes
  <2>2. Ending(r, 0) = Frame(r)
    BY <2>1, EndingFacts
  <2> QED
    BY <2>1, <2>2 DEF IsEnding
<1>2. \A x : IsFrame(x) => IsEnding(x)
  BY <1>1 DEF IsFrame
<1> QED
  BY <1>2 DEF AllFrames, FramesBehindEnding

(* An ending in front of frames, a frame behind them.                      *)
LEMMA QueueEnds ==
  ASSUME WholeFrames, NEW q \in Seq(Clean), NEW t \in Clean
  PROVE  /\ AllFrames(q) /\ IsEnding(t) => FramesBehindEnding(<<t>> \o q)
         /\ AllFrames(q) /\ IsFrame(t) => AllFrames(Append(q, t)) /\ AllFrames(q \o <<t>>)
         /\ FramesBehindEnding(q) /\ IsFrame(t) => FramesBehindEnding(Append(q, t))
<1>1. Len(q) \in Nat
  BY LenProperties
<1>2. /\ Len(Append(q, t)) = Len(q) + 1
      /\ \A i \in 1..Len(q) : Append(q, t)[i] = q[i]
      /\ Append(q, t)[Len(q) + 1] = t
  BY AppendProperties
<1>3. \A i \in 1..(Len(q) + 1) : i \in 1..Len(q) \/ i = Len(q) + 1
  BY <1>1
<1>4. AllFrames(q) /\ IsFrame(t) => AllFrames(Append(q, t))
  BY <1>2, <1>3 DEF AllFrames
<1>5. FramesBehindEnding(q) /\ IsFrame(t) => FramesBehindEnding(Append(q, t))
  BY <1>2, <1>3, FramesAreEndings DEF FramesBehindEnding
<1>6. Append(q, t) = q \o <<t>>
  BY AppendIsConcat
<1> DEFINE one == <<t>>
<1>7. one \in Seq(Clean) /\ Len(one) = 1 /\ one[1] = t
  OBVIOUS
<1> HIDE DEF one
<1>8. /\ Len(one \o q) = 1 + Len(q)
      /\ \A i \in 1..(1 + Len(q)) : (one \o q)[i] = IF i <= 1 THEN one[i] ELSE q[i - 1]
  <2>1. /\ Len(one \o q) = Len(one) + Len(q)
        /\ \A i \in 1..(Len(one) + Len(q)) :
             (one \o q)[i] = IF i <= Len(one) THEN one[i] ELSE q[i - Len(one)]
    <3>1. one \in Seq(Clean) /\ q \in Seq(Clean)
      BY <1>7
    <3> QED
      BY <3>1, ConcatProperties
  <2> QED
    BY <2>1, <1>1, <1>7
<1>9. ASSUME AllFrames(q), IsEnding(t), NEW i \in 1..(1 + Len(q))
      PROVE  IsEnding((one \o q)[i]) /\ (i # 1 => IsFrame((one \o q)[i]))
  <2>1. CASE i = 1
    BY <2>1, <1>7, <1>8, <1>9
  <2>2. CASE i # 1
    <3>1. i - 1 \in 1..Len(q) /\ ~(i <= 1)
      BY <2>2, <1>1
    <3>2. (one \o q)[i] = q[i - 1]
      BY <3>1, <1>8
    <3>3. IsFrame(q[i - 1])
      BY <3>1, <1>9 DEF AllFrames
    <3> QED
      BY <3>2, <3>3, FramesAreEndings
  <2> QED
    BY <2>1, <2>2
<1>10. AllFrames(q) /\ IsEnding(t) => FramesBehindEnding(one \o q)
  BY <1>8, <1>9 DEF FramesBehindEnding
<1> QED
  BY <1>4, <1>5, <1>6, <1>10 DEF one

(* A read that takes from the queue.                                       *)
LEMMA FrameReadChunk ==
  ASSUME WholeFrames, ReadInv, FrameInv, ReadChunk
  PROVE  FrameInv'
<1> DEFINE h    == Head(ibq)
           room == BufLen - bytesRead
           size == IF Len(h) > room THEN room ELSE Len(h)
           y    == SubSeq(h, 1, size)
           rest == SubSeq(h, size + 1, Len(h))
<1>1. /\ pc = "read" /\ ibq # << >> /\ bytesRead < BufLen
      /\ bytesRead' = bytesRead + size
      /\ received' = received \o y
      /\ ibq' = IF size = Len(h) THEN Tail(ibq) ELSE <<rest>> \o Tail(ibq)
      /\ pc' = pc /\ wire' = wire
  BY DEF ReadChunk
<1>2. ibq \in Seq(Clean) /\ FramesBehindEnding(ibq) /\ AllFrames(wire)
  BY DEF ReadInv, QueuesHoldText, FrameInv
<1>3. /\ IsEnding(h) /\ AllFrames(Tail(ibq)) /\ Tail(ibq) \in Seq(Clean)
      /\ AllFrames(ibq) => IsFrame(h)
  BY <1>1, <1>2, QueueTail
<1>4. BufLen \in Nat /\ bytesRead \in Nat /\ Len(received) = bytesRead /\ received \in Clean
  BY BoundsAssumption DEF ReadInv, BufferHoldsThisRead
<1> HIDE DEF h
<1>5. h \in Clean /\ Len(h) \in Nat /\ Len(h) <= BufLen /\ h # << >>
  <2>1. PICK r \in Requests : \E m \in 0..(Len(Frame(r)) - 1) : h = Ending(r, m)
    BY <1>3 DEF IsEnding
  <2>2. PICK m \in 0..(Len(Frame(r)) - 1) : h = Ending(r, m)
    BY <2>1
  <2>3. h \in Clean /\ Len(h) = Len(Frame(r)) - m /\ m \in Nat /\ Len(h) \in Nat \ {0}
    BY <2>2, EndingFacts
  <2>4. Len(Frame(r)) \in Nat /\ Len(Frame(r)) <= BufLen
    BY FrameSizes
  <2>5. h # << >>
    BY <2>3
  <2> QED
    BY <2>3, <2>4, <2>5, <1>4
<1>6. CASE bytesRead = 0
  <2>1. size = Len(h)
    BY <1>4, <1>5, <1>6
  <2>2. received = << >>
    BY <1>4, <1>6, EmptySeq DEF Clean
  <2> HIDE DEF size
  <2>3. received' = h
    <3>1. SubSeq(h, 1, Len(h)) = h /\ << >> \o h = h
      BY <1>5, SubSeqFull, ConcatEmptySeq DEF Clean
    <3> QED
      BY <3>1, <2>1, <2>2, <1>1
  <2>4. Gathered(h)
    <3>1. h \o << >> = h /\ << >> \in Clean
      BY <1>5, ConcatEmptySeq DEF Clean
    <3> QED
      BY <3>1, <1>3 DEF Gathered, IsEnding
  <2>5. ibq' = Tail(ibq)
    BY <2>1, <1>1
  <2>6. AllFrames(ibq') /\ FramesBehindEnding(ibq') /\ AllFrames(wire') /\ Gathered(received')
    BY <2>3, <2>4, <2>5, <1>1, <1>2, <1>3, FramesAreEndings
  <2> QED
    BY <2>6 DEF FrameInv
<1>7. CASE bytesRead # 0
  <2>1. IsFrame(h)
    BY <1>1, <1>3, <1>4, <1>7 DEF FrameInv
  <2>2. PICK q \in Requests : h = Frame(q)
    BY <2>1 DEF IsFrame
  <2>3. Gathered(received)
    <3>1. received # << >>
      BY <1>4, <1>7
    <3> QED
      BY <3>1 DEF FrameInv
  <2>4. size \in 0..Len(h) /\ (size # Len(h) => bytesRead + size = BufLen)
    BY <1>1, <1>4, <1>5
  <2> HIDE DEF size
  <2>5. Gathered(received')
    <3>1. Gathered(received \o SubSeq(Frame(q), 1, size))
      BY <2>2, <2>3, <2>4, <1>4, GatherMore
    <3> QED
      BY <3>1, <2>2, <1>1
  <2>6. CASE size = Len(h)
    <3>1. ibq' = Tail(ibq)
      BY <2>6, <1>1
    <3>2. AllFrames(ibq') /\ FramesBehindEnding(ibq') /\ AllFrames(wire')
      BY <3>1, <1>1, <1>2, <1>3, FramesAreEndings
    <3> QED
      BY <3>2, <2>5 DEF FrameInv
  <2>7. CASE size # Len(h)
    <3>1. ibq' = <<rest>> \o Tail(ibq) /\ bytesRead' = BufLen
      BY <2>4, <2>7, <1>1
    <3>2. size \in 0..(Len(Frame(q)) - 1)
      BY <2>2, <2>4, <2>7, <1>5
    <3>3. rest = Ending(q, size)
      BY <2>2 DEF Ending
    <3> HIDE DEF rest
    <3>4. IsEnding(rest) /\ rest \in Clean
      BY <3>2, <3>3, EndingFacts DEF IsEnding
    <3>5. FramesBehindEnding(ibq')
      BY <3>1, <3>4, <1>3, QueueEnds
    <3>6. ~(bytesRead' < BufLen)
      BY <3>1, <1>4
    <3>7. AllFrames(wire')
      BY <1>1, <1>2
    <3> QED
      BY <3>5, <3>6, <3>7, <2>5 DEF FrameInv
  <2> QED
    BY <2>6, <2>7
<1> QED
  BY <1>6, <1>7

(* The other steps.                                                        *)
LEMMA FrameInvPreserved ==
  ASSUME WholeFrames, ReadInv, FrameInv, [Next]_vars
  PROVE  FrameInv'
<1>1. wire \in Seq(Clean) /\ ibq \in Seq(Clean)
  BY DEF ReadInv, QueuesHoldText
<1>2. CASE ReadChunk
  BY <1>2, FrameReadChunk
<1>3. CASE ReadReturn
  <2>1. wire' = wire /\ ibq' = ibq /\ received' \in {received, << >>} /\ (pc' # "read" \/ bytesRead' = 0)
    BY <1>3 DEF ReadReturn
  <2> QED
    BY <2>1 DEF FrameInv
<1>4. CASE DecodeMessage \/ SendMessage \/ ClearBuffers
  <2>1. wire' = wire /\ ibq' = ibq /\ received' \in {received, << >>} /\ (pc' # "read" \/ bytesRead' = 0)
    BY <1>4 DEF DecodeMessage, DecodeNetstring, SendMessage, ClearBuffers
  <2> QED
    BY <2>1 DEF FrameInv
<1>5. CASE \E r \in Requests : HostSend(r)
  <2>1. PICK r \in Requests : HostSend(r)
    BY <1>5
  <2> DEFINE f == Frame(r)
  <2>2. wire' = wire \o <<f>> /\ UNCHANGED <<ibq, pc, bytesRead, received>>
    BY <2>1 DEF HostSend, Transfers, WholeFrames, threadVars
  <2>3. f \in Clean /\ IsFrame(f)
    BY FrameIsClean DEF IsFrame
  <2> HIDE DEF f
  <2>4. AllFrames(wire \o <<f>>)
    BY <2>3, <1>1, QueueEnds DEF FrameInv
  <2> QED
    BY <2>2, <2>4 DEF FrameInv
<1>6. CASE UsbDeliver
  <2>1. /\ wire # << >> /\ ibq' = Append(ibq, Head(wire)) /\ wire' = Tail(wire)
        /\ UNCHANGED <<pc, bytesRead, received>>
    BY <1>6 DEF UsbDeliver, threadVars
  <2>2. IsFrame(Head(wire)) /\ AllFrames(Tail(wire)) /\ Head(wire) \in Clean
    <3>1. AllFrames(wire) /\ FramesBehindEnding(wire)
      BY FramesAreEndings DEF FrameInv
    <3> QED
      BY <3>1, <2>1, <1>1, QueueTail, HeadTailProperties
  <2>3. FramesBehindEnding(ibq')
    BY <2>1, <2>2, <1>1, QueueEnds DEF FrameInv
  <2>4. AllFrames(ibq) => AllFrames(ibq')
    BY <2>1, <2>2, <1>1, QueueEnds
  <2> QED
    BY <2>1, <2>2, <2>3, <2>4 DEF FrameInv
<1>7. CASE HostReceive \/ HostTimeout
  BY <1>7 DEF HostReceive, HostTimeout, threadVars, FrameInv
<1>8. CASE UNCHANGED vars
  BY <1>8 DEF vars, FrameInv
<1> QED
  BY <1>2, <1>3, <1>4, <1>5, <1>6, <1>7, <1>8 DEF Next

LEMMA FramesInvariant ==
  ASSUME WholeFrames
  PROVE  Spec => [](ReadInv /\ TypeOK /\ FrameInv)
<1>1. Init => FrameInv
  <2> SUFFICES ASSUME Init PROVE FrameInv
    OBVIOUS
  <2>1. wire = << >> /\ ibq = << >> /\ received = << >> /\ bytesRead = 0
    BY DEF Init
  <2>2. Len(<< >>) = 0
    OBVIOUS
  <2> QED
    BY <2>1, <2>2 DEF FrameInv, AllFrames, FramesBehindEnding
<1>2. ReadInv /\ TypeOK /\ FrameInv /\ [Next]_vars => (ReadInv /\ TypeOK /\ FrameInv)'
  BY ReadInvPreserved, TypesPreserved, FrameInvPreserved
<1> QED
  BY <1>1, <1>2, ReadInvInit, TypesInit, PTL DEF Spec

(* What is decoded.                                                        *)
LEMMA DecodedMessage ==
  ASSUME WholeFrames, Delimited, ReadInv, TypeOK, FrameInv, pc = "decode"
  PROVE  LET x == CString(readBuffer)
         IN  /\ x = received /\ Len(received) = bytesRead
             /\ \/ MessageField(x) = << >> /\ bytesRead < BufLen
                \/ \E r \in Requests : /\ MessageField(x) = r
                                       /\ OccursIn(<<":">> \o r \o <<";">>, received)
                                       /\ ";" \in Range(StrtokRest[":"][x])
<1>1. CString(readBuffer) = received
  BY DecodesReceived DEF TypeOK
<1>2. bytesRead = Len(received) /\ bytesRead > MinBytes /\ bytesRead \in Nat
  BY DEF ReadInv, BufferHoldsThisRead, StaleOnlyAtTheStart
<1>3. Gathered(received)
  <2>1. received # << >>
    BY <1>2 DEF MinBytes
  <2> QED
    BY <2>1 DEF FrameInv
<1>4. \/ MessageField(received) = << >> /\ Len(received) < BufLen
      \/ \E r \in Requests : /\ MessageField(received) = r
                             /\ OccursIn(<<":">> \o r \o <<";">>, received)
                             /\ ";" \in Range(StrtokRest[":"][received])
  BY <1>3, GatheredMessage, Zenon
<1> QED
  BY <1>1, <1>2, <1>4, Zenon

(***************************************************************************)
(* A full read has a ":" with something in front of it; behind it stands a *)
(* whole payload, and so a cell other than ";", before the ";" that ends a *)
(* frame.                                                                  *)
(***************************************************************************)
LEMMA FullReadInBounds ==
  ASSUME WholeFrames, Worded, NEW x, Gathered(x), ~(Len(x) < BufLen)
  PROVE  ";" \in Range(SkipDelimiters(StrtokRest[":"][x], ";"))
<1>0. PICK r \in Requests : \E m \in 0..(Len(Frame(r)) - 1) : \E t \in Clean :
        /\ x = Ending(r, m) \o t
        /\ m < Header(r) \/ t = << >> \/ \E q \in Requests, u \in Clean : t = Frame(q) \o u
  BY DEF Gathered
<1>1. PICK m \in 0..(Len(Frame(r)) - 1), t \in Clean :
        /\ x = Ending(r, m) \o t
        /\ m < Header(r) \/ t = << >> \/ \E q \in Requests, u \in Clean : t = Frame(q) \o u
  BY <1>0
<1>2. \A v \in Clean : v \in Text
  BY SeqDef DEF Clean, Text
<1>del. PICK e \in Cells, d \in Cells : e = ":" /\ d = ";" /\ d # e
  BY CellsAssumption, Zenon
<1>3. ASSUME NEW q \in Requests
      PROVE  /\ Frame(q) \in Text /\ Header(q) \in Nat /\ 0 < Header(q) /\ Len(q) \in Nat
             /\ Len(Frame(q)) = Header(q) + Len(q) + 2
             /\ Frame(q)[Header(q) + 1] = e
             /\ Frame(q)[Header(q) + Len(q) + 2] = d
             /\ \A j \in 1..Header(q) : Frame(q)[j] # e
             /\ \E w \in 1..Len(q) : Frame(q)[Header(q) + 1 + w] # d
  <2>1. q \in Text
    BY FrameIsClean
  <2>2. /\ Frame(q) \in Text /\ Header(q) \in Nat \ {0} /\ Len(q) \in Nat
        /\ Len(Frame(q)) = Header(q) + Len(q) + 2
        /\ Frame(q)[Header(q) + 1] = ":"
        /\ Frame(q)[Header(q) + Len(q) + 2] = ";"
        /\ \A j \in 1..Header(q) : Frame(q)[j] \in Digits
        /\ \A j \in 1..Len(q) : Frame(q)[Header(q) + 1 + j] = q[j]
    BY <2>1, FrameFacts, Zenon DEF Header
  <2>3. \A j \in 1..Header(q) : Frame(q)[j] # e
    BY <1>del, <2>2, DigitFacts, Zenon
  <2>4. Header(q) \in Nat /\ 0 < Header(q)
    BY FrameSizes
  <2>5. \E w \in 1..Len(q) : Frame(q)[Header(q) + 1 + w] # d
    BY <1>del, <2>2, Zenon DEF Worded
  <2> QED
    BY <1>del, <2>2, <2>3, <2>4, <2>5, Zenon
<1>4. PICK F : F = Frame(r)
  OBVIOUS
<1>5. PICK L \in Nat : L = Header(r)
  BY <1>3
<1>6. PICK k \in Nat : k = Len(r)
  BY <1>3
<1>7. /\ F \in Text /\ 0 < L /\ Len(F) = L + k + 2 /\ F[L + 1] = e /\ F[L + k + 2] = d
      /\ \A j \in 1..L : F[j] # e
  BY <1>3, <1>4, <1>5, <1>6
<1>w. PICK w \in 1..k : F[L + 1 + w] # d
  BY <1>3, <1>4, <1>5, <1>6
<1>8. m \in 0..(Len(F) - 1) /\ t \in Text /\ x = SubSeq(F, m + 1, Len(F)) \o t
  BY <1>1, <1>2, <1>4 DEF Ending
<1>9. CASE m < L
  <2>1. m \in Nat
    BY <1>7, <1>8
  <2>2. d \in Range(SkipDelimiters(StrtokRest[e][x], d))
    BY <1>7, <1>8, <1>9, <1>w, <2>1, CutInTheHeader
  <2> QED
    BY <1>del, <2>2
<1>10. CASE ~(m < L)
  <2>1. PICK E : E = SubSeq(F, m + 1, Len(F))
    OBVIOUS
  <2>2. PICK N \in Nat : N = Len(F) - m
    BY <1>7, <1>8
  <2>3. E \in Text /\ Len(E) = N /\ \A j \in 1..N : E[j] = F[m + j]
    BY <1>7, <1>8, <2>1, <2>2, EndCells
  <2>4. 1 <= N /\ N \in 1..N /\ m + N = L + k + 2 /\ N < Len(F)
    BY <1>7, <1>8, <1>10, <2>2
  <2>5. E[N] = d
    BY <1>7, <2>3, <2>4
  <2>6. t # << >>
    <3> SUFFICES ASSUME t = << >> PROVE FALSE
      OBVIOUS
    <3>1. x = E
      BY <1>8, <2>1, <2>3, ConcatEmptySeq DEF Text
    <3>2. Len(F) <= BufLen /\ BufLen \in Nat
      BY <1>4, FrameSizes
    <3>3. Len(x) = N
      BY <3>1, <2>3
    <3> QED
      BY <3>2, <3>3, <1>7, <2>4
  <2>7. PICK q \in Requests, u \in Clean : t = Frame(q) \o u
    BY <1>1, <1>5, <1>10, <2>6
  <2>8. x = E \o (Frame(q) \o u) /\ u \in Text
    BY <1>2, <1>8, <2>1, <2>7
  <2>9. PICK G, K, i : G = Frame(q) /\ K = Header(q) /\ i = Len(q)
    OBVIOUS
  <2>10. /\ G \in Text /\ K \in Nat /\ i \in Nat
         /\ Len(G) = K + i + 2 /\ G[K + 1] = e /\ G[K + i + 2] = d
    BY <1>3, <2>9
  <2>w. PICK v \in 1..i : G[K + 1 + v] # d
    BY <1>3, <2>9
  <2>11. d # e
    BY <1>del
  <2>12. d \in Range(SkipDelimiters(StrtokRest[e][E \o (G \o u)], d))
    BY <2>3, <2>4, <2>5, <2>8, <2>10, <2>11, <2>w, EndThenFrame
  <2> QED
    BY <1>del, <2>8, <2>9, <2>12
<1> QED
  BY <1>9, <1>10

(***************************************************************************)
(* The tokenizer stays inside the read buffer, however the requests of a   *)
(* host that gives up on replies run into each other, and whatever their   *)
(* payloads are, delimiters included, if none is empty or ";" alone.       *)
(***************************************************************************)
THEOREM TokenizerStaysInBounds ==
  ASSUME WholeFrames, Worded
  PROVE  Spec => []DecodeInBounds
<1>1. ReadInv /\ TypeOK /\ FrameInv => DecodeInBounds
  <2> SUFFICES ASSUME ReadInv, TypeOK, FrameInv, pc = "decode"
               PROVE  \/ NUL \in Range(readBuffer)
                      \/ ";" \in Range(SkipDelimiters(StrtokRest[":"][CString(readBuffer)], ";"))
    BY DEF DecodeInBounds
  <2>1. CASE bytesRead < BufLen
    <3> DEFINE k == bytesRead + 1
    <3>1. bytesRead \in Nat /\ bytesRead > MinBytes /\ BufLen \in Nat
      BY BoundsAssumption DEF ReadInv, BufferHoldsThisRead, StaleOnlyAtTheStart
    <3>2. k \in 1..BufLen /\ k > bytesRead /\ k > MinBytes
      BY <2>1, <3>1 DEF MinBytes
    <3> HIDE DEF k
    <3>3. readBuffer[k] = NUL
      BY <3>2 DEF ReadInv, StaleOnlyAtTheStart
    <3>4. DOMAIN readBuffer = 1..BufLen
      BY DEF TypeOK
    <3>5. NUL \in Range(readBuffer)
      BY <3>2, <3>3, <3>4, Zenon DEF Range
    <3> QED
      BY <3>5
  <2>2. CASE ~(bytesRead < BufLen)
    <3>1. CString(readBuffer) = received
      BY DecodesReceived DEF TypeOK
    <3>2. bytesRead = Len(received) /\ bytesRead > MinBytes
      BY DEF ReadInv, BufferHoldsThisRead, StaleOnlyAtTheStart
    <3>3. Gathered(received)
      <4>1. received # << >>
        BY <3>2 DEF MinBytes
      <4> QED
        BY <4>1 DEF FrameInv
    <3>4. ";" \in Range(SkipDelimiters(StrtokRest[":"][received], ";"))
      BY <2>2, <3>2, <3>3, FullReadInBounds
    <3> QED
      BY <3>1, <3>4, Zenon
  <2> QED
    BY <2>1, <2>2
<1> QED
  BY <1>1, FramesInvariant, PTL

(***************************************************************************)
(* An output only changes as a request says that has been received whole,  *)
(* also when reads cut frames and begin with what an earlier read left.    *)
(***************************************************************************)
THEOREM OnlyWholeRequestsExecuted ==
  ASSUME WholeFrames, Delimited
  PROVE  Spec => ExecutesOnlyWholeRequests
<1> DEFINE Whole == board' # board =>
                      \E r \in Requests :
                        /\ OccursIn(<<":">> \o r \o <<";">>, received)
                        /\ board' = ProcessCommand(board, Sensor(r), Value(r))
<1>1. ReadInv /\ TypeOK /\ FrameInv /\ [Next]_vars => [Whole]_vars
  <2> SUFFICES ASSUME ReadInv, TypeOK, FrameInv, [Next]_vars, board' # board
               PROVE  \E r \in Requests :
                        /\ OccursIn(<<":">> \o r \o <<";">>, received)
                        /\ board' = ProcessCommand(board, Sensor(r), Value(r))
    OBVIOUS
  <2>1. DecodeMessage
    BY DEF Next, vars, ReadChunk, ReadReturn, SendMessage, ClearBuffers, HostSend,
           UsbDeliver, HostReceive, HostTimeout, threadVars
  <2> DEFINE m == MessageField(CString(readBuffer))
  <2>2. pc = "decode" /\ DecodeNetstring(m)
    BY <2>1 DEF DecodeMessage
  <2>3. Strstr(Command(m), "set") /\ board' = ProcessCommand(board, Sensor(m), Value(m))
    <3> HIDE DEF m
    <3> QED
      BY <2>2, Zenon DEF DecodeNetstring
  <2>4. m # << >>
    <3> SUFFICES ASSUME m = << >> PROVE FALSE
      OBVIOUS
    <3>1. "|" \in Cells
      BY CellsAssumption, Zenon
    <3>2. Command(m) = << >>
      BY <3>1, StrtokType, Zenon DEF Command
    <3>3. DOMAIN << >> = {}
      OBVIOUS
    <3> QED
      BY <2>3, <3>2, <3>3, Zenon DEF Strstr
  <2>5. \E r \in Requests : m = r /\ OccursIn(<<":">> \o r \o <<";">>, received)
    BY <2>2, <2>4, DecodedMessage, Zenon
  <2> QED
    BY <2>3, <2>5, Zenon
<1> QED
  BY <1>1, FramesInvariant, PTL DEF Spec, ExecutesOnlyWholeRequests
=============================================================================
