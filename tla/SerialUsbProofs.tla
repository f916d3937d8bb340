--------------------------- MODULE SerialUsbProofs ---------------------------
(***************************************************************************)
(* Safety of the serial-over-USB driver for every number and size of       *)
(* buffers, every read and write length and every behaviour of the bus.    *)
(*                                                                         *)
(* The first two parts are what the operations on a buffers queue          *)
(* preserve: each lemma is about one function of hal_buffers.c, called in  *)
(* the states its assertions ask for, first about indices and counters,    *)
(* then about the bytes in a ring of buffers.  The third part shows that   *)
(* IInv is inductive and that the properties follow from it.  The last     *)
(* maps every step of the driver to a step of ByteChannel.                 *)
(***************************************************************************)
EXTENDS SerialUsb, SequenceTheorems, WellFoundedInduction, TLAPS

(* The fields of a queue have their types.                                 *)
LEMMA QueueFields ==
  ASSUME NEW q \in Queues(Nat)
  PROVE  /\ q.bcounter \in 0..BuffersNumber
         /\ q.brdptr \in Slots
         /\ q.bwrptr \in Slots
         /\ q.ptr \in NoPtr..BuffersSize
         /\ q.buffers \in [Slots -> Seq(Nat)]
         /\ q.suspended \in BOOLEAN
BY DEF Queues

(* The next index is an index.                                             *)
LEMMA AdvanceType == \A i \in Slots : Advance(i) \in Slots
BY BuffersAssumption DEF Advance, Slots

(* One more step around the ring, and one step less from the next buffer.  *)
LEMMA AheadAdvance ==
  /\ \A i \in Slots : \A n \in 0..(BuffersNumber - 1) : Advance(Ahead(i, n)) = Ahead(i, n + 1)
  /\ \A i \in Slots : \A n \in 1..BuffersNumber : Ahead(Advance(i), n - 1) = Ahead(i, n)
<1>1. ASSUME NEW i \in Slots, NEW n \in 0..(BuffersNumber - 1)
      PROVE  Advance(Ahead(i, n)) = Ahead(i, n + 1)
  BY BuffersAssumption DEF Advance, Ahead, Slots
<1>2. ASSUME NEW i \in Slots, NEW n \in 1..BuffersNumber
      PROVE  Ahead(Advance(i), n - 1) = Ahead(i, n)
  BY BuffersAssumption DEF Advance, Ahead, Slots
<1> QED
  BY <1>1, <1>2

(* Only no step, or all the way around, leads back to the same buffer.     *)
LEMMA AheadSame ==
  ASSUME NEW i \in Slots, NEW n \in 0..BuffersNumber
  PROVE  Ahead(i, n) = i <=> n = 0 \/ n = BuffersNumber
BY BuffersAssumption DEF Ahead, Slots

(* bqSuspendI and bqResumeX touch nothing but the suspended flag.          *)
LEMMA FlagLemma ==
  ASSUME NEW q \in Queues(Nat), NEW p \in {BqSuspend(q), BqResume(q)}
  PROVE  /\ p \in Queues(Nat)
         /\ p.bcounter = q.bcounter /\ p.brdptr = q.brdptr /\ p.bwrptr = q.bwrptr
         /\ p.ptr = q.ptr /\ p.buffers = q.buffers
BY DEF BqSuspend, BqResume, Queues

(* So they keep both kinds of queue consistent.                            *)
LEMMA FlagKeeps ==
  ASSUME NEW q \in Queues(Nat), NEW p \in {BqSuspend(q), BqResume(q)}
  PROVE  /\ IbqConsistent(q) => IbqConsistent(p)
         /\ ObqConsistent(q) => ObqConsistent(p)
BY FlagLemma DEF IbqConsistent, ObqConsistent, Ring

(* A queue that was initialized or reset is consistent.                    *)
LEMMA IbqResetLemma ==
  ASSUME NEW q \in Queues(Nat), \A i \in Slots : Len(q.buffers[i]) <= BuffersSize
  PROVE  LET p == IbqReset(q)
         IN  /\ p \in Queues(Nat)
             /\ IbqConsistent(p)
             /\ p.bcounter = 0 /\ p.bwrptr = 0
<1> DEFINE p == IbqReset(q)
<1>1. /\ p.bcounter = 0 /\ p.brdptr = 0 /\ p.bwrptr = 0 /\ p.ptr = NoPtr
      /\ p.buffers = q.buffers
  BY DEF IbqReset, Queues
<1>2. 0 \in Slots /\ 0 \in 0..BuffersNumber /\ NoPtr \in NoPtr..BuffersSize
  BY BuffersAssumption DEF Slots, NoPtr
<1>3. p \in Queues(Nat)
  BY <1>2 DEF IbqReset, Queues
<1>4. IbqConsistent(p)
  <2> HIDE DEF p
  <2> QED
    BY <1>1, BuffersAssumption DEF IbqConsistent, Ring, Ahead
<1> QED
  BY <1>1, <1>3, <1>4

(* The same for an output queue: all its buffers are empty again.          *)
LEMMA ObqResetLemma ==
  ASSUME NEW q \in Queues(Nat), \A i \in Slots : Len(q.buffers[i]) <= BuffersSize
  PROVE  LET p == ObqReset(q)
         IN  /\ p \in Queues(Nat)
             /\ ObqConsistent(p)
<1> DEFINE p == ObqReset(q)
<1>1. /\ p.bcounter = BuffersNumber /\ p.brdptr = 0 /\ p.bwrptr = 0 /\ p.ptr = NoPtr
      /\ p.buffers = q.buffers
  BY DEF ObqReset, Queues
<1>2. /\ 0 \in Slots /\ BuffersNumber \in 0..BuffersNumber
      /\ NoPtr \in NoPtr..BuffersSize
  BY BuffersAssumption DEF Slots, NoPtr
<1>3. p \in Queues(Nat)
  BY <1>2 DEF ObqReset, Queues
<1>4. ObqConsistent(p)
  <2> HIDE DEF p
  <2> QED
    BY <1>1, BuffersAssumption DEF ObqConsistent, Ring, Ahead
<1> QED
  BY <1>3, <1>4

(* The two initial queues are consistent.                                  *)
LEMMA InitLemma ==
  /\ IbqObjectInit \in Queues(Nat) /\ IbqConsistent(IbqObjectInit)
  /\ ObqObjectInit \in Queues(Nat) /\ ObqConsistent(ObqObjectInit)
<1>1. /\ 0 \in Slots /\ BuffersNumber \in 0..BuffersNumber /\ 0 \in 0..BuffersNumber
      /\ NoPtr \in NoPtr..BuffersSize
  BY BuffersAssumption DEF Slots, NoPtr
<1>2. << >> \in Seq(Nat) /\ Len(<< >>) = 0
  OBVIOUS
<1>3. IbqObjectInit \in Queues(Nat) /\ ObqObjectInit \in Queues(Nat)
  BY <1>1, <1>2 DEF IbqObjectInit, ObqObjectInit, Queues
<1>4. IbqConsistent(IbqObjectInit)
  BY <1>2, BuffersAssumption DEF IbqConsistent, IbqObjectInit, Ring, Ahead
<1>5. ObqConsistent(ObqObjectInit)
  BY <1>2, BuffersAssumption DEF ObqConsistent, ObqObjectInit, Ring, Ahead
<1> QED
  BY <1>3, <1>4, <1>5

-----------------------------------------------------------------------------
(* A transfer ends in the next empty buffer of a queue that is not full,   *)
(* and ibqPostFullBufferI posts it: the thread's buffer is not disturbed.  *)
LEMMA IbqPostLemma ==
  ASSUME NEW q \in Queues(Nat), IbqConsistent(q), ~IbqIsFull(q),
         NEW d \in Seq(Nat), Len(d) <= BuffersSize
  PROVE  LET p == IbqPostFullBuffer([q EXCEPT !.buffers[q.bwrptr] = d])
         IN  p \in Queues(Nat) /\ IbqConsistent(p)
<1> DEFINE f == [q EXCEPT !.buffers[q.bwrptr] = d]
           p == IbqPostFullBuffer(f)
<1>1. /\ q.bcounter \in 0..BuffersNumber /\ q.brdptr \in Slots /\ q.bwrptr \in Slots
      /\ q.buffers \in [Slots -> Seq(Nat)] /\ q.ptr \in NoPtr..BuffersSize
  BY QueueFields
<1>2. f \in Queues(Nat)
  <2>1. [q.buffers EXCEPT ![q.bwrptr] = d] \in [Slots -> Seq(Nat)]
    BY <1>1
  <2> QED
    BY <2>1 DEF Queues
<1>3. /\ f.bcounter = q.bcounter /\ f.brdptr = q.brdptr /\ f.bwrptr = q.bwrptr
      /\ f.ptr = q.ptr /\ f.buffers = [q.buffers EXCEPT ![q.bwrptr] = d]
  BY DEF Queues
<1>ring. Ring(q, q.bcounter)
  BY DEF IbqConsistent
<1>4. q.bcounter + 1 \in 0..BuffersNumber
  <2>1. q.bcounter # BuffersNumber
    BY <1>1, <1>ring, AheadSame, BuffersAssumption DEF Ring, IbqIsFull
  <2> QED
    BY <2>1, <1>1, BuffersAssumption
<1> HIDE DEF f
<1>5. /\ p.bcounter = q.bcounter + 1 /\ p.brdptr = q.brdptr
      /\ p.bwrptr = Advance(q.bwrptr) /\ p.ptr = q.ptr /\ p.buffers = f.buffers
  BY <1>2, <1>3 DEF IbqPostFullBuffer, Queues
<1>6. p \in Queues(Nat)
  <2>1. Advance(f.bwrptr) \in Slots /\ f.bcounter + 1 \in 0..BuffersNumber
    BY <1>1, <1>3, <1>4, AdvanceType
  <2> QED
    BY <1>2, <2>1 DEF IbqPostFullBuffer, Queues
<1> HIDE DEF p
<1>7. Ring(p, p.bcounter)
  <2>1. q.bcounter \in 0..(BuffersNumber - 1)
    BY <1>1, <1>4, BuffersAssumption
  <2> QED
    BY <2>1, <1>1, <1>ring, <1>5, AheadAdvance DEF Ring
<1>8. \A i \in Slots : Len(p.buffers[i]) <= BuffersSize
  BY <1>1, <1>3, <1>5 DEF IbqConsistent
<1>9. ASSUME p.ptr # NoPtr
      PROVE  p.bcounter > 0 /\ p.ptr <= Len(p.buffers[p.brdptr])
  <2>1. q.bcounter > 0 /\ q.bwrptr # q.brdptr
    BY <1>1, <1>5, <1>9 DEF IbqConsistent, IbqIsFull
  <2>2. p.buffers[p.brdptr] = q.buffers[q.brdptr]
    BY <2>1, <1>1, <1>3, <1>5
  <2> QED
    BY <2>1, <2>2, <1>1, <1>5, <1>9 DEF IbqConsistent
<1>10. IbqConsistent(p)
  BY <1>7, <1>8, <1>9 DEF IbqConsistent
<1> QED
  BY <1>6, <1>10 DEF p, f

(* ibqReleaseEmptyBufferS on a queue that is not empty leaves a free buffer.*)
LEMMA IbqReleaseLemma ==
  ASSUME NEW q \in Queues(Nat), IbqConsistent(q), ~IbqIsEmpty(q)
  PROVE  LET p == IbqReleaseEmptyBuffer(q)
         IN  /\ p \in Queues(Nat)
             /\ IbqConsistent(p)
             /\ p.bwrptr = q.bwrptr
             /\ ~IbqIsFull(p)
<1> DEFINE p == IbqReleaseEmptyBuffer(q)
<1>1. q.bcounter \in 1..BuffersNumber /\ q.brdptr \in Slots /\ q.bwrptr \in Slots
  BY BuffersAssumption DEF Queues, IbqIsEmpty
<1>2. NoPtr \in NoPtr..BuffersSize
  BY BuffersAssumption DEF NoPtr
<1>3. /\ p.bcounter = q.bcounter - 1 /\ p.brdptr = Advance(q.brdptr)
      /\ p.bwrptr = q.bwrptr /\ p.ptr = NoPtr /\ p.buffers = q.buffers
  BY DEF IbqReleaseEmptyBuffer, Queues
<1>4. q.bcounter - 1 \in 0..BuffersNumber
  BY <1>1, BuffersAssumption
<1>5. p \in Queues(Nat)
  BY <1>1, <1>2, <1>4, AdvanceType DEF IbqReleaseEmptyBuffer, Queues
<1> HIDE DEF p
<1>ring. Ring(q, q.bcounter)
  BY DEF IbqConsistent
<1>6. Ring(p, p.bcounter) /\ ~IbqIsFull(p)
  <2>1. Ring(p, p.bcounter)
    BY <1>1, <1>ring, <1>3, AheadAdvance DEF Ring
  <2>2. p.brdptr \in Slots /\ p.bcounter \in 0..BuffersNumber /\ p.bcounter # BuffersNumber
    BY <1>1, <1>3, <1>4, AdvanceType
  <2> QED
    BY <2>1, <2>2, AheadSame DEF Ring, IbqIsFull
<1>7. IbqConsistent(p)
  BY <1>3, <1>6 DEF IbqConsistent
<1> QED
  BY <1>3, <1>5, <1>6, <1>7 DEF p

(* The thread's current input buffer is a full one.                        *)
LEMMA IbqCurrentLemma ==
  ASSUME NEW q \in Queues(Nat), IbqConsistent(q), ~(q.ptr = NoPtr /\ IbqIsEmpty(q))
  PROVE  LET c == IbqCurrent(q)
         IN  /\ c \in Queues(Nat)
             /\ IbqConsistent(c)
             /\ c.ptr \in Nat
             /\ ~IbqIsEmpty(c)
             /\ c.bcounter = q.bcounter /\ c.brdptr = q.brdptr /\ c.bwrptr = q.bwrptr
             /\ c.buffers = q.buffers
<1> DEFINE c == IbqCurrent(q)
<1>1. /\ q.bcounter \in 0..BuffersNumber /\ q.ptr \in NoPtr..BuffersSize
      /\ q.buffers \in [Slots -> Seq(Nat)] /\ q.brdptr \in Slots
  BY QueueFields
<1>2. CASE q.ptr = NoPtr
  <2>1. 0 \in NoPtr..BuffersSize
    BY BuffersAssumption DEF NoPtr
  <2>2. /\ c.bcounter = q.bcounter /\ c.brdptr = q.brdptr /\ c.bwrptr = q.bwrptr
        /\ c.buffers = q.buffers /\ c.ptr = 0
    BY <1>2 DEF IbqCurrent, Queues
  <2>3. c \in Queues(Nat)
    BY <1>2, <2>1 DEF IbqCurrent, Queues
  <2>4. q.bcounter > 0 /\ ~IbqIsEmpty(q)
    BY <1>1, <1>2 DEF IbqIsEmpty
  <2>5. 0 <= Len(q.buffers[q.brdptr])
    BY <1>1, LenProperties
  <2> HIDE DEF c
  <2>6. IbqConsistent(c)
    BY <2>2, <2>4, <2>5 DEF IbqConsistent, Ring
  <2> QED
    BY <2>2, <2>3, <2>4, <2>6 DEF IbqIsEmpty, c
<1>3. CASE q.ptr # NoPtr
  BY <1>1, <1>3, BuffersAssumption DEF IbqCurrent, NoPtr, IbqConsistent, IbqIsEmpty
<1> QED
  BY <1>2, <1>3

(* Copying n bytes moves on in the current input buffer.                   *)
LEMMA IbqMoveLemma ==
  ASSUME NEW q \in Queues(Nat), IbqConsistent(q), q.ptr \in Nat,
         NEW n \in Nat, q.ptr + n <= Len(q.buffers[q.brdptr])
  PROVE  LET m == [q EXCEPT !.ptr = @ + n]
         IN  /\ m \in Queues(Nat)
             /\ IbqConsistent(m)
             /\ ~IbqIsEmpty(m)
             /\ m.bcounter = q.bcounter /\ m.bwrptr = q.bwrptr /\ m.brdptr = q.brdptr
<1> DEFINE m == [q EXCEPT !.ptr = @ + n]
<1>1. /\ q.bcounter \in 0..BuffersNumber /\ q.brdptr \in Slots
      /\ q.buffers \in [Slots -> Seq(Nat)]
  BY QueueFields
<1>2. q.ptr # NoPtr
  BY DEF NoPtr
<1>3. q.bcounter > 0 /\ Len(q.buffers[q.brdptr]) <= BuffersSize
  BY <1>1, <1>2 DEF IbqConsistent
<1>4. q.ptr + n \in NoPtr..BuffersSize
  BY <1>1, <1>3, BuffersAssumption, LenProperties DEF NoPtr
<1>5. /\ m.bcounter = q.bcounter /\ m.brdptr = q.brdptr /\ m.bwrptr = q.bwrptr
      /\ m.buffers = q.buffers /\ m.ptr = q.ptr + n
  BY DEF Queues
<1>6. m \in Queues(Nat)
  BY <1>4 DEF Queues
<1> HIDE DEF m
<1>7. IbqConsistent(m)
  BY <1>3, <1>5 DEF IbqConsistent, Ring
<1> QED
  BY <1>1, <1>3, <1>5, <1>6, <1>7 DEF IbqIsEmpty, m

-----------------------------------------------------------------------------
(* obqPostFullBufferS and the posting in obqTryFlushI, of a current buffer. *)
LEMMA ObqPostLemma ==
  ASSUME NEW q \in Queues(Nat), ObqConsistent(q), ~ObqIsFull(q)
  PROVE  LET p == ObqPostFullBuffer(q)
         IN  /\ p \in Queues(Nat)
             /\ ObqConsistent(p)
             /\ p.brdptr = q.brdptr
             /\ p.ptr = NoPtr
             /\ p.buffers = q.buffers
             /\ ~ObqIsEmpty(p)
<1> DEFINE p == ObqPostFullBuffer(q)
<1>1. q.bcounter \in 1..BuffersNumber /\ q.brdptr \in Slots /\ q.bwrptr \in Slots
  BY BuffersAssumption DEF Queues, ObqIsFull
<1>2. NoPtr \in NoPtr..BuffersSize
  BY BuffersAssumption DEF NoPtr
<1>3. /\ p.bcounter = q.bcounter - 1 /\ p.brdptr = q.brdptr
      /\ p.bwrptr = Advance(q.bwrptr) /\ p.ptr = NoPtr /\ p.buffers = q.buffers
  BY DEF ObqPostFullBuffer, Queues
<1>4. q.bcounter - 1 \in 0..BuffersNumber
  BY <1>1, BuffersAssumption
<1>5. p \in Queues(Nat)
  BY <1>1, <1>2, <1>4, AdvanceType DEF ObqPostFullBuffer, Queues
<1> HIDE DEF p
<1>ring. Ring(q, BuffersNumber - q.bcounter)
  BY DEF ObqConsistent
<1>6. Ring(p, BuffersNumber - p.bcounter) /\ ~ObqIsEmpty(p)
  <2> DEFINE n == BuffersNumber - q.bcounter
  <2>1. /\ n \in 0..(BuffersNumber - 1)
        /\ BuffersNumber - p.bcounter = n + 1
        /\ n + 1 \in 0..BuffersNumber
    BY <1>1, <1>3, BuffersAssumption
  <2> HIDE DEF n
  <2>2. Ring(p, n + 1)
    BY <2>1, <1>1, <1>ring, <1>3, AheadAdvance DEF Ring, n
  <2>3. ASSUME p.bwrptr = p.brdptr PROVE p.bcounter = 0
    <3>1. n + 1 = 0 \/ n + 1 = BuffersNumber
      BY <2>1, <2>2, <2>3, <1>1, <1>3, AheadSame DEF Ring
    <3> QED
      BY <3>1, <2>1, <1>1, <1>3, BuffersAssumption
  <2> QED
    BY <2>1, <2>2, <2>3 DEF ObqIsEmpty
<1>7. ObqConsistent(p)
  BY <1>3, <1>6 DEF ObqConsistent
<1> QED
  BY <1>3, <1>5, <1>6, <1>7 DEF p

(* obqReleaseEmptyBufferI on a queue that is not empty.                    *)
LEMMA ObqReleaseLemma ==
  ASSUME NEW q \in Queues(Nat), ObqConsistent(q), ~ObqIsEmpty(q)
  PROVE  LET p == ObqReleaseEmptyBuffer(q)
         IN  /\ p \in Queues(Nat)
             /\ ObqConsistent(p)
             /\ p.bwrptr = q.bwrptr
             /\ p.bcounter = q.bcounter + 1
             /\ p.ptr = q.ptr
             /\ p.buffers = q.buffers
<1> DEFINE p == ObqReleaseEmptyBuffer(q)
<1>1. /\ q.bcounter \in 0..BuffersNumber /\ q.brdptr \in Slots /\ q.bwrptr \in Slots
      /\ q.ptr \in NoPtr..BuffersSize
  BY DEF Queues
<1>ring. Ring(q, BuffersNumber - q.bcounter)
  BY DEF ObqConsistent
<1> DEFINE n == BuffersNumber - q.bcounter
<1>n. n \in 0..BuffersNumber
  BY <1>1, BuffersAssumption
<1>2. q.bcounter + 1 \in 0..BuffersNumber /\ n \in 1..BuffersNumber
  <2>1. q.bcounter # BuffersNumber
    <3> SUFFICES ASSUME q.bcounter = BuffersNumber PROVE FALSE
      OBVIOUS
    <3>1. n = 0 /\ q.bcounter # 0
      BY BuffersAssumption
    <3> QED
      BY <3>1, <1>1, <1>n, <1>ring, AheadSame DEF Ring, ObqIsEmpty
  <2> QED
    BY <2>1, <1>1, BuffersAssumption
<1>3. /\ p.bcounter = q.bcounter + 1 /\ p.brdptr = Advance(q.brdptr)
      /\ p.bwrptr = q.bwrptr /\ p.ptr = q.ptr /\ p.buffers = q.buffers
  BY DEF ObqReleaseEmptyBuffer, Queues
<1>4. p \in Queues(Nat)
  BY <1>1, <1>2, AdvanceType DEF ObqReleaseEmptyBuffer, Queues
<1> HIDE DEF p
<1>5. Ring(p, BuffersNumber - p.bcounter)
  <2>1. BuffersNumber - p.bcounter = n - 1
    BY <1>1, <1>3, BuffersAssumption
  <2> HIDE DEF n
  <2>2. Ring(p, n - 1)
    BY <1>1, <1>2, <1>3, <1>ring, AheadAdvance DEF Ring, n
  <2> QED
    BY <2>1, <2>2
<1>6. p.ptr # NoPtr => p.bcounter > 0 /\ p.ptr = Len(p.buffers[p.bwrptr])
  BY <1>1, <1>3 DEF ObqConsistent
<1>7. ObqConsistent(p)
  <2>1. \A i \in Slots : Len(p.buffers[i]) <= BuffersSize
    BY <1>3 DEF ObqConsistent
  <2> QED
    BY <2>1, <1>5, <1>6 DEF ObqConsistent
<1> QED
  BY <1>3, <1>4, <1>7 DEF p

(* The thread's current output buffer is an empty one; the full ones, which *)
(* the endpoint may be sending, stay as they are.                          *)
LEMMA ObqCurrentLemma ==
  ASSUME NEW q \in Queues(Nat), ObqConsistent(q), ~(q.ptr = NoPtr /\ ObqIsFull(q))
  PROVE  LET c == ObqCurrent(q)
         IN  /\ c \in Queues(Nat)
             /\ ObqConsistent(c)
             /\ c.ptr \in Nat /\ c.ptr <= BuffersSize
             /\ ~ObqIsFull(c)
             /\ c.bcounter = q.bcounter /\ c.brdptr = q.brdptr /\ c.bwrptr = q.bwrptr
             /\ \A i \in Slots : i # q.bwrptr => c.buffers[i] = q.buffers[i]
<1> DEFINE c == ObqCurrent(q)
<1>1. /\ q.bcounter \in 0..BuffersNumber /\ q.ptr \in NoPtr..BuffersSize
      /\ q.buffers \in [Slots -> Seq(Nat)] /\ q.bwrptr \in Slots
  BY QueueFields
<1>2. CASE q.ptr = NoPtr
  <2>1. 0 \in NoPtr..BuffersSize /\ 0 <= BuffersSize
    BY BuffersAssumption DEF NoPtr
  <2>2. << >> \in Seq(Nat) /\ Len(<< >>) = 0
    OBVIOUS
  <2>3. [q.buffers EXCEPT ![q.bwrptr] = << >>] \in [Slots -> Seq(Nat)]
    BY <1>1, <2>2
  <2>4. /\ c.bcounter = q.bcounter /\ c.brdptr = q.brdptr /\ c.bwrptr = q.bwrptr
        /\ c.buffers = [q.buffers EXCEPT ![q.bwrptr] = << >>] /\ c.ptr = 0
    BY <1>2 DEF ObqCurrent, Queues
  <2>5. c \in Queues(Nat)
    BY <1>2, <2>1, <2>3 DEF ObqCurrent, Queues
  <2>6. q.bcounter > 0 /\ ~ObqIsFull(q)
    BY <1>1, <1>2 DEF ObqIsFull
  <2> HIDE DEF c
  <2>7. c.buffers[c.bwrptr] = << >>
    BY <1>1, <2>4
  <2>8. \A i \in Slots : i # q.bwrptr => c.buffers[i] = q.buffers[i]
    BY <1>1, <2>4
  <2>9. \A i \in Slots : Len(c.buffers[i]) <= BuffersSize
    BY <2>2, <2>4, <2>7, <2>8, BuffersAssumption DEF ObqConsistent
  <2>10. Ring(c, BuffersNumber - c.bcounter)
    BY <2>4 DEF ObqConsistent, Ring
  <2>11. ObqConsistent(c)
    BY <2>2, <2>4, <2>6, <2>7, <2>9, <2>10 DEF ObqConsistent
  <2> QED
    BY <2>1, <2>4, <2>5, <2>6, <2>8, <2>11 DEF ObqIsFull, c
<1>3. CASE q.ptr # NoPtr
  BY <1>1, <1>3, BuffersAssumption DEF ObqCurrent, NoPtr, ObqConsistent, ObqIsFull
<1> QED
  BY <1>2, <1>3

(* Copying bytes extends the current output buffer and no other one.       *)
LEMMA ObqCopyLemma ==
  ASSUME NEW q \in Queues(Nat), ObqConsistent(q), q.ptr \in Nat,
         NEW d \in Seq(Nat), q.ptr + Len(d) <= BuffersSize
  PROVE  LET m == ObqCopy(q, d)
         IN  /\ m \in Queues(Nat)
             /\ ObqConsistent(m)
             /\ ~ObqIsFull(m)
             /\ m.ptr = q.ptr + Len(d)
             /\ m.bcounter = q.bcounter /\ m.bwrptr = q.bwrptr /\ m.brdptr = q.brdptr
             /\ \A i \in Slots : i # q.bwrptr => m.buffers[i] = q.buffers[i]
<1> DEFINE m == ObqCopy(q, d)
           n == Len(d)
           b == q.buffers[q.bwrptr] \o d
<1>1. /\ q.bcounter \in 0..BuffersNumber /\ q.bwrptr \in Slots
      /\ q.buffers \in [Slots -> Seq(Nat)]
  BY QueueFields
<1>2. q.ptr # NoPtr
  BY DEF NoPtr
<1>3. q.bcounter > 0 /\ q.ptr = Len(q.buffers[q.bwrptr])
  BY <1>1, <1>2 DEF ObqConsistent
<1>4. b \in Seq(Nat) /\ Len(b) = q.ptr + n
  <2>1. q.buffers[q.bwrptr] \in Seq(Nat)
    BY <1>1
  <2>2. b \in Seq(Nat) /\ Len(b) = Len(q.buffers[q.bwrptr]) + Len(d)
    BY <2>1, ConcatProperties
  <2> QED
    BY <2>2, <1>3
<1>5. n \in Nat /\ q.ptr + n \in NoPtr..BuffersSize
  BY BuffersAssumption, LenProperties DEF NoPtr
<1>6. /\ m.bcounter = q.bcounter /\ m.brdptr = q.brdptr /\ m.bwrptr = q.bwrptr
      /\ m.buffers = [q.buffers EXCEPT ![q.bwrptr] = b] /\ m.ptr = q.ptr + n
  BY <1>1 DEF ObqCopy, Queues
<1> HIDE DEF b
<1>7. [q.buffers EXCEPT ![q.bwrptr] = b] \in [Slots -> Seq(Nat)]
  BY <1>1, <1>4
<1>8. m \in Queues(Nat)
  BY <1>1, <1>5, <1>7 DEF ObqCopy, Queues, b
<1> HIDE DEF m
<1>9. m.buffers[m.bwrptr] = b /\ \A i \in Slots : i # q.bwrptr => m.buffers[i] = q.buffers[i]
  BY <1>1, <1>6
<1>10. \A i \in Slots : Len(m.buffers[i]) <= BuffersSize
  BY <1>4, <1>6, <1>9, BuffersAssumption DEF ObqConsistent
<1>11. Ring(m, BuffersNumber - m.bcounter)
  BY <1>6 DEF ObqConsistent, Ring
<1>12. ObqConsistent(m)
  BY <1>3, <1>4, <1>6, <1>9, <1>10, <1>11 DEF ObqConsistent
<1> QED
  BY <1>1, <1>3, <1>6, <1>8, <1>9, <1>12 DEF ObqIsFull, m

-----------------------------------------------------------------------------
(* Induction up to a bound, for a set of numbers.                          *)
LEMMA UpTo ==
  ASSUME NEW N \in Nat, NEW T, 0 \in T,
         \A n \in 0..(N - 1) : n \in T => n + 1 \in T
  PROVE  \A n \in 0..N : n \in T
<1> DEFINE U == {n \in 0..N : n \notin T}
<1> SUFFICES ASSUME U # {} PROVE FALSE
  OBVIOUS
<1>1. U \in SUBSET Nat
  OBVIOUS
<1>2. PICK n \in U : \A m \in U : ~(<<m, n>> \in OpToRel(<, Nat))
  BY <1>1, NatLessThanWellFounded, WFMin, Zenon
<1>3. \A m \in U : ~(m < n)
  BY <1>1, <1>2 DEF OpToRel
<1>4. n \in 0..N /\ n \notin T /\ n # 0
  BY <1>2
<1>5. n - 1 \in 0..(N - 1) /\ n - 1 \in 0..N /\ n - 1 < n /\ (n - 1) + 1 = n
  BY <1>4
<1>6. n - 1 \in T
  BY <1>3, <1>5
<1> QED
  BY <1>4, <1>5, <1>6

(* Going ahead around the ring ends at a buffer of it.                     *)
LEMMA AheadType ==
  /\ \A i \in Slots : \A n \in 0..BuffersNumber : Ahead(i, n) \in Slots
  /\ \A i \in Slots : Ahead(i, 0) = i
BY BuffersAssumption DEF Ahead, Slots

-----------------------------------------------------------------------------
(* The bytes in a ring of buffers.                                         *)

Rings == [Slots -> Seq(Nat)]

(* cat[k] is what the first k buffers hold.                                *)
Concatenates(cat, b, i, n) ==
  /\ cat \in [0..n -> Seq(Nat)]
  /\ cat[0] = << >>
  /\ \A k \in 1..n : cat[k] = cat[k - 1] \o b[Ahead(i, k - 1)]

(* Concatenation of sequences of bytes.                                    *)
LEMMA Joined ==
  /\ \A s, t \in Seq(Nat) : s \o t \in Seq(Nat) /\ Len(s \o t) = Len(s) + Len(t)
  /\ \A s, t, u \in Seq(Nat) : (s \o t) \o u = s \o (t \o u)
  /\ \A s \in Seq(Nat) : s \o << >> = s /\ << >> \o s = s /\ Len(s) \in Nat
<1>1. ASSUME NEW s \in Seq(Nat), NEW t \in Seq(Nat)
      PROVE  s \o t \in Seq(Nat) /\ Len(s \o t) = Len(s) + Len(t)
  BY ConcatProperties
<1>2. \A s, t, u \in Seq(Nat) : (s \o t) \o u = s \o (t \o u)
  BY ConcatAssociative
<1>3. ASSUME NEW s \in Seq(Nat)
      PROVE  s \o << >> = s /\ << >> \o s = s /\ Len(s) \in Nat
  BY ConcatEmptySeq, LenProperties
<1> QED
  BY <1>1, <1>2, <1>3

(* There is such a function, by induction on the number of buffers ...     *)
LEMMA ConcatenationExists ==
  ASSUME NEW b \in Rings, NEW i \in Slots
  PROVE  \A n \in 0..BuffersNumber : \E cat : Concatenates(cat, b, i, n)
<1> DEFINE T == {n \in 0..BuffersNumber : \E cat : Concatenates(cat, b, i, n)}
<1>1. BuffersNumber \in Nat
  BY BuffersAssumption
<1>2. 0 \in T
  <2> DEFINE c == [k \in 0..0 |-> << >>]
  <2>1. << >> \in Seq(Nat)
    OBVIOUS
  <2>2. Concatenates(c, b, i, 0)
    BY <2>1 DEF Concatenates
  <2> QED
    BY <2>2, <1>1
<1>3. ASSUME NEW n \in 0..(BuffersNumber - 1), n \in T
      PROVE  n + 1 \in T
  <2>1. PICK cat : Concatenates(cat, b, i, n)
    BY <1>3
  <2> DEFINE e == cat[n] \o b[Ahead(i, n)]
             c == [k \in 0..(n + 1) |-> IF k = n + 1 THEN e ELSE cat[k]]
  <2>2. n \in 0..n /\ n \in 0..BuffersNumber /\ n + 1 \in 0..BuffersNumber /\ n \in Nat
    BY <1>1
  <2>3. e \in Seq(Nat)
    <3>1. cat[n] \in Seq(Nat)
      BY <2>1, <2>2 DEF Concatenates
    <3>2. b[Ahead(i, n)] \in Seq(Nat)
      BY <2>2, AheadType DEF Rings
    <3> QED
      BY <3>1, <3>2, ConcatProperties, Zenon
  <2> HIDE DEF e
  <2>4. \A k \in 0..n : c[k] = cat[k]
    BY <2>2
  <2>5. c[n + 1] = e
    BY <2>2
  <2>6. c \in [0..(n + 1) -> Seq(Nat)]
    BY <2>1, <2>2, <2>3 DEF Concatenates
  <2> HIDE DEF c
  <2>7. c[0] = << >>
    BY <2>1, <2>2, <2>4 DEF Concatenates
  <2>8. ASSUME NEW k \in 1..(n + 1)
        PROVE  c[k] = c[k - 1] \o b[Ahead(i, k - 1)]
    <3>1. CASE k = n + 1
      <4>1. k - 1 = n
        BY <2>2, <3>1
      <4> QED
        BY <4>1, <3>1, <2>2, <2>4, <2>5 DEF e
    <3>2. CASE k # n + 1
      <4>1. k \in 1..n /\ k \in 0..n /\ k - 1 \in 0..n
        BY <2>2, <3>2
      <4> QED
        BY <4>1, <2>1, <2>4 DEF Concatenates
    <3> QED
      BY <3>1, <3>2
  <2>9. Concatenates(c, b, i, n + 1)
    BY <2>6, <2>7, <2>8, Zenon DEF Concatenates
  <2> QED
    BY <2>2, <2>9
<1>4. \A n \in 0..BuffersNumber : n \in T
  <2> HIDE DEF T
  <2> QED
    BY <1>1, <1>2, <1>3, UpTo
<1> QED
  BY <1>4

(* ... and only one: two of them agree as far as both go.                  *)
LEMMA ConcatenationUnique ==
  ASSUME NEW b, NEW i, NEW m \in Nat, NEW n \in Nat, NEW c, NEW d,
         Concatenates(c, b, i, m), Concatenates(d, b, i, n)
  PROVE  \A k \in 0..Min2(m, n) : c[k] = d[k]
<1> DEFINE N == Min2(m, n)
           T == {k \in 0..N : c[k] = d[k]}
<1>1. N \in Nat /\ N <= m /\ N <= n
  BY DEF Min2
<1> HIDE DEF N
<1>2. 0 \in T
  BY <1>1 DEF Concatenates
<1>3. ASSUME NEW k \in 0..(N - 1), k \in T
      PROVE  k + 1 \in T
  <2>1. k + 1 \in 1..m /\ k + 1 \in 1..n /\ k + 1 \in 0..N /\ (k + 1) - 1 = k /\ c[k] = d[k]
    BY <1>1, <1>3
  <2>2. c[k + 1] = c[k] \o b[Ahead(i, k)] /\ d[k + 1] = d[k] \o b[Ahead(i, k)]
    BY <2>1 DEF Concatenates
  <2> QED
    BY <2>1, <2>2
<1>4. \A k \in 0..N : k \in T
  <2> HIDE DEF T
  <2> QED
    BY <1>1, <1>2, <1>3, UpTo
<1> QED
  BY <1>4 DEF N

(* So the recursion that defines Contents has a solution.                  *)
LEMMA ContentsDefined ==
  ASSUME NEW b \in Rings, NEW i \in Slots, NEW n \in 0..BuffersNumber
  PROVE  \E cat : Concatenates(cat, b, i, n) /\ Contents(b, i, n) = cat[n]
<1> DEFINE Step(c) == [k \in 0..n |-> IF k = 0 THEN << >> ELSE c[k - 1] \o b[Ahead(i, k - 1)]]
           cat == CHOOSE c : c = Step(c)
<1>1. Contents(b, i, n) = cat[n]
  BY DEF Contents
<1>2. PICK h : Concatenates(h, b, i, n)
  BY ConcatenationExists
<1>3. h = Step(h)
  <2>1. \A k \in 0..n : k = 0 \/ k \in 1..n
    BY BuffersAssumption
  <2>2. \A k \in 0..n : h[k] = IF k = 0 THEN << >> ELSE h[k - 1] \o b[Ahead(i, k - 1)]
    BY <1>2, <2>1 DEF Concatenates
  <2>3. h = [k \in 0..n |-> h[k]]
    BY <1>2 DEF Concatenates
  <2> QED
    BY <2>2, <2>3
<1>4. cat = Step(cat)
  BY <1>3, Zenon
<1> HIDE DEF cat
<1>5. \A k \in 0..n : cat[k] = IF k = 0 THEN << >> ELSE cat[k - 1] \o b[Ahead(i, k - 1)]
  BY <1>4
<1>6. DOMAIN cat = 0..n /\ cat = [k \in 0..n |-> cat[k]]
  BY <1>4
<1> HIDE DEF Step
<1> DEFINE T == {k \in 0..n : cat[k] \in Seq(Nat)}
<1>7. \A k \in 0..n : k \in T
  <2>1. n \in Nat /\ n <= BuffersNumber /\ BuffersNumber \in Nat
    BY BuffersAssumption
  <2>2. 0 \in T
    <3>1. 0 \in 0..n
      BY <2>1
    <3>2. cat[0] = << >>
      BY <1>5, <3>1
    <3>3. << >> \in Seq(Nat)
      OBVIOUS
    <3> QED
      BY <3>1, <3>2, <3>3
  <2>3. ASSUME NEW k \in 0..(n - 1), k \in T
        PROVE  k + 1 \in T
    <3>1. k + 1 \in 0..n /\ k + 1 # 0 /\ (k + 1) - 1 = k /\ k \in 0..BuffersNumber
      BY <2>1
    <3>2. cat[k + 1] = cat[k] \o b[Ahead(i, k)]
      BY <1>5, <3>1
    <3>3. cat[k] \in Seq(Nat) /\ b[Ahead(i, k)] \in Seq(Nat)
      BY <2>3, <3>1, AheadType DEF Rings
    <3>4. cat[k + 1] \in Seq(Nat)
      BY <3>2, <3>3, ConcatProperties
    <3> QED
      BY <3>1, <3>4
  <2> HIDE DEF T
  <2> QED
    BY <2>1, <2>2, <2>3, UpTo
<1>8. cat \in [0..n -> Seq(Nat)]
  BY <1>6, <1>7
<1>9. Concatenates(cat, b, i, n)
  <2>1. \A k \in 1..n : k \in 0..n /\ k # 0
    BY BuffersAssumption
  <2>2. 0 \in 0..n
    BY BuffersAssumption
  <2> QED
    BY <1>5, <1>8, <2>1, <2>2 DEF Concatenates
<1> QED
  BY <1>1, <1>9

(* Nothing is in no buffer, and one buffer more adds its bytes at the end. *)
LEMMA ContentsEquations ==
  ASSUME NEW b \in Rings, NEW i \in Slots
  PROVE  /\ Contents(b, i, 0) = << >>
         /\ \A n \in 0..BuffersNumber : Contents(b, i, n) \in Seq(Nat)
         /\ \A n \in 0..(BuffersNumber - 1) :
              Contents(b, i, n + 1) = Contents(b, i, n) \o b[Ahead(i, n)]
<1>1. BuffersNumber \in Nat /\ 0 \in 0..BuffersNumber
  BY BuffersAssumption
<1>2. Contents(b, i, 0) = << >>
  <2>1. PICK c : Concatenates(c, b, i, 0) /\ Contents(b, i, 0) = c[0]
    BY <1>1, ContentsDefined
  <2> QED
    BY <2>1, Zenon DEF Concatenates
<1>3. ASSUME NEW n \in 0..BuffersNumber PROVE Contents(b, i, n) \in Seq(Nat)
  <2>1. PICK c : Concatenates(c, b, i, n) /\ Contents(b, i, n) = c[n]
    BY ContentsDefined
  <2>2. n \in 0..n
    BY <1>1
  <2> QED
    BY <2>1, <2>2 DEF Concatenates
<1>4. ASSUME NEW n \in 0..(BuffersNumber - 1)
      PROVE  Contents(b, i, n + 1) = Contents(b, i, n) \o b[Ahead(i, n)]
  <2>1. /\ n \in Nat /\ n + 1 \in Nat /\ n \in 0..BuffersNumber /\ n + 1 \in 0..BuffersNumber
        /\ n + 1 \in 1..(n + 1) /\ (n + 1) - 1 = n /\ Min2(n + 1, n) = n /\ n \in 0..n
    BY <1>1 DEF Min2
  <2>2. PICK c : Concatenates(c, b, i, n) /\ Contents(b, i, n) = c[n]
    BY <2>1, ContentsDefined
  <2>3. PICK d : Concatenates(d, b, i, n + 1) /\ Contents(b, i, n + 1) = d[n + 1]
    BY <2>1, ContentsDefined
  <2>4. \A k \in 0..Min2(n + 1, n) : d[k] = c[k]
    BY <2>1, <2>2, <2>3, ConcatenationUnique
  <2>5. d[n] = c[n]
    BY <2>1, <2>4
  <2>6. d[n + 1] = d[n] \o b[Ahead(i, n)]
    BY <2>1, <2>3 DEF Concatenates
  <2> QED
    BY <2>2, <2>3, <2>5, <2>6
<1> QED
  BY <1>2, <1>3, <1>4

(* Only the buffers counted matter.                                        *)
LEMMA ContentsSame ==
  ASSUME NEW b \in Rings, NEW c \in Rings, NEW i \in Slots, NEW n \in 0..BuffersNumber,
         \A k \in 0..(n - 1) : b[Ahead(i, k)] = c[Ahead(i, k)]
  PROVE  Contents(b, i, n) = Contents(c, i, n)
<1> DEFINE T == {k \in 0..n : Contents(b, i, k) = Contents(c, i, k)}
<1>1. n \in Nat /\ n <= BuffersNumber /\ BuffersNumber \in Nat
  BY BuffersAssumption
<1>2. 0 \in T
  BY <1>1, ContentsEquations
<1>3. ASSUME NEW k \in 0..(n - 1), k \in T
      PROVE  k + 1 \in T
  <2>1. k + 1 \in 0..n /\ k \in 0..(BuffersNumber - 1)
    BY <1>1
  <2>2. /\ Contents(b, i, k + 1) = Contents(b, i, k) \o b[Ahead(i, k)]
        /\ Contents(c, i, k + 1) = Contents(c, i, k) \o c[Ahead(i, k)]
    BY <2>1, ContentsEquations
  <2>3. Contents(b, i, k) = Contents(c, i, k)
    BY <1>3
  <2>4. Contents(b, i, k + 1) = Contents(c, i, k + 1)
    BY <2>2, <2>3
  <2> QED
    BY <2>1, <2>4
<1>4. \A k \in 0..n : k \in T
  <2> HIDE DEF T
  <2> QED
    BY <1>1, <1>2, <1>3, UpTo
<1> QED
  BY <1>1, <1>4

(* The first buffer's bytes come first, then those of the others.          *)
LEMMA ContentsFirst ==
  ASSUME NEW b \in Rings, NEW i \in Slots
  PROVE  \A n \in 0..(BuffersNumber - 1) :
           Contents(b, i, n + 1) = b[i] \o Contents(b, Advance(i), n)
<1> DEFINE N == BuffersNumber - 1
           T == {n \in 0..N : Contents(b, i, n + 1) = b[i] \o Contents(b, Advance(i), n)}
<1>1. N \in Nat /\ 0 \in 0..N /\ BuffersNumber \in Nat
  BY BuffersAssumption
<1>2. Advance(i) \in Slots /\ b[i] \in Seq(Nat)
  BY AdvanceType DEF Rings
<1>3. 0 \in T
  <2>1. Contents(b, i, 0 + 1) = << >> \o b[i]
    BY <1>1, ContentsEquations, AheadType
  <2>2. Contents(b, Advance(i), 0) = << >>
    BY <1>2, ContentsEquations
  <2>3. << >> \o b[i] = b[i] /\ b[i] \o << >> = b[i]
    BY <1>2, ConcatEmptySeq
  <2> QED
    BY <1>1, <2>1, <2>2, <2>3
<1>4. ASSUME NEW n \in 0..(N - 1), n \in T
      PROVE  n + 1 \in T
  <2>1. /\ n + 1 \in 0..N /\ n \in 0..N /\ n \in 0..BuffersNumber
        /\ n + 1 \in 1..BuffersNumber /\ (n + 1) - 1 = n
    BY <1>1
  <2> DEFINE r == Contents(b, Advance(i), n)
             e == b[Ahead(i, n + 1)]
  <2>2. Contents(b, i, (n + 1) + 1) = Contents(b, i, n + 1) \o e
    BY <2>1, ContentsEquations
  <2>3. Contents(b, i, n + 1) = b[i] \o r
    BY <1>4
  <2>4. Ahead(Advance(i), n) = Ahead(i, n + 1)
    BY <2>1, AheadAdvance
  <2>5. Contents(b, Advance(i), n + 1) = r \o e
    BY <2>1, <2>4, <1>2, ContentsEquations
  <2>6. r \in Seq(Nat) /\ e \in Seq(Nat)
    <3>1. r \in Seq(Nat)
      BY <2>1, <1>2, ContentsEquations
    <3>2. n + 1 \in 0..BuffersNumber
      BY <2>1
    <3>3. e \in Seq(Nat)
      BY <3>2, AheadType DEF Rings
    <3> QED
      BY <3>1, <3>3
  <2> HIDE DEF r, e
  <2>7. (b[i] \o r) \o e = b[i] \o (r \o e)
    BY <1>2, <2>6, Joined, Zenon
  <2>8. Contents(b, i, (n + 1) + 1) = b[i] \o Contents(b, Advance(i), n + 1)
    BY <2>2, <2>3, <2>5, <2>7
  <2> QED
    BY <2>1, <2>8
<1>5. \A n \in 0..N : n \in T
  <2> HIDE DEF T, N
  <2> QED
    BY <1>1, <1>3, <1>4, UpTo
<1> QED
  BY <1>5

(* n buffers hold no more than n times what one can hold.                  *)
LEMMA ContentsBounded ==
  ASSUME NEW b \in Rings, NEW i \in Slots, \A j \in Slots : Len(b[j]) <= BuffersSize
  PROVE  \A n \in 0..BuffersNumber :
           /\ Len(Contents(b, i, n)) \in Nat
           /\ Len(Contents(b, i, n)) <= n * BuffersSize
<1> DEFINE T == {n \in 0..BuffersNumber : Len(Contents(b, i, n)) <= n * BuffersSize}
<1>1. BuffersNumber \in Nat /\ BuffersSize \in Nat
  BY BuffersAssumption
<1>2. 0 \in T
  <2>1. Len(Contents(b, i, 0)) = 0
    BY ContentsEquations
  <2>2. 0 * BuffersSize = 0
    BY <1>1
  <2> QED
    BY <1>1, <2>1, <2>2
<1>3. ASSUME NEW n \in 0..(BuffersNumber - 1), n \in T
      PROVE  n + 1 \in T
  <2> DEFINE r == Contents(b, i, n)
             e == b[Ahead(i, n)]
  <2>1. n \in 0..BuffersNumber /\ n + 1 \in 0..BuffersNumber /\ n \in Nat
    BY <1>1
  <2>2. r \in Seq(Nat) /\ Contents(b, i, n + 1) = r \o e
    BY <2>1, ContentsEquations
  <2>3. e \in Seq(Nat) /\ Len(e) <= BuffersSize
    BY <2>1, AheadType DEF Rings
  <2>4. Len(r) <= n * BuffersSize
    BY <1>3
  <2> HIDE DEF r, e
  <2>5. Len(r \o e) = Len(r) + Len(e) /\ Len(r) \in Nat /\ Len(e) \in Nat
    BY <2>2, <2>3, ConcatProperties, LenProperties
  <2>6. (n + 1) * BuffersSize = n * BuffersSize + BuffersSize /\ n * BuffersSize \in Nat
    BY <1>1, <2>1
  <2>7. Len(Contents(b, i, n + 1)) <= (n + 1) * BuffersSize
    BY <1>1, <2>2, <2>3, <2>4, <2>5, <2>6
  <2> QED
    BY <2>1, <2>7
<1>4. \A n \in 0..BuffersNumber : n \in T
  <2> HIDE DEF T
  <2> QED
    BY <1>1, <1>2, <1>3, UpTo
<1>5. \A n \in 0..BuffersNumber : Len(Contents(b, i, n)) \in Nat
  BY ContentsEquations, LenProperties
<1> QED
  BY <1>4, <1>5

-----------------------------------------------------------------------------
(* Facts about sequences.                                                  *)

(* A piece of a sequence.                                                  *)
LEMMA Piece ==
  ASSUME NEW s \in Seq(Nat), NEW m \in Nat, NEW n \in m..Len(s)
  PROVE  /\ SubSeq(s, m + 1, n) \in Seq(Nat)
         /\ Len(SubSeq(s, m + 1, n)) = n - m
         /\ \A j \in 1..(n - m) : SubSeq(s, m + 1, n)[j] = s[m + j]
<1>1. Len(s) \in Nat /\ \A j \in 1..Len(s) : s[j] \in Nat
  BY LenProperties
<1>2. m + 1 \in Int /\ n \in Int /\ n - (m + 1) + 1 = n - m
  BY <1>1
<1>3. \A j \in (m + 1)..n : s[j] \in Nat
  BY <1>1
<1>4. /\ SubSeq(s, m + 1, n) \in Seq(Nat)
      /\ Len(SubSeq(s, m + 1, n)) = IF m + 1 <= n THEN n - (m + 1) + 1 ELSE 0
      /\ \A j \in 1..(n - (m + 1) + 1) : SubSeq(s, m + 1, n)[j] = s[(m + 1) + j - 1]
  BY <1>2, <1>3, SubSeqProperties
<1>5. Len(SubSeq(s, m + 1, n)) = n - m
  BY <1>1, <1>4
<1>6. ASSUME NEW j \in 1..(n - m) PROVE SubSeq(s, m + 1, n)[j] = s[m + j]
  <2>1. j \in 1..(n - (m + 1) + 1) /\ (m + 1) + j - 1 = m + j
    BY <1>1
  <2> QED
    BY <1>4, <2>1
<1> QED
  BY <1>4, <1>5, <1>6

(* Dropping bytes from the front leaves the end alone.                     *)
LEMMA DropFront ==
  ASSUME NEW s \in Seq(Nat), NEW t \in Seq(Nat), NEW m \in 0..Len(s)
  PROVE  SubSeq(s \o t, m + 1, Len(s \o t)) = SubSeq(s, m + 1, Len(s)) \o t
<1> DEFINE w == s \o t
           l == SubSeq(w, m + 1, Len(w))
           f == SubSeq(s, m + 1, Len(s))
           r == f \o t
<1>1. Len(s) \in Nat /\ Len(t) \in Nat /\ m \in Nat
  BY LenProperties
<1>2. /\ w \in Seq(Nat) /\ Len(w) = Len(s) + Len(t)
      /\ \A j \in 1..(Len(s) + Len(t)) : w[j] = IF j <= Len(s) THEN s[j] ELSE t[j - Len(s)]
  BY ConcatProperties
<1> HIDE DEF w
<1>3. /\ l \in Seq(Nat) /\ Len(l) = Len(w) - m
      /\ \A j \in 1..(Len(w) - m) : l[j] = w[m + j]
  <2>1. Len(w) \in m..Len(w)
    BY <1>1, <1>2
  <2> QED
    BY <1>1, <1>2, <2>1, Piece
<1>4. /\ f \in Seq(Nat) /\ Len(f) = Len(s) - m
      /\ \A j \in 1..(Len(s) - m) : f[j] = s[m + j]
  <2>1. Len(s) \in m..Len(s)
    BY <1>1
  <2> QED
    BY <1>1, <2>1, Piece
<1> HIDE DEF l, f
<1>5. /\ r \in Seq(Nat) /\ Len(r) = Len(f) + Len(t)
      /\ \A j \in 1..(Len(f) + Len(t)) : r[j] = IF j <= Len(f) THEN f[j] ELSE t[j - Len(f)]
  BY <1>4, ConcatProperties
<1> HIDE DEF r
<1>6. Len(l) = Len(r) /\ Len(l) = Len(s) + Len(t) - m
  BY <1>1, <1>2, <1>3, <1>4, <1>5
<1>7. ASSUME NEW j \in 1..Len(l) PROVE l[j] = r[j]
  <2>1. j \in 1..(Len(w) - m) /\ m + j \in 1..(Len(s) + Len(t)) /\ j \in 1..(Len(f) + Len(t))
    <3>1. /\ Len(w) = Len(s) + Len(t) /\ Len(f) = Len(s) - m
          /\ Len(l) = Len(s) + Len(t) - m
      BY <1>2, <1>4, <1>6, Zenon
    <3>2. j \in 1..(Len(s) + Len(t) - m)
      BY <3>1
    <3>3. Len(w) - m = Len(s) + Len(t) - m /\ Len(f) + Len(t) = Len(s) + Len(t) - m
      BY <1>1, <3>1
    <3>4. m + j \in 1..(Len(s) + Len(t))
      BY <1>1, <3>2
    <3> QED
      BY <3>2, <3>3, <3>4
  <2>2. l[j] = w[m + j]
    BY <1>3, <2>1
  <2>3. CASE m + j <= Len(s)
    <3>1. j <= Len(f) /\ j \in 1..(Len(s) - m)
      BY <1>1, <1>4, <2>1, <2>3
    <3>2. w[m + j] = s[m + j] /\ r[j] = f[j] /\ f[j] = s[m + j]
      BY <1>2, <1>4, <1>5, <2>1, <2>3, <3>1
    <3> QED
      BY <2>2, <3>2
  <2>4. CASE ~(m + j <= Len(s))
    <3>1. ~(j <= Len(f)) /\ (m + j) - Len(s) = j - Len(f)
      BY <1>1, <1>4, <2>1, <2>4
    <3>2. w[m + j] = t[(m + j) - Len(s)] /\ r[j] = t[j - Len(f)]
      BY <1>2, <1>5, <2>1, <2>4, <3>1
    <3> QED
      BY <2>2, <3>1, <3>2
  <2> QED
    BY <2>3, <2>4
<1>8. l = r
  BY <1>3, <1>5, <1>6, <1>7, SeqEqual
<1> QED
  BY <1>8 DEF l, r, f, w

(* A sequence is the piece taken from its front and what is left.          *)
LEMMA TakeFront ==
  ASSUME NEW s \in Seq(Nat), NEW t \in Seq(Nat)
  PROVE  /\ SubSeq(s \o t, 1, Len(s)) = s
         /\ SubSeq(s \o t, Len(s) + 1, Len(s \o t)) = t
<1>1. Len(s) \in Nat /\ Len(t) \in Nat /\ Len(s) \in 0..Len(s)
  BY LenProperties
<1>2. SubSeq(s \o t, Len(s) + 1, Len(s \o t)) = SubSeq(s, Len(s) + 1, Len(s)) \o t
  BY <1>1, DropFront
<1>3. SubSeq(s, Len(s) + 1, Len(s)) = << >>
  <2>1. Len(s) + 1 \in Int /\ Len(s) \in Int /\ Len(s) < Len(s) + 1
    BY <1>1
  <2> QED
    BY <2>1, SubSeqEmpty
<1> DEFINE w == s \o t
           l == SubSeq(w, 0 + 1, Len(s))
<1>4. /\ w \in Seq(Nat) /\ Len(w) = Len(s) + Len(t)
      /\ \A j \in 1..(Len(s) + Len(t)) : w[j] = IF j <= Len(s) THEN s[j] ELSE t[j - Len(s)]
  BY ConcatProperties
<1> HIDE DEF w
<1>5. /\ l \in Seq(Nat) /\ Len(l) = Len(s) - 0
      /\ \A j \in 1..(Len(s) - 0) : l[j] = w[0 + j]
  <2>1. 0 \in Nat /\ Len(s) \in 0..Len(w)
    BY <1>1, <1>4
  <2> QED
    BY <1>4, <2>1, Piece
<1> HIDE DEF l
<1>6. Len(l) = Len(s) /\ \A j \in 1..Len(l) : l[j] = s[j]
  BY <1>1, <1>4, <1>5
<1>7. l = s
  BY <1>5, <1>6, SeqEqual
<1>8. SubSeq(s \o t, 1, Len(s)) = s
  BY <1>7 DEF l, w
<1> QED
  BY <1>2, <1>3, <1>8, Joined

-----------------------------------------------------------------------------
(* What the queue functions do to the bytes in a queue.                    *)

(* Steps of different number, fewer than a whole turn, lead to different   *)
(* buffers.                                                                *)
LEMMA AheadDistinct ==
  ASSUME NEW i \in Slots, NEW n \in 0..(BuffersNumber - 1), NEW k \in 0..(n - 1)
  PROVE  Ahead(i, k) # Ahead(i, n) /\ Ahead(i, k) \in Slots
BY BuffersAssumption DEF Ahead, Slots

(* So a change of the next buffer does not touch the n before it.          *)
LEMMA ContentsKept ==
  ASSUME NEW b \in Rings, NEW c \in Rings, NEW i \in Slots, NEW n \in 0..(BuffersNumber - 1),
         \A j \in Slots : j # Ahead(i, n) => c[j] = b[j]
  PROVE  Contents(c, i, n) = Contents(b, i, n)
<1>1. n \in 0..BuffersNumber
  BY BuffersAssumption
<1>2. \A k \in 0..(n - 1) : c[Ahead(i, k)] = b[Ahead(i, k)]
  BY AheadDistinct
<1> QED
  BY <1>1, <1>2, ContentsSame

(* More buffers hold no less.                                              *)
LEMMA Capacities ==
  ASSUME NEW n \in 0..BuffersNumber
  PROVE  /\ n * BuffersSize \in Nat
         /\ n * BuffersSize <= BuffersNumber * BuffersSize
         /\ n < BuffersNumber => n * BuffersSize + BuffersSize <= BuffersNumber * BuffersSize
<1>1. BuffersNumber \in Nat /\ BuffersSize \in Nat /\ n \in Nat
  BY BuffersAssumption
<1> DEFINE d == BuffersNumber - n
<1>2. d \in Nat /\ BuffersNumber = n + d
  BY <1>1
<1> HIDE DEF d
<1>3. BuffersNumber * BuffersSize = n * BuffersSize + d * BuffersSize
  BY <1>1, <1>2
<1>4. n * BuffersSize \in Nat /\ d * BuffersSize \in Nat
  BY <1>1, <1>2
<1>5. ASSUME n < BuffersNumber PROVE BuffersSize <= d * BuffersSize
  <2> DEFINE e == d - 1
  <2>1. e \in Nat /\ d = e + 1
    BY <1>1, <1>2, <1>5
  <2> HIDE DEF e
  <2>2. d * BuffersSize = e * BuffersSize + BuffersSize
    BY <1>1, <2>1
  <2>3. e * BuffersSize \in Nat
    BY <1>1, <2>1
  <2> QED
    BY <1>1, <2>2, <2>3
<1> QED
  BY <1>1, <1>3, <1>4, <1>5

(* The bytes depend on nothing but the ring and the thread's place in it.  *)
LEMMA SameBytes ==
  ASSUME NEW p, NEW q, p.bcounter = q.bcounter, p.brdptr = q.brdptr, p.bwrptr = q.bwrptr,
         p.ptr = q.ptr, p.buffers = q.buffers
  PROVE  Unread(p) = Unread(q) /\ Unsent(p) = Unsent(q)
BY Zenon DEF Unread, Unsent

(* The current input buffer's rest, then the other full buffers.           *)
LEMMA UnreadForm ==
  ASSUME NEW q \in Queues(Nat), IbqConsistent(q), ~IbqIsEmpty(q), q.ptr \in Nat
  PROVE  LET data == q.buffers[q.brdptr]
             rest == Contents(q.buffers, Advance(q.brdptr), q.bcounter - 1)
         IN  /\ data \in Seq(Nat) /\ rest \in Seq(Nat)
             /\ q.ptr \in 0..Len(data)
             /\ Unread(q) = SubSeq(data, q.ptr + 1, Len(data)) \o rest
<1> DEFINE data == q.buffers[q.brdptr]
           rest == Contents(q.buffers, Advance(q.brdptr), q.bcounter - 1)
<1>1. /\ q.bcounter \in 0..BuffersNumber /\ q.brdptr \in Slots /\ q.buffers \in Rings
  BY QueueFields DEF Rings
<1>2. /\ q.bcounter # 0 /\ q.ptr # NoPtr /\ Advance(q.brdptr) \in Slots
  BY <1>1, AdvanceType DEF IbqIsEmpty, NoPtr
<1>3. /\ q.bcounter - 1 \in 0..(BuffersNumber - 1) /\ q.bcounter - 1 \in 0..BuffersNumber
      /\ (q.bcounter - 1) + 1 = q.bcounter
  BY <1>1, <1>2, BuffersAssumption
<1>4. data \in Seq(Nat)
  BY <1>1 DEF Rings
<1>5. rest \in Seq(Nat)
  BY <1>1, <1>2, <1>3, ContentsEquations
<1>6. Contents(q.buffers, q.brdptr, (q.bcounter - 1) + 1) = data \o rest
  BY <1>1, <1>3, ContentsFirst
<1>7. Contents(q.buffers, q.brdptr, q.bcounter) = data \o rest
  BY <1>3, <1>6
<1>8. q.ptr \in 0..Len(data)
  BY <1>2, <1>4, LenProperties DEF IbqConsistent
<1> HIDE DEF data, rest
<1>9. Unread(q) = SubSeq(data \o rest, q.ptr + 1, Len(data \o rest))
  BY <1>2, <1>7, Zenon DEF Unread
<1>10. Unread(q) = SubSeq(data, q.ptr + 1, Len(data)) \o rest
  BY <1>4, <1>5, <1>8, <1>9, DropFront
<1> QED
  BY <1>4, <1>5, <1>8, <1>10 DEF data, rest

(* A ring never holds more unread bytes than its capacity.                 *)
LEMMA UnreadBounded ==
  ASSUME NEW q \in Queues(Nat), IbqConsistent(q)
  PROVE  /\ Unread(q) \in Seq(Nat)
         /\ Len(Unread(q)) \in Nat
         /\ Len(Unread(q)) <= BuffersNumber * BuffersSize
<1> DEFINE all == Contents(q.buffers, q.brdptr, q.bcounter)
<1>1. /\ q.bcounter \in 0..BuffersNumber /\ q.brdptr \in Slots /\ q.buffers \in Rings
      /\ q.ptr \in NoPtr..BuffersSize
  BY QueueFields DEF Rings
<1>2. all \in Seq(Nat) /\ Len(all) \in Nat
  BY <1>1, ContentsEquations, LenProperties
<1>3. Len(all) <= BuffersNumber * BuffersSize
  <2>1. Len(all) <= q.bcounter * BuffersSize
    BY <1>1, ContentsBounded DEF IbqConsistent
  <2>2. /\ q.bcounter * BuffersSize \in Nat
        /\ q.bcounter * BuffersSize <= BuffersNumber * BuffersSize
    BY <1>1, Capacities
  <2>3. BuffersNumber * BuffersSize \in Nat
    BY BuffersAssumption
  <2> QED
    BY <1>2, <2>1, <2>2, <2>3
<1>4. CASE q.ptr = NoPtr
  BY <1>2, <1>3, <1>4 DEF Unread
<1>5. CASE q.ptr # NoPtr
  <2>1. q.ptr \in Nat /\ ~IbqIsEmpty(q)
    BY <1>1, <1>5 DEF IbqConsistent, IbqIsEmpty, NoPtr
  <2>2. Unread(q) = SubSeq(all, q.ptr + 1, Len(all))
    BY <1>5 DEF Unread
  <2>3. CASE q.ptr <= Len(all)
    <3>1. Len(all) \in q.ptr..Len(all)
      BY <1>2, <2>1, <2>3
    <3>2. SubSeq(all, q.ptr + 1, Len(all)) \in Seq(Nat) /\ Len(SubSeq(all, q.ptr + 1, Len(all))) = Len(all) - q.ptr
      BY <1>2, <2>1, <3>1, Piece
    <3> HIDE DEF all
    <3>3. BuffersNumber * BuffersSize \in Nat
      BY BuffersAssumption
    <3>4. Len(all) - q.ptr \in Nat /\ Len(all) - q.ptr <= BuffersNumber * BuffersSize
      BY <1>2, <1>3, <2>1, <2>3, <3>3
    <3> QED
      BY <2>2, <3>2, <3>4
  <2>4. CASE ~(q.ptr <= Len(all))
    <3>1. SubSeq(all, q.ptr + 1, Len(all)) = << >>
      <4>1. q.ptr + 1 \in Int /\ Len(all) \in Int /\ Len(all) < q.ptr + 1
        BY <1>2, <2>1, <2>4
      <4> QED
        BY <4>1, SubSeqEmpty
    <3>2. << >> \in Seq(Nat) /\ Len(<< >>) = 0 /\ 0 <= BuffersNumber * BuffersSize
      BY BuffersAssumption
    <3>3. Unread(q) = << >>
      BY <2>2, <3>1, Zenon
    <3> QED
      BY <3>2, <3>3
  <2> QED
    BY <2>3, <2>4
<1> QED
  BY <1>4, <1>5

(* ibqPostFullBufferI: the transfer's bytes come after all the others.     *)
LEMMA IbqPostAppends ==
  ASSUME NEW q \in Queues(Nat), IbqConsistent(q), ~IbqIsFull(q), NEW d \in Seq(Nat)
  PROVE  Unread(IbqPostFullBuffer([q EXCEPT !.buffers[q.bwrptr] = d])) = Unread(q) \o d
<1> DEFINE f == [q EXCEPT !.buffers[q.bwrptr] = d]
           p == IbqPostFullBuffer(f)
           n == q.bcounter
           i == q.brdptr
           all == Contents(q.buffers, i, n)
<1>1. /\ q.bcounter \in 0..BuffersNumber /\ q.brdptr \in Slots /\ q.bwrptr \in Slots
      /\ q.buffers \in Rings /\ q.ptr \in NoPtr..BuffersSize
  BY QueueFields DEF Rings
<1>2. /\ f.bcounter = q.bcounter /\ f.brdptr = q.brdptr /\ f.bwrptr = q.bwrptr
      /\ f.ptr = q.ptr /\ f.buffers = [q.buffers EXCEPT ![q.bwrptr] = d]
      /\ f \in Queues(Nat)
  <2>1. [q.buffers EXCEPT ![q.bwrptr] = d] \in [Slots -> Seq(Nat)]
    BY <1>1 DEF Rings
  <2> QED
    BY <2>1 DEF Queues
<1> HIDE DEF f
<1>3. /\ p.bcounter = n + 1 /\ p.brdptr = i /\ p.ptr = q.ptr /\ p.buffers = f.buffers
  BY <1>2 DEF IbqPostFullBuffer, Queues
<1> HIDE DEF p
<1>4. p.buffers \in Rings /\ p.buffers[q.bwrptr] = d
      /\ \A j \in Slots : j # q.bwrptr => p.buffers[j] = q.buffers[j]
  BY <1>1, <1>2, <1>3 DEF Rings
<1>5. q.bwrptr = Ahead(i, n)
  BY DEF IbqConsistent, Ring
<1>6. n \in 0..(BuffersNumber - 1)
  <2>1. n # BuffersNumber
    BY <1>1, <1>5, AheadSame, BuffersAssumption DEF IbqIsFull
  <2> QED
    BY <2>1, <1>1, BuffersAssumption
<1> HIDE DEF n, i
<1>i. i \in Slots
  BY <1>1 DEF i
<1>7. Contents(p.buffers, i, n) = all
  BY <1>1, <1>i, <1>4, <1>5, <1>6, ContentsKept
<1>8. Contents(p.buffers, i, n + 1) = all \o d
  BY <1>i, <1>4, <1>5, <1>6, <1>7, ContentsEquations
<1>9. all \in Seq(Nat)
  <2>1. n \in 0..BuffersNumber
    BY <1>1 DEF n
  <2> QED
    BY <2>1, <1>1, <1>i, ContentsEquations
<1>10. CASE q.ptr = NoPtr
  <2>1. Unread(q) = all
    BY <1>10, Zenon DEF Unread, n, i
  <2>2. Unread(p) = all \o d
    BY <1>3, <1>8, <1>10, Zenon DEF Unread
  <2> QED
    BY <2>1, <2>2, Zenon DEF p, f
<1>11. CASE q.ptr # NoPtr
  <2>1. Unread(q) = SubSeq(all, q.ptr + 1, Len(all))
    BY <1>11, Zenon DEF Unread, n, i
  <2>2. Unread(p) = SubSeq(all \o d, q.ptr + 1, Len(all \o d))
    BY <1>3, <1>8, <1>11, Zenon DEF Unread
  <2>3. q.ptr \in 0..Len(all)
    <3> DEFINE data == q.buffers[i]
               rest == Contents(q.buffers, Advance(i), n - 1)
    <3>1. n - 1 \in 0..(BuffersNumber - 1) /\ (n - 1) + 1 = n /\ n - 1 \in 0..BuffersNumber
      <4>1. n > 0
        BY <1>11 DEF IbqConsistent, n
      <4> QED
        BY <4>1, <1>6, BuffersAssumption
    <3>2. Contents(q.buffers, i, (n - 1) + 1) = data \o rest
      BY <1>1, <1>i, <3>1, ContentsFirst
    <3>3. data \in Seq(Nat) /\ rest \in Seq(Nat)
      BY <1>1, <1>i, <3>1, AdvanceType, ContentsEquations DEF Rings
    <3>4. q.ptr <= Len(data)
      BY <1>11 DEF IbqConsistent, i
    <3>5. q.ptr \in Nat
      BY <1>1, <1>11 DEF NoPtr
    <3> HIDE DEF data, rest
    <3>6. Len(data \o rest) = Len(data) + Len(rest) /\ Len(data) \in Nat /\ Len(rest) \in Nat
      BY <3>3, Joined
    <3>7. all = data \o rest
      BY <3>1, <3>2
    <3>8. q.ptr <= Len(data \o rest)
      BY <3>4, <3>5, <3>6
    <3> QED
      BY <3>5, <3>6, <3>7, <3>8
  <2> HIDE DEF all
  <2>4. Unread(p) = SubSeq(all, q.ptr + 1, Len(all)) \o d
    BY <1>9, <2>2, <2>3, DropFront
  <2> QED
    BY <2>1, <2>4, Zenon DEF p, f
<1> QED
  BY <1>10, <1>11

(* Taking a current input buffer reads nothing.                            *)
LEMMA IbqCurrentKeeps ==
  ASSUME NEW q \in Queues(Nat), IbqConsistent(q), ~(q.ptr = NoPtr /\ IbqIsEmpty(q))
  PROVE  Unread(IbqCurrent(q)) = Unread(q)
<1>1. CASE q.ptr # NoPtr
  BY <1>1 DEF IbqCurrent
<1>2. CASE q.ptr = NoPtr
  <2> DEFINE c == IbqCurrent(q)
             all == Contents(q.buffers, q.brdptr, q.bcounter)
  <2>1. /\ c.bcounter = q.bcounter /\ c.brdptr = q.brdptr /\ c.buffers = q.buffers /\ c.ptr = 0
    BY <1>2 DEF IbqCurrent, Queues
  <2> HIDE DEF c
  <2>2. all \in Seq(Nat)
    <3>1. q.bcounter \in 0..BuffersNumber /\ q.brdptr \in Slots /\ q.buffers \in Rings
      BY QueueFields DEF Rings
    <3> QED
      BY <3>1, ContentsEquations
  <2>3. Unread(q) = all
    BY <1>2, Zenon DEF Unread
  <2>4. 0 # NoPtr /\ 0 + 1 = 1
    BY DEF NoPtr
  <2>5. Unread(c) = SubSeq(all, 0 + 1, Len(all))
    BY <2>1, <2>4, Zenon DEF Unread
  <2> HIDE DEF all
  <2>6. SubSeq(all, 1, Len(all)) = all
    BY <2>2, SubSeqFull
  <2> QED
    BY <2>3, <2>4, <2>5, <2>6 DEF c
<1> QED
  BY <1>1, <1>2

(* Moving on by n bytes in the current buffer takes them from the front.   *)
LEMMA IbqMoveTakes ==
  ASSUME NEW q \in Queues(Nat), IbqConsistent(q), ~IbqIsEmpty(q), q.ptr \in Nat,
         NEW n \in Nat, q.ptr + n <= Len(q.buffers[q.brdptr])
  PROVE  LET data == q.buffers[q.brdptr]
             bytes == SubSeq(data, q.ptr + 1, q.ptr + n)
         IN  /\ bytes \in Seq(Nat) /\ Len(bytes) = n
             /\ Unread(q) = bytes \o Unread([q EXCEPT !.ptr = @ + n])
<1> DEFINE data == q.buffers[q.brdptr]
           rest == Contents(q.buffers, Advance(q.brdptr), q.bcounter - 1)
           m == [q EXCEPT !.ptr = @ + n]
           k == q.ptr + n
           bytes == SubSeq(data, q.ptr + 1, k)
           left == SubSeq(data, k + 1, Len(data))
<1>1. /\ data \in Seq(Nat) /\ rest \in Seq(Nat) /\ q.ptr \in 0..Len(data)
      /\ Unread(q) = SubSeq(data, q.ptr + 1, Len(data)) \o rest
  BY UnreadForm
<1>2. /\ m \in Queues(Nat) /\ IbqConsistent(m) /\ ~IbqIsEmpty(m)
  BY IbqMoveLemma
<1>3. /\ m.bcounter = q.bcounter /\ m.brdptr = q.brdptr /\ m.buffers = q.buffers /\ m.ptr = k
  BY DEF Queues
<1> HIDE DEF m
<1>4. k \in Nat /\ k <= Len(data) /\ Len(data) \in Nat
  BY <1>1, LenProperties
<1>5. Unread(m) = left \o rest
  <2>1. Unread(m) = SubSeq(m.buffers[m.brdptr], m.ptr + 1, Len(m.buffers[m.brdptr]))
                      \o Contents(m.buffers, Advance(m.brdptr), m.bcounter - 1)
    BY <1>2, <1>3, <1>4, UnreadForm
  <2> QED
    BY <1>3, <2>1, Zenon
<1> HIDE DEF data, rest, k
<1>6. /\ q.ptr + 1 \in 1..(Len(data) + 1) /\ k \in q.ptr..Len(data) /\ k \in (q.ptr + 1 - 1)..Len(data)
      /\ Len(data) \in k..Len(data)
  BY <1>1, <1>4 DEF k
<1>7. bytes \o left = SubSeq(data, q.ptr + 1, Len(data))
  <2>1. \A a \in 1..(Len(data) + 1) : \A c \in (a - 1)..Len(data) : \A z \in c..Len(data) :
          SubSeq(data, a, c) \o SubSeq(data, c + 1, z) = SubSeq(data, a, z)
    BY <1>1, ConcatAdjacentSubSeq
  <2> DEFINE a == q.ptr + 1
             z == Len(data)
  <2>2. a \in 1..(Len(data) + 1) /\ k \in (a - 1)..Len(data) /\ z \in k..Len(data)
    BY <1>6
  <2> HIDE DEF a, z
  <2>3. SubSeq(data, a, k) \o SubSeq(data, k + 1, z) = SubSeq(data, a, z)
    BY <2>1, <2>2, Zenon
  <2> QED
    BY <2>3 DEF a, z
<1>8. bytes \in Seq(Nat) /\ Len(bytes) = n
  <2>1. bytes \in Seq(Nat) /\ Len(bytes) = k - q.ptr
    BY <1>1, <1>6, Piece
  <2> QED
    BY <2>1 DEF k
<1>9. left \in Seq(Nat)
  BY <1>1, <1>4, <1>6, Piece
<1> HIDE DEF bytes, left
<1>10. Unread(q) = bytes \o Unread(m)
  <2>1. Unread(q) = (bytes \o left) \o rest
    BY <1>1, <1>7, Zenon
  <2>2. (bytes \o left) \o rest = bytes \o (left \o rest)
    BY <1>1, <1>8, <1>9, Joined, Zenon
  <2> QED
    BY <1>5, <2>1, <2>2, Zenon
<1> QED
  BY <1>8, <1>10 DEF bytes, m, k, data

(* ibqReleaseEmptyBufferS of a buffer that was read to its end.            *)
LEMMA IbqReleaseKeeps ==
  ASSUME NEW q \in Queues(Nat), IbqConsistent(q), ~IbqIsEmpty(q), q.ptr \in Nat,
         q.ptr = Len(q.buffers[q.brdptr])
  PROVE  Unread(IbqReleaseEmptyBuffer(q)) = Unread(q)
<1> DEFINE data == q.buffers[q.brdptr]
           rest == Contents(q.buffers, Advance(q.brdptr), q.bcounter - 1)
           p == IbqReleaseEmptyBuffer(q)
<1>1. /\ data \in Seq(Nat) /\ rest \in Seq(Nat)
      /\ Unread(q) = SubSeq(data, q.ptr + 1, Len(data)) \o rest
  BY UnreadForm
<1>2. /\ p.bcounter = q.bcounter - 1 /\ p.brdptr = Advance(q.brdptr)
      /\ p.ptr = NoPtr /\ p.buffers = q.buffers
  BY DEF IbqReleaseEmptyBuffer, Queues
<1> HIDE DEF p
<1>3. Unread(p) = rest
  BY <1>2, Zenon DEF Unread
<1>4. SubSeq(data, q.ptr + 1, Len(data)) = << >>
  <2>1. q.ptr + 1 \in Int /\ Len(data) \in Int /\ Len(data) < q.ptr + 1
    OBVIOUS
  <2> QED
    BY <2>1, SubSeqEmpty
<1> HIDE DEF data, rest
<1>5. Unread(q) = rest
  BY <1>1, <1>4, Joined
<1> QED
  BY <1>3, <1>5 DEF p

(* The full output buffers and how they join the one being filled.         *)
LEMMA UnsentFacts ==
  ASSUME NEW q \in Queues(Nat), ObqConsistent(q)
  PROVE  LET n == BuffersNumber - q.bcounter
         IN  /\ q.brdptr \in Slots /\ q.bwrptr \in Slots /\ q.buffers \in Rings
             /\ n \in 0..BuffersNumber
             /\ q.bwrptr = Ahead(q.brdptr, n)
             /\ Contents(q.buffers, q.brdptr, n) \in Seq(Nat)
             /\ q.buffers[q.bwrptr] \in Seq(Nat)
             /\ ~ObqIsFull(q) => n \in 0..(BuffersNumber - 1)
<1> DEFINE n == BuffersNumber - q.bcounter
<1>1. /\ q.bcounter \in 0..BuffersNumber /\ q.brdptr \in Slots /\ q.bwrptr \in Slots
      /\ q.buffers \in Rings
  BY QueueFields DEF Rings
<1>2. n \in 0..BuffersNumber /\ (~ObqIsFull(q) => n \in 0..(BuffersNumber - 1))
  BY <1>1, BuffersAssumption DEF ObqIsFull
<1>3. q.bwrptr = Ahead(q.brdptr, n)
  BY DEF ObqConsistent, Ring
<1> HIDE DEF n
<1>4. Contents(q.buffers, q.brdptr, n) \in Seq(Nat)
  BY <1>1, <1>2, ContentsEquations
<1>5. q.buffers[q.bwrptr] \in Seq(Nat)
  BY <1>1 DEF Rings
<1> QED
  BY <1>1, <1>2, <1>3, <1>4, <1>5 DEF n

(* A ring never holds more unsent bytes than its capacity.                 *)
LEMMA UnsentBounded ==
  ASSUME NEW q \in Queues(Nat), ObqConsistent(q)
  PROVE  /\ Unsent(q) \in Seq(Nat)
         /\ Len(Unsent(q)) \in Nat
         /\ Len(Unsent(q)) <= BuffersNumber * BuffersSize
<1> DEFINE n == BuffersNumber - q.bcounter
           all == Contents(q.buffers, q.brdptr, n)
           cur == q.buffers[q.bwrptr]
<1>1. /\ q.brdptr \in Slots /\ q.bwrptr \in Slots /\ q.buffers \in Rings
      /\ n \in 0..BuffersNumber
      /\ all \in Seq(Nat) /\ cur \in Seq(Nat)
      /\ ~ObqIsFull(q) => n \in 0..(BuffersNumber - 1)
  BY UnsentFacts
<1>2. Len(all) \in Nat /\ Len(all) <= n * BuffersSize
  BY <1>1, ContentsBounded DEF ObqConsistent
<1>3. /\ n * BuffersSize \in Nat
      /\ n * BuffersSize <= BuffersNumber * BuffersSize
      /\ n < BuffersNumber => n * BuffersSize + BuffersSize <= BuffersNumber * BuffersSize
  BY <1>1, Capacities
<1>4. Len(cur) \in Nat /\ Len(cur) <= BuffersSize
  BY <1>1, LenProperties DEF ObqConsistent
<1>5. BuffersNumber * BuffersSize \in Nat /\ BuffersSize \in Nat /\ BuffersNumber \in Nat
  BY BuffersAssumption
<1>6. q.ptr # NoPtr => n < BuffersNumber
  <2>1. q.ptr # NoPtr => ~ObqIsFull(q)
    <3>1. q.bcounter \in 0..BuffersNumber
      BY QueueFields
    <3> QED
      BY <3>1 DEF ObqConsistent, ObqIsFull
  <2> QED
    BY <2>1, <1>1, <1>5
<1> DEFINE M == BuffersNumber * BuffersSize
           x == n * BuffersSize
<1> HIDE DEF n, all, cur
<1>7. CASE q.ptr = NoPtr
  <2>1. Unsent(q) = all \o << >>
    BY <1>7, Zenon DEF Unsent, all, n
  <2>2. Unsent(q) = all
    BY <1>1, <2>1, Joined
  <2> HIDE DEF M, x
  <2>3. Len(all) <= M
    <3>1. Len(all) <= x /\ x <= M /\ x \in Nat /\ M \in Nat
      BY <1>2, <1>3, <1>5 DEF x, M
    <3> QED
      BY <1>2, <3>1
  <2> QED
    BY <1>1, <1>2, <2>2, <2>3 DEF M
<1>8. CASE q.ptr # NoPtr
  <2>1. Unsent(q) = all \o cur
    BY <1>8, Zenon DEF Unsent, all, n, cur
  <2>2. all \o cur \in Seq(Nat) /\ Len(all \o cur) = Len(all) + Len(cur)
    BY <1>1, Joined
  <2> HIDE DEF M, x
  <2>3. Len(all) + Len(cur) <= M /\ Len(all) + Len(cur) \in Nat
    <3>1. Len(all) <= x /\ x + BuffersSize <= M /\ x \in Nat /\ M \in Nat
      BY <1>2, <1>3, <1>5, <1>6, <1>8 DEF x, M
    <3> QED
      BY <1>2, <1>4, <1>5, <3>1
  <2> QED
    BY <2>1, <2>2, <2>3 DEF M
<1> QED
  BY <1>7, <1>8

(* obqPostFullBufferS and obqTryFlushI send nothing yet.                   *)
LEMMA ObqPostKeeps ==
  ASSUME NEW q \in Queues(Nat), ObqConsistent(q), ~ObqIsFull(q), q.ptr # NoPtr
  PROVE  Unsent(ObqPostFullBuffer(q)) = Unsent(q)
<1> DEFINE n == BuffersNumber - q.bcounter
           all == Contents(q.buffers, q.brdptr, n)
           cur == q.buffers[q.bwrptr]
           p == ObqPostFullBuffer(q)
<1>1. /\ q.brdptr \in Slots /\ q.buffers \in Rings /\ n \in 0..(BuffersNumber - 1)
      /\ q.bwrptr = Ahead(q.brdptr, n) /\ all \in Seq(Nat) /\ cur \in Seq(Nat)
  BY UnsentFacts
<1>2. /\ p.bcounter = q.bcounter - 1 /\ p.brdptr = q.brdptr /\ p.ptr = NoPtr
      /\ p.buffers = q.buffers
  BY DEF ObqPostFullBuffer, Queues
<1> HIDE DEF p
<1>3. BuffersNumber - p.bcounter = n + 1
  <2>1. q.bcounter \in 0..BuffersNumber
    BY QueueFields
  <2> QED
    BY <1>2, <2>1, BuffersAssumption
<1>4. Unsent(q) = all \o cur
  BY Zenon DEF Unsent
<1>5. Contents(q.buffers, q.brdptr, n + 1) = all \o cur
  <2> HIDE DEF n
  <2> QED
    BY <1>1, ContentsEquations
<1>6. Unsent(p) = Contents(q.buffers, q.brdptr, n + 1) \o << >>
  BY <1>2, <1>3, Zenon DEF Unsent
<1> HIDE DEF all, cur, n
<1>7. Unsent(p) = all \o cur
  BY <1>1, <1>5, <1>6, Joined
<1> QED
  BY <1>4, <1>7 DEF p

(* obqReleaseEmptyBufferI: the oldest buffer's bytes are gone.             *)
LEMMA ObqReleaseTakes ==
  ASSUME NEW q \in Queues(Nat), ObqConsistent(q), ~ObqIsEmpty(q)
  PROVE  /\ q.buffers[q.brdptr] \in Seq(Nat)
         /\ Unsent(q) = q.buffers[q.brdptr] \o Unsent(ObqReleaseEmptyBuffer(q))
<1> DEFINE n == BuffersNumber - q.bcounter
           i == q.brdptr
           rest == Contents(q.buffers, Advance(i), n - 1)
           cur == IF q.ptr = NoPtr THEN << >> ELSE q.buffers[q.bwrptr]
           p == ObqReleaseEmptyBuffer(q)
<1>1. /\ q.brdptr \in Slots /\ q.buffers \in Rings /\ n \in 0..BuffersNumber
      /\ q.bwrptr = Ahead(q.brdptr, n) /\ q.buffers[q.bwrptr] \in Seq(Nat)
  BY UnsentFacts
<1>2. /\ p.bcounter = q.bcounter + 1 /\ p.brdptr = Advance(i) /\ p.ptr = q.ptr
      /\ p.buffers = q.buffers /\ p.bwrptr = q.bwrptr
  BY DEF ObqReleaseEmptyBuffer, Queues
<1> HIDE DEF p
<1>3. q.bcounter \in 0..BuffersNumber
  BY QueueFields
<1>4. n # 0
  <2>1. ASSUME n = 0 PROVE FALSE
    <3>1. q.bwrptr = q.brdptr
      BY <1>1, <2>1, AheadType
    <3>2. q.bcounter # 0
      BY <1>3, <2>1, BuffersAssumption
    <3> QED
      BY <3>1, <3>2 DEF ObqIsEmpty
  <2> QED
    BY <2>1
<1>5. /\ n - 1 \in 0..(BuffersNumber - 1) /\ n - 1 \in 0..BuffersNumber /\ (n - 1) + 1 = n
      /\ BuffersNumber - p.bcounter = n - 1
  BY <1>1, <1>2, <1>3, <1>4, BuffersAssumption
<1>6. Advance(i) \in Slots /\ q.buffers[i] \in Seq(Nat) /\ rest \in Seq(Nat)
  <2>1. Advance(i) \in Slots /\ q.buffers[i] \in Seq(Nat)
    BY <1>1, AdvanceType DEF Rings
  <2> HIDE DEF n, i
  <2> QED
    BY <1>1, <1>5, <2>1, ContentsEquations
<1>7. Contents(q.buffers, i, n) = q.buffers[i] \o rest
  <2>1. Contents(q.buffers, i, (n - 1) + 1) = q.buffers[i] \o rest
    <3> HIDE DEF n
    <3> QED
      BY <1>1, <1>5, ContentsFirst
  <2> QED
    BY <1>5, <2>1
<1>8. cur \in Seq(Nat)
  BY <1>1
<1>9. Unsent(q) = (q.buffers[i] \o rest) \o cur
  BY <1>7, Zenon DEF Unsent
<1>10. Unsent(p) = rest \o cur
  BY <1>2, <1>5, Zenon DEF Unsent
<1> HIDE DEF rest, cur
<1>11. (q.buffers[i] \o rest) \o cur = q.buffers[i] \o (rest \o cur)
  BY <1>6, <1>8, Joined, Zenon
<1> QED
  BY <1>6, <1>9, <1>10, <1>11 DEF p

(* A current output buffer starts empty, and the full ones are not touched.*)
LEMMA ObqCurrentKeeps ==
  ASSUME NEW q \in Queues(Nat), ObqConsistent(q), ~(q.ptr = NoPtr /\ ObqIsFull(q))
  PROVE  Unsent(ObqCurrent(q)) = Unsent(q)
<1>1. CASE q.ptr # NoPtr
  BY <1>1 DEF ObqCurrent
<1>2. CASE q.ptr = NoPtr
  <2> DEFINE n == BuffersNumber - q.bcounter
             all == Contents(q.buffers, q.brdptr, n)
             c == ObqCurrent(q)
  <2>1. /\ q.brdptr \in Slots /\ q.bwrptr \in Slots /\ q.buffers \in Rings
        /\ n \in 0..(BuffersNumber - 1)
        /\ q.bwrptr = Ahead(q.brdptr, n) /\ all \in Seq(Nat)
    BY <1>2, UnsentFacts
  <2>2. /\ c.bcounter = q.bcounter /\ c.brdptr = q.brdptr /\ c.bwrptr = q.bwrptr
        /\ c.buffers = [q.buffers EXCEPT ![q.bwrptr] = << >>] /\ c.ptr = 0
    BY <1>2 DEF ObqCurrent, Queues
  <2> HIDE DEF c
  <2>3. << >> \in Seq(Nat)
    OBVIOUS
  <2>4. /\ c.buffers \in Rings /\ c.buffers[q.bwrptr] = << >>
        /\ \A j \in Slots : j # q.bwrptr => c.buffers[j] = q.buffers[j]
    BY <2>1, <2>2, <2>3 DEF Rings
  <2>5. Contents(c.buffers, q.brdptr, n) = all
    <3> HIDE DEF n
    <3> QED
      BY <2>1, <2>4, ContentsKept
  <2>6. 0 # NoPtr
    BY DEF NoPtr
  <2>7. Unsent(c) = all \o << >>
    BY <2>2, <2>4, <2>5, <2>6, Zenon DEF Unsent
  <2>8. Unsent(q) = all \o << >>
    BY <1>2, Zenon DEF Unsent
  <2> QED
    BY <2>7, <2>8 DEF c
<1> QED
  BY <1>1, <1>2

(* Copied bytes come after all the others.                                 *)
LEMMA ObqCopyAppends ==
  ASSUME NEW q \in Queues(Nat), ObqConsistent(q), ~ObqIsFull(q), q.ptr \in Nat,
         NEW d \in Seq(Nat)
  PROVE  Unsent(ObqCopy(q, d)) = Unsent(q) \o d
<1> DEFINE n == BuffersNumber - q.bcounter
           all == Contents(q.buffers, q.brdptr, n)
           cur == q.buffers[q.bwrptr]
           m == ObqCopy(q, d)
<1>1. /\ q.brdptr \in Slots /\ q.bwrptr \in Slots /\ q.buffers \in Rings
      /\ n \in 0..(BuffersNumber - 1)
      /\ q.bwrptr = Ahead(q.brdptr, n) /\ all \in Seq(Nat) /\ cur \in Seq(Nat)
  BY UnsentFacts
<1>2. /\ m.bcounter = q.bcounter /\ m.brdptr = q.brdptr /\ m.bwrptr = q.bwrptr
      /\ m.buffers = [q.buffers EXCEPT ![q.bwrptr] = cur \o d] /\ m.ptr = q.ptr + Len(d)
  BY <1>1 DEF ObqCopy, Queues, Rings
<1> HIDE DEF m
<1>3. cur \o d \in Seq(Nat)
  BY <1>1, Joined
<1>4. /\ m.buffers \in Rings /\ m.buffers[q.bwrptr] = cur \o d
      /\ \A j \in Slots : j # q.bwrptr => m.buffers[j] = q.buffers[j]
  <2> HIDE DEF cur
  <2> QED
    BY <1>1, <1>2, <1>3 DEF Rings
<1>5. Contents(m.buffers, q.brdptr, n) = all
  <2> HIDE DEF n, cur
  <2>1. /\ q.buffers \in Rings /\ m.buffers \in Rings /\ q.brdptr \in Slots
        /\ n \in 0..(BuffersNumber - 1)
        /\ \A j \in Slots : j # Ahead(q.brdptr, n) => m.buffers[j] = q.buffers[j]
    BY <1>1, <1>4, Zenon
  <2> QED
    BY <2>1, ContentsKept
<1>6. q.ptr # NoPtr /\ m.ptr # NoPtr
  BY <1>2, LenProperties DEF NoPtr
<1>7. Unsent(q) = all \o cur
  BY <1>6, Zenon DEF Unsent
<1>8. Unsent(m) = all \o (cur \o d)
  BY <1>2, <1>4, <1>5, <1>6, Zenon DEF Unsent
<1> HIDE DEF all, cur
<1>9. (all \o cur) \o d = all \o (cur \o d)
  BY <1>1, Joined, Zenon
<1> QED
  BY <1>7, <1>8, <1>9 DEF m

-----------------------------------------------------------------------------
(* The driver: its inductive invariant.                                    *)
IInv == TypeOK /\ DriverConsistent

(* The bytes of a transfer are a sequence of the length asked for.         *)
LEMMA NextBytesType ==
  ASSUME NEW m \in Nat, NEW k \in Nat
  PROVE  NextBytes(m, k) \in Seq(Nat) /\ Len(NextBytes(m, k)) = k
<1>1. NextBytes(m, k) \in [1..k -> Nat]
  BY DEF NextBytes
<1>2. NextBytes(m, k) \in Seq(Nat)
  BY <1>1, SeqDef
<1>3. DOMAIN NextBytes(m, k) = 1..k
  BY DEF NextBytes
<1> QED
  BY <1>2, <1>3, LenProperties

(* The state main() starts in satisfies the invariant.                     *)
LEMMA InitEstablishes == Init => IInv
<1> SUFFICES ASSUME Init PROVE IInv
  OBVIOUS
<1>1. 0 \in Slots
  BY BuffersAssumption DEF Slots
<1>2. TypeOK
  <2>1. << >> \in Seq(Nat)
    OBVIOUS
  <2> QED
    BY <1>1, <2>1, InitLemma DEF Init, TypeOK, UsbStates
<1>3. DriverConsistent
  BY InitLemma, LengthsAssumption DEF Init, DriverConsistent, BusConsistent, Configured, CallConsistent,
     HardwareOwnsItsBuffer, NoPanic
<1> QED
  BY <1>2, <1>3 DEF IInv

-----------------------------------------------------------------------------
(* A step that changes nothing but boot keeps the types.                   *)
LEMMA TypeFrame ==
  ASSUME TypeOK, boot' \in {"sduObjectInit", "sduStart", "usbStart", "running"},
         UNCHANGED <<usbVars, epVars, ibq, obq, threadVars, panic, history>>
  PROVE  TypeOK'
<1>1. /\ state' = state /\ saved_state' = saved_state /\ epc' = epc
      /\ receiving' = receiving /\ rxbuf' = rxbuf
      /\ transmitting' = transmitting /\ txbuf' = txbuf /\ txsize' = txsize
  BY DEF usbVars, epVars
<1>2. /\ pc' = pc /\ rdymsg' = rdymsg /\ count' = count /\ length' = length
      /\ sent' = sent /\ delivered' = delivered /\ written' = written /\ got' = got
  BY DEF threadVars, history
<1>3. ibq' = ibq /\ obq' = obq /\ panic' = panic
  OBVIOUS
<1>4. /\ state' \in UsbStates /\ saved_state' \in UsbStates /\ epc' \in BOOLEAN
      /\ receiving' \in BOOLEAN /\ rxbuf' \in Slots
      /\ transmitting' \in BOOLEAN /\ txbuf' \in Slots /\ txsize' \in Nat
  BY <1>1 DEF TypeOK
<1>5. /\ pc' \in {"none", "read", "reading", "waitIn", "wokenIn", "app", "write",
                 "waitOut", "wokenOut"}
      /\ rdymsg' \in {"OK", "RESET", "TIMEOUT"} /\ count' \in Nat /\ length' \in Nat
      /\ sent' \in Nat /\ delivered' \in Seq(Nat) /\ written' \in Nat /\ got' \in Seq(Nat)
  BY <1>2 DEF TypeOK
<1>6. ibq' \in Queues(Nat) /\ obq' \in Queues(Nat)
  BY <1>3 DEF TypeOK
<1>7. panic' \in {"none", "invalid_state", "already_initialized",
                  "buffers_queue_full", "buffers_queue_empty", "queue_is_empty"}
  BY <1>3 DEF TypeOK
<1> QED
  BY <1>4, <1>5, <1>6, <1>7 DEF TypeOK

(* The boot steps and the steps of the thread that leave the queues alone. *)
LEMMA BootStep == IInv /\ (SduStart \/ UsbStart \/ ThreadCreate) => IInv'
<1> SUFFICES ASSUME IInv, SduStart \/ UsbStart \/ ThreadCreate PROVE IInv'
  OBVIOUS
<1> USE DEF usbVars, epVars, threadVars, history
<1>1. CASE SduStart
  <2>1. TypeOK'
    BY <1>1, TypeFrame DEF SduStart, IInv
  <2>2. DriverConsistent'
    BY <1>1 DEF SduStart, IInv, DriverConsistent, BusConsistent, Configured,
       CallConsistent, HardwareOwnsItsBuffer, NoPanic
  <2> QED
    BY <2>1, <2>2 DEF IInv
<1>2. CASE UsbStart
  <2>1. state = "STOP"
    BY <1>2 DEF UsbStart, IInv, DriverConsistent, BusConsistent
  <2>2. TypeOK'
    BY <1>2, <2>1 DEF UsbStart, IInv, TypeOK, UsbStates
  <2>3. DriverConsistent'
    BY <1>2, <2>1 DEF UsbStart, IInv, DriverConsistent, BusConsistent, Configured,
       CallConsistent, HardwareOwnsItsBuffer, NoPanic
  <2> QED
    BY <2>2, <2>3 DEF IInv
<1>3. CASE ThreadCreate
  <2>1. TypeOK'
    BY <1>3 DEF ThreadCreate, IInv, TypeOK
  <2>2. DriverConsistent'
    BY <1>3 DEF ThreadCreate, IInv, DriverConsistent, BusConsistent, Configured,
       CallConsistent, HardwareOwnsItsBuffer, NoPanic
  <2> QED
    BY <2>1, <2>2 DEF IInv
<1> QED
  BY <1>1, <1>2, <1>3

(* The thread starts a call, waits, or gives up.                           *)
LEMMA WaitStep ==
  IInv /\ (\/ ReadBlock \/ ReadTimeout \/ ReadGivesUp \/ StartRead
           \/ WriteBlock \/ WriteGivesUp) => IInv'
<1> SUFFICES ASSUME IInv,
                    \/ ReadBlock \/ ReadTimeout \/ ReadGivesUp \/ StartRead
                    \/ WriteBlock \/ WriteGivesUp
             PROVE  IInv'
  OBVIOUS
<1> USE DEF usbVars, epVars, threadVars, history
<1>1. CASE ReadBlock
  <2>1. TypeOK'
    BY <1>1 DEF ReadBlock, InReadLoop, IInv, TypeOK
  <2>2. CallConsistent'
    BY <1>1, LengthsAssumption DEF ReadBlock, InReadLoop, IInv, TypeOK, DriverConsistent, CallConsistent
  <2>3. DriverConsistent'
    BY <1>1, <2>2 DEF ReadBlock, InReadLoop, IInv, DriverConsistent, BusConsistent,
       Configured, HardwareOwnsItsBuffer, NoPanic
  <2> QED
    BY <2>1, <2>3 DEF IInv
<1>2. CASE ReadGivesUp
  <2>1. TypeOK'
    BY <1>2 DEF ReadGivesUp, IInv, TypeOK
  <2>2. CallConsistent'
    BY <1>2, LengthsAssumption DEF ReadGivesUp, IInv, TypeOK, DriverConsistent, CallConsistent
  <2>3. DriverConsistent'
    BY <1>2, <2>2 DEF ReadGivesUp, IInv, DriverConsistent, BusConsistent,
       Configured, HardwareOwnsItsBuffer, NoPanic
  <2> QED
    BY <2>1, <2>3 DEF IInv
<1>3. CASE StartRead
  <2>1. TypeOK'
    BY <1>3 DEF StartRead, IInv, TypeOK
  <2>2. CallConsistent'
    BY <1>3, LengthsAssumption DEF StartRead, IInv, TypeOK, DriverConsistent, CallConsistent
  <2>3. DriverConsistent'
    BY <1>3, <2>2 DEF StartRead, IInv, DriverConsistent, BusConsistent,
       Configured, HardwareOwnsItsBuffer, NoPanic
  <2> QED
    BY <2>1, <2>3 DEF IInv
<1>4. CASE WriteBlock
  <2>1. TypeOK'
    BY <1>4 DEF WriteBlock, InWriteLoop, WriteReturns, IInv, TypeOK
  <2>2. CallConsistent'
    BY <1>4, LengthsAssumption DEF WriteBlock, InWriteLoop, WriteReturns, IInv, TypeOK, DriverConsistent, CallConsistent
  <2>3. DriverConsistent'
    BY <1>4, <2>2 DEF WriteBlock, InWriteLoop, WriteReturns, IInv, DriverConsistent, BusConsistent,
       Configured, HardwareOwnsItsBuffer, NoPanic
  <2> QED
    BY <2>1, <2>3 DEF IInv
<1>5. CASE WriteGivesUp
  <2>1. TypeOK'
    BY <1>5 DEF WriteGivesUp, WriteReturns, IInv, TypeOK
  <2>2. CallConsistent'
    BY <1>5, LengthsAssumption DEF WriteGivesUp, WriteReturns, IInv, TypeOK, DriverConsistent, CallConsistent
  <2>3. DriverConsistent'
    BY <1>5, <2>2 DEF WriteGivesUp, WriteReturns, IInv, DriverConsistent, BusConsistent,
       Configured, HardwareOwnsItsBuffer, NoPanic
  <2> QED
    BY <2>1, <2>3 DEF IInv
<1>6. CASE ReadTimeout
  <2>1. TypeOK'
    BY <1>6 DEF ReadTimeout, IInv, TypeOK
  <2>2. CallConsistent'
    BY <1>6 DEF ReadTimeout, IInv, TypeOK, DriverConsistent, CallConsistent
  <2>3. DriverConsistent'
    BY <1>6, <2>2 DEF ReadTimeout, IInv, DriverConsistent, BusConsistent,
       Configured, HardwareOwnsItsBuffer, NoPanic
  <2> QED
    BY <2>1, <2>3 DEF IInv
<1> QED
  BY <1>1, <1>2, <1>3, <1>4, <1>5, <1>6

(* The thread starts to write a reply of n bytes.                          *)
LEMMA StartWriteStep == ASSUME NEW n \in WriteLengths PROVE IInv /\ StartWrite(n) => IInv'
<1> SUFFICES ASSUME IInv, StartWrite(n) PROVE IInv'
  OBVIOUS
<1> USE DEF usbVars, epVars, threadVars, history
<1>1. n \in Nat /\ 0 < n
  BY LengthsAssumption
<1>2. TypeOK'
  BY <1>1 DEF StartWrite, IInv, TypeOK
<1>3. CallConsistent'
  BY <1>1 DEF StartWrite, IInv, TypeOK, DriverConsistent, CallConsistent
<1>4. DriverConsistent'
  BY <1>3 DEF StartWrite, IInv, DriverConsistent, BusConsistent, Configured,
     HardwareOwnsItsBuffer, NoPanic
<1> QED
  BY <1>2, <1>4 DEF IInv

-----------------------------------------------------------------------------
(* Waking the thread leaves its call as it was.                            *)
LEMMA WakeLemma ==
  ASSUME IInv, NEW msg \in {"OK", "RESET"},
         WakeAll(msg) \/ WakeReader(msg) \/ WakeWriter(msg),
         UNCHANGED <<boot, count, length>>
  PROVE  /\ CallConsistent'
         /\ pc' \in {"none", "read", "reading", "waitIn", "wokenIn", "app", "write",
                    "waitOut", "wokenOut"}
         /\ rdymsg' \in {"OK", "RESET", "TIMEOUT"}
<1>1. CASE WakeAll(msg)
  BY <1>1 DEF WakeAll, IInv, TypeOK, DriverConsistent, CallConsistent
<1>2. CASE WakeReader(msg)
  BY <1>2 DEF WakeReader, IInv, TypeOK, DriverConsistent, CallConsistent
<1>3. CASE WakeWriter(msg)
  BY <1>3 DEF WakeWriter, IInv, TypeOK, DriverConsistent, CallConsistent
<1> QED
  BY <1>1, <1>2, <1>3

(* The bus goes down and comes back: only the flags of the queues change.  *)
LEMMA FlagStep ==
  ASSUME IInv, ibq' \in {BqSuspend(ibq), BqResume(ibq)},
         obq' \in {BqSuspend(obq), BqResume(obq)},
         UNCHANGED <<rxbuf, txbuf, txsize>>,
         receiving' => receiving, transmitting' => transmitting
  PROVE  /\ ibq' \in Queues(Nat) /\ obq' \in Queues(Nat)
         /\ IbqConsistent(ibq)' /\ ObqConsistent(obq)'
         /\ HardwareOwnsItsBuffer'
<1>1. ibq \in Queues(Nat) /\ obq \in Queues(Nat)
  BY DEF IInv, TypeOK
<1>2. /\ ibq' \in Queues(Nat)
      /\ ibq'.bcounter = ibq.bcounter /\ ibq'.brdptr = ibq.brdptr
      /\ ibq'.bwrptr = ibq.bwrptr /\ ibq'.ptr = ibq.ptr /\ ibq'.buffers = ibq.buffers
  BY <1>1, FlagLemma
<1>3. /\ obq' \in Queues(Nat)
      /\ obq'.bcounter = obq.bcounter /\ obq'.brdptr = obq.brdptr
      /\ obq'.bwrptr = obq.bwrptr /\ obq'.ptr = obq.ptr /\ obq'.buffers = obq.buffers
  BY <1>1, FlagLemma
<1>4. IbqConsistent(ibq)' /\ ObqConsistent(obq)'
  BY <1>1, FlagKeeps DEF IInv, DriverConsistent
<1>5. HardwareOwnsItsBuffer'
  BY <1>2, <1>3 DEF IInv, DriverConsistent, HardwareOwnsItsBuffer, IbqIsFull, ObqIsEmpty
<1> QED
  BY <1>2, <1>3, <1>4, <1>5

(* Reset, address, deconfiguration, suspension and wakeup of the bus.      *)
LEMMA BusStep ==
  IInv /\ (BusReset \/ SetAddress \/ Unconfigure \/ BusSuspend \/ BusWakeup) => IInv'
<1> SUFFICES ASSUME IInv, BusReset \/ SetAddress \/ Unconfigure \/ BusSuspend \/ BusWakeup
             PROVE  IInv'
  OBVIOUS
<1> USE DEF usbVars, epVars, threadVars, history
<1>1. CASE BusReset
  <2>1. /\ ibq' \in Queues(Nat) /\ obq' \in Queues(Nat)
        /\ IbqConsistent(ibq)' /\ ObqConsistent(obq)' /\ HardwareOwnsItsBuffer'
    BY <1>1, FlagStep DEF BusReset, SuspendHook
  <2>2. /\ CallConsistent'
        /\ pc' \in {"none", "read", "reading", "waitIn", "wokenIn", "app", "write",
                   "waitOut", "wokenOut"}
        /\ rdymsg' \in {"OK", "RESET", "TIMEOUT"}
    BY <1>1, WakeLemma DEF BusReset, SuspendHook
  <2>3. TypeOK'
    BY <1>1, <2>1, <2>2 DEF BusReset, SuspendHook, IInv, TypeOK, UsbStates, DriverConsistent, BusConsistent
  <2>4. BusConsistent' /\ NoPanic'
    BY <1>1 DEF BusReset, SuspendHook, IInv, TypeOK, UsbStates, DriverConsistent, BusConsistent,
       Configured, NoPanic
  <2> QED
    BY <2>1, <2>2, <2>3, <2>4 DEF IInv, DriverConsistent
<1>2. CASE Unconfigure
  <2>1. /\ ibq' \in Queues(Nat) /\ obq' \in Queues(Nat)
        /\ IbqConsistent(ibq)' /\ ObqConsistent(obq)' /\ HardwareOwnsItsBuffer'
    BY <1>2, FlagStep DEF Unconfigure, SuspendHook
  <2>2. /\ CallConsistent'
        /\ pc' \in {"none", "read", "reading", "waitIn", "wokenIn", "app", "write",
                   "waitOut", "wokenOut"}
        /\ rdymsg' \in {"OK", "RESET", "TIMEOUT"}
    BY <1>2, WakeLemma DEF Unconfigure, SuspendHook
  <2>3. TypeOK'
    BY <1>2, <2>1, <2>2 DEF Unconfigure, SuspendHook, IInv, TypeOK, UsbStates, DriverConsistent, BusConsistent
  <2>4. BusConsistent' /\ NoPanic'
    BY <1>2 DEF Unconfigure, SuspendHook, IInv, TypeOK, UsbStates, DriverConsistent, BusConsistent,
       Configured, NoPanic
  <2> QED
    BY <2>1, <2>2, <2>3, <2>4 DEF IInv, DriverConsistent
<1>3. CASE BusSuspend
  <2>1. /\ ibq' \in Queues(Nat) /\ obq' \in Queues(Nat)
        /\ IbqConsistent(ibq)' /\ ObqConsistent(obq)' /\ HardwareOwnsItsBuffer'
    BY <1>3, FlagStep DEF BusSuspend, SuspendHook
  <2>2. /\ CallConsistent'
        /\ pc' \in {"none", "read", "reading", "waitIn", "wokenIn", "app", "write",
                   "waitOut", "wokenOut"}
        /\ rdymsg' \in {"OK", "RESET", "TIMEOUT"}
    BY <1>3, WakeLemma DEF BusSuspend, SuspendHook
  <2>3. TypeOK'
    BY <1>3, <2>1, <2>2 DEF BusSuspend, SuspendHook, IInv, TypeOK, UsbStates, DriverConsistent, BusConsistent
  <2>4. BusConsistent' /\ NoPanic'
    BY <1>3 DEF BusSuspend, SuspendHook, IInv, TypeOK, UsbStates, DriverConsistent, BusConsistent,
       Configured, NoPanic
  <2> QED
    BY <2>1, <2>2, <2>3, <2>4 DEF IInv, DriverConsistent
<1>4. CASE BusWakeup
  <2>1. /\ ibq' \in Queues(Nat) /\ obq' \in Queues(Nat)
        /\ IbqConsistent(ibq)' /\ ObqConsistent(obq)' /\ HardwareOwnsItsBuffer'
    BY <1>4, FlagStep DEF BusWakeup
  <2>2. CallConsistent' /\ UNCHANGED <<pc, rdymsg>>
    BY <1>4 DEF BusWakeup, IInv, DriverConsistent, CallConsistent
  <2>3. TypeOK'
    BY <1>4, <2>1, <2>2 DEF BusWakeup, IInv, TypeOK, UsbStates, DriverConsistent, BusConsistent
  <2>4. BusConsistent' /\ NoPanic'
    BY <1>4 DEF BusWakeup, IInv, TypeOK, UsbStates, DriverConsistent, BusConsistent,
       Configured, NoPanic
  <2> QED
    BY <2>1, <2>2, <2>3, <2>4 DEF IInv, DriverConsistent
<1>5. CASE SetAddress
  <2>1. TypeOK'
    BY <1>5 DEF SetAddress, IInv, TypeOK, UsbStates
  <2>2. DriverConsistent'
    BY <1>5 DEF SetAddress, IInv, DriverConsistent, BusConsistent, Configured,
       CallConsistent, HardwareOwnsItsBuffer, NoPanic
  <2> QED
    BY <2>1, <2>2 DEF IInv
<1> QED
  BY <1>1, <1>2, <1>3, <1>4, <1>5

(* SET_CONFIGURATION starts from clean queues and endpoints.               *)
LEMMA ConfigureStep == IInv /\ Configure => IInv'
<1> SUFFICES ASSUME IInv, Configure PROVE IInv'
  OBVIOUS
<1> DEFINE q == BqResume(IbqReset(ibq))
<1>1. /\ ibq \in Queues(Nat) /\ \A i \in Slots : Len(ibq.buffers[i]) <= BuffersSize
      /\ obq \in Queues(Nat) /\ \A i \in Slots : Len(obq.buffers[i]) <= BuffersSize
  BY DEF IInv, TypeOK, DriverConsistent, IbqConsistent, ObqConsistent
<1>2. IbqReset(ibq) \in Queues(Nat) /\ IbqConsistent(IbqReset(ibq)) /\ IbqReset(ibq).bcounter = 0
  BY <1>1, IbqResetLemma
<1>3. q \in Queues(Nat) /\ IbqConsistent(q) /\ q.bcounter = 0
  BY <1>2, FlagLemma, FlagKeeps
<1>4. obq' \in Queues(Nat) /\ ObqConsistent(obq')
  BY <1>1, ObqResetLemma, FlagLemma, FlagKeeps DEF Configure
<1>5. state = "SELECTED" => ~epc /\ ~receiving /\ ~transmitting
  BY DEF IInv, DriverConsistent, BusConsistent, Configured
<1>6. state = "SELECTED" \/ state = "ACTIVE"
  BY DEF Configure
<1>7. ibq' = q /\ panic' = "none" /\ state' = "ACTIVE" /\ epc' = TRUE
  BY <1>5, <1>6 DEF Configure, IInv, DriverConsistent, NoPanic
<1> HIDE DEF q
<1>8. /\ ~transmitting' /\ transmitting' \in BOOLEAN
      /\ receiving' \in BOOLEAN /\ (receiving' => rxbuf' = q.bwrptr)
      /\ rxbuf' \in {q.bwrptr, rxbuf}
  BY <1>5, <1>6 DEF Configure, StartReceive, CanReceive, q
<1>9. ~IbqIsFull(q)
  BY <1>3 DEF IbqIsFull
<1>10. /\ CallConsistent'
       /\ pc' \in {"none", "read", "reading", "waitIn", "wokenIn", "app", "write",
                   "waitOut", "wokenOut"}
       /\ rdymsg' \in {"OK", "RESET", "TIMEOUT"}
  BY WakeLemma DEF Configure
<1>11. /\ boot' = boot /\ saved_state' = saved_state /\ txbuf' = txbuf /\ txsize' = 0
       /\ sent' = 0 /\ written' = 0 /\ delivered' = << >> /\ got' = << >>
       /\ count' = count /\ length' = length
  BY DEF Configure
<1>12. << >> \in Seq(Nat)
  OBVIOUS
<1>13. rxbuf' \in Slots
  BY <1>3, <1>8, QueueFields DEF IInv, TypeOK
<1>14. TypeOK'
  BY <1>3, <1>4, <1>7, <1>8, <1>10, <1>11, <1>12, <1>13
  DEF IInv, TypeOK, UsbStates
<1>15. HardwareOwnsItsBuffer'
  BY <1>7, <1>8, <1>9 DEF HardwareOwnsItsBuffer
<1>16. BusConsistent' /\ NoPanic'
  BY <1>6, <1>7, <1>11 DEF IInv, DriverConsistent, BusConsistent, Configured, NoPanic
<1>17. DriverConsistent'
  BY <1>3, <1>4, <1>7, <1>10, <1>15, <1>16 DEF DriverConsistent
<1> QED
  BY <1>14, <1>17 DEF IInv

-----------------------------------------------------------------------------
(* A transfer ends in a buffer the thread has nothing to do with.          *)
LEMMA SduDataReceivedStep ==
  ASSUME NEW k \in 0..BuffersSize PROVE IInv /\ SduDataReceived(k) => IInv'
<1> SUFFICES ASSUME IInv, SduDataReceived(k) PROVE IInv'
  OBVIOUS
<1> USE DEF usbVars
<1> DEFINE filled == [ibq EXCEPT !.buffers[rxbuf] = NextBytes(sent, k)]
           q      == IF k > 0 THEN IbqPostFullBuffer(filled) ELSE ibq
<1>1. ibq \in Queues(Nat) /\ IbqConsistent(ibq) /\ rxbuf = ibq.bwrptr /\ ~IbqIsFull(ibq)
  BY DEF IInv, TypeOK, DriverConsistent, HardwareOwnsItsBuffer, SduDataReceived
<1>2. k \in Nat /\ sent \in Nat
  <2>1. k \in Nat
    BY BuffersAssumption
  <2>2. sent \in Nat
    BY DEF IInv, TypeOK
  <2> QED
    BY <2>1, <2>2
<1>3. NextBytes(sent, k) \in Seq(Nat) /\ Len(NextBytes(sent, k)) <= BuffersSize
  BY <1>2, NextBytesType, BuffersAssumption
<1>4. q \in Queues(Nat) /\ IbqConsistent(q)
  BY <1>1, <1>3, IbqPostLemma
<1>5. ibq' = q /\ panic' = "none"
  BY <1>1 DEF SduDataReceived, IInv, DriverConsistent, NoPanic
<1> HIDE DEF filled, q
<1>6. /\ receiving' \in BOOLEAN /\ (receiving' => rxbuf' = q.bwrptr /\ ~IbqIsFull(q))
      /\ rxbuf' \in {q.bwrptr, rxbuf}
  BY DEF SduDataReceived, StartReceive, CanReceive, q, filled
<1>7. /\ CallConsistent'
      /\ pc' \in {"none", "read", "reading", "waitIn", "wokenIn", "app", "write",
                  "waitOut", "wokenOut"}
      /\ rdymsg' \in {"OK", "RESET", "TIMEOUT"}
  <2>1. CASE k > 0
    <3>1. WakeReader("OK") /\ UNCHANGED <<boot, count, length>>
      BY <2>1 DEF SduDataReceived
    <3> QED
      BY <3>1, WakeLemma
  <2>2. CASE ~(k > 0)
    BY <2>2 DEF SduDataReceived, IInv, TypeOK, DriverConsistent, CallConsistent
  <2> QED
    BY <2>1, <2>2
<1>8. rxbuf' \in Slots
  BY <1>4, <1>6, QueueFields DEF IInv, TypeOK
<1>9. sent' \in Nat
  <2>1. sent' = sent + k
    BY DEF SduDataReceived
  <2> QED
    BY <2>1, <1>2
<1>10. TypeOK'
  BY <1>4, <1>5, <1>6, <1>7, <1>8, <1>9 DEF SduDataReceived, IInv, TypeOK
<1>11. HardwareOwnsItsBuffer'
  BY <1>5, <1>6 DEF SduDataReceived, IInv, DriverConsistent, HardwareOwnsItsBuffer
<1>12. BusConsistent' /\ NoPanic'
  BY <1>5 DEF SduDataReceived, IInv, DriverConsistent, BusConsistent, Configured, NoPanic
<1>13. ObqConsistent(obq)'
  BY DEF SduDataReceived, IInv, DriverConsistent
<1>14. DriverConsistent'
  BY <1>4, <1>5, <1>7, <1>11, <1>12, <1>13 DEF DriverConsistent
<1> QED
  BY <1>10, <1>14 DEF IInv

(* The endpoint has sent the oldest full buffer, not one in the thread's   *)
(* hands, and goes on with the next.                                       *)
LEMMA SduDataTransmittedStep == IInv /\ SduDataTransmitted => IInv'
<1> SUFFICES ASSUME IInv, SduDataTransmitted PROVE IInv'
  OBVIOUS
<1> USE DEF usbVars
<1> DEFINE q == IF txsize > 0 THEN ObqReleaseEmptyBuffer(obq) ELSE obq
<1>1. /\ obq \in Queues(Nat) /\ ObqConsistent(obq) /\ txsize \in Nat /\ transmitting
      /\ txbuf \in Slots /\ got \in Seq(Nat)
  BY DEF IInv, TypeOK, DriverConsistent, SduDataTransmitted
<1>2. txsize > 0 => ~ObqIsEmpty(obq) /\ txbuf = obq.brdptr
  BY <1>1 DEF IInv, DriverConsistent, HardwareOwnsItsBuffer
<1>3. /\ q \in Queues(Nat) /\ ObqConsistent(q)
      /\ q.bwrptr = obq.bwrptr /\ q.ptr = obq.ptr /\ q.buffers = obq.buffers
  BY <1>1, <1>2, ObqReleaseLemma
<1>4. obq' = q /\ panic' = "none"
  BY <1>2 DEF SduDataTransmitted, IInv, DriverConsistent, NoPanic
<1>5. \/ ~ObqIsEmpty(q) /\ StartTransmit(q)
      \/ transmitting' = TRUE /\ txsize' = 0 /\ txbuf' = txbuf
      \/ transmitting' = FALSE /\ txsize' = txsize /\ txbuf' = txbuf
  BY DEF SduDataTransmitted
<1> HIDE DEF q
<1>6. q.ptr # NoPtr /\ ~ObqIsEmpty(q) => q.brdptr # q.bwrptr
  BY <1>3 DEF ObqConsistent, ObqIsEmpty
<1>7. q.brdptr \in Slots /\ Len(q.buffers[q.brdptr]) \in Nat
  <2>1. q.brdptr \in Slots /\ q.buffers[q.brdptr] \in Seq(Nat)
    BY <1>3, QueueFields
  <2> QED
    BY <2>1, LenProperties
<1>8. /\ transmitting' \in BOOLEAN /\ txbuf' \in Slots /\ txsize' \in Nat
      /\ transmitting' /\ txsize' > 0 =>
           /\ txbuf' = q.brdptr
           /\ ~ObqIsEmpty(q)
           /\ txsize' = Len(q.buffers[txbuf'])
           /\ q.ptr # NoPtr => txbuf' # q.bwrptr
  <2>1. CASE ~ObqIsEmpty(q) /\ StartTransmit(q)
    BY <2>1, <1>6, <1>7 DEF StartTransmit
  <2>2. CASE transmitting' = TRUE /\ txsize' = 0 /\ txbuf' = txbuf
    BY <2>2, <1>1
  <2>3. CASE transmitting' = FALSE /\ txsize' = txsize /\ txbuf' = txbuf
    BY <2>3, <1>1
  <2> QED
    BY <1>5, <2>1, <2>2, <2>3
<1>9. /\ CallConsistent'
      /\ pc' \in {"none", "read", "reading", "waitIn", "wokenIn", "app", "write",
                  "waitOut", "wokenOut"}
      /\ rdymsg' \in {"OK", "RESET", "TIMEOUT"}
  <2>1. CASE txsize > 0
    <3>1. WakeWriter("OK") /\ UNCHANGED <<boot, count, length>>
      BY <2>1 DEF SduDataTransmitted
    <3> QED
      BY <3>1, WakeLemma
  <2>2. CASE ~(txsize > 0)
    BY <2>2 DEF SduDataTransmitted, IInv, TypeOK, DriverConsistent, CallConsistent
  <2> QED
    BY <2>1, <2>2
<1>10. got' \in Seq(Nat)
  <2>1. obq.buffers[txbuf] \in Seq(Nat)
    BY <1>1, QueueFields
  <2>2. got \o obq.buffers[txbuf] \in Seq(Nat)
    BY <1>1, <2>1, ConcatProperties
  <2> QED
    BY <1>1, <2>2 DEF SduDataTransmitted
<1>11. TypeOK'
  BY <1>3, <1>4, <1>8, <1>9, <1>10 DEF SduDataTransmitted, IInv, TypeOK
<1>12. HardwareOwnsItsBuffer'
  BY <1>4, <1>8 DEF SduDataTransmitted, IInv, DriverConsistent, HardwareOwnsItsBuffer
<1>13. BusConsistent' /\ NoPanic'
  BY <1>4 DEF SduDataTransmitted, IInv, DriverConsistent, BusConsistent, Configured, NoPanic
<1>14. IbqConsistent(ibq)'
  BY DEF SduDataTransmitted, IInv, DriverConsistent
<1>15. DriverConsistent'
  BY <1>3, <1>4, <1>9, <1>12, <1>13, <1>14 DEF DriverConsistent
<1> QED
  BY <1>11, <1>15 DEF IInv

(* The start of frame takes the buffer the thread was filling from it.     *)
LEMMA SduSOFHookStep == IInv /\ SduSOFHook => IInv'
<1> SUFFICES ASSUME IInv, SduSOFHook PROVE IInv'
  OBVIOUS
<1> USE DEF usbVars, threadVars, history
<1> DEFINE q == ObqPostFullBuffer(obq)
<1>1. obq \in Queues(Nat) /\ ObqConsistent(obq) /\ ~ObqIsFull(obq)
  BY DEF IInv, TypeOK, DriverConsistent, SduSOFHook, ObqCanFlush, ObqIsEmpty, ObqIsFull
<1>2. q \in Queues(Nat) /\ ObqConsistent(q) /\ q.ptr = NoPtr /\ ~ObqIsEmpty(q)
  BY <1>1, ObqPostLemma
<1>3. obq' = q /\ panic' = "none" /\ StartTransmit(q)
  BY <1>2 DEF SduSOFHook, IInv, DriverConsistent, NoPanic
<1> HIDE DEF q
<1>4. q.brdptr \in Slots /\ Len(q.buffers[q.brdptr]) \in Nat
  <2>1. q.brdptr \in Slots /\ q.buffers[q.brdptr] \in Seq(Nat)
    BY <1>2, QueueFields
  <2> QED
    BY <2>1, LenProperties
<1>5. TypeOK'
  BY <1>2, <1>3, <1>4 DEF SduSOFHook, StartTransmit, IInv, TypeOK
<1>6. HardwareOwnsItsBuffer'
  BY <1>2, <1>3 DEF SduSOFHook, StartTransmit, IInv, DriverConsistent, HardwareOwnsItsBuffer
<1>7. BusConsistent' /\ NoPanic' /\ CallConsistent' /\ IbqConsistent(ibq)'
  BY <1>3 DEF SduSOFHook, IInv, DriverConsistent, BusConsistent, Configured, NoPanic,
     CallConsistent
<1>8. DriverConsistent'
  BY <1>2, <1>3, <1>6, <1>7 DEF DriverConsistent
<1> QED
  BY <1>5, <1>8 DEF IInv

-----------------------------------------------------------------------------
(* The thread reads from a full buffer, frees it when it is used up, and   *)
(* then arms the endpoint with a buffer it has left.                       *)
LEMMA ReadChunkStep == IInv /\ ReadChunk => IInv'
<1> SUFFICES ASSUME IInv, ReadChunk PROVE IInv'
  OBVIOUS
<1> USE DEF usbVars
<1> DEFINE cur  == IbqCurrent(ibq)
           data == cur.buffers[cur.brdptr]
           size == Min2(Min2(Len(data) - cur.ptr, ReadLength - count), ChunkSize)
           q    == [cur EXCEPT !.ptr = @ + size]
           used == q.ptr >= Len(data)
           free == IbqReleaseEmptyBuffer(q)
<1>1. /\ ibq \in Queues(Nat) /\ IbqConsistent(ibq)
      /\ receiving => rxbuf = ibq.bwrptr /\ ~IbqIsFull(ibq)
  BY DEF IInv, TypeOK, DriverConsistent, HardwareOwnsItsBuffer
<1>2. /\ cur \in Queues(Nat) /\ IbqConsistent(cur) /\ cur.ptr \in Nat
      /\ cur.bcounter = ibq.bcounter /\ cur.brdptr = ibq.brdptr /\ cur.bwrptr = ibq.bwrptr
  BY <1>1, IbqCurrentLemma DEF ReadChunk, NoInput
<1>3. count \in Nat /\ count < ReadLength /\ ReadLength \in Nat /\ ChunkSize \in Nat
  BY LengthsAssumption
  DEF ReadChunk, InReadLoop, IInv, TypeOK, DriverConsistent, CallConsistent
<1>4. /\ ibq' = IF used THEN free ELSE q
      /\ panic' = IF used /\ IbqIsEmpty(q) THEN "buffers_queue_empty" ELSE panic
      /\ IF used THEN StartReceive(state, receiving, free) ELSE UNCHANGED <<receiving, rxbuf>>
      /\ count' = count + size
      /\ pc' = IF count + size >= ReadLength THEN "app" ELSE "reading"
      /\ delivered' = delivered \o SubSeq(data, cur.ptr + 1, cur.ptr + size)
  BY DEF ReadChunk
<1> HIDE DEF cur
<1>5. data \in Seq(Nat) /\ Len(data) \in Nat /\ cur.ptr <= Len(data)
  <2>1. data \in Seq(Nat)
    BY <1>2, QueueFields
  <2>2. Len(data) \in Nat
    BY <2>1, LenProperties
  <2>3. cur.ptr # NoPtr
    BY <1>2 DEF NoPtr
  <2> QED
    BY <2>1, <2>2, <2>3, <1>2 DEF IbqConsistent
<1>6. size \in Nat /\ cur.ptr + size <= Len(data)
  <2> HIDE DEF data
  <2> QED
    BY <1>2, <1>3, <1>5 DEF Min2
<1> HIDE DEF size
<1>7. /\ q \in Queues(Nat) /\ IbqConsistent(q) /\ ~IbqIsEmpty(q)
      /\ q.bcounter = cur.bcounter /\ q.bwrptr = cur.bwrptr /\ q.brdptr = cur.brdptr
  BY <1>2, <1>6, IbqMoveLemma
<1> HIDE DEF q
<1>8. free \in Queues(Nat) /\ IbqConsistent(free) /\ free.bwrptr = q.bwrptr /\ ~IbqIsFull(free)
  BY <1>7, IbqReleaseLemma
<1> HIDE DEF free, used
<1>9. panic' = "none"
  BY <1>4, <1>7 DEF IInv, DriverConsistent, NoPanic
<1>10. ibq' \in Queues(Nat) /\ IbqConsistent(ibq')
  BY <1>4, <1>7, <1>8
<1>11. /\ receiving' \in BOOLEAN /\ rxbuf' \in Slots
       /\ receiving' => rxbuf' = ibq'.bwrptr /\ ~IbqIsFull(ibq')
  <2>1. CASE used
    <3>1. ibq' = free /\ StartReceive(state, receiving, free)
      BY <1>4, <2>1
    <3>2. free.bwrptr \in Slots
      BY <1>8, QueueFields
    <3> QED
      BY <1>1, <1>2, <1>7, <1>8, <3>1, <3>2 DEF StartReceive, CanReceive, IInv, TypeOK
  <2>2. CASE ~used
    BY <1>1, <1>2, <1>4, <1>7, <2>2 DEF IInv, TypeOK, IbqIsFull
  <2> QED
    BY <2>1, <2>2
<1>12. delivered' \in Seq(Nat)
  <2>1. SubSeq(data, cur.ptr + 1, cur.ptr + size) \in Seq(Nat)
    <3> HIDE DEF data
    <3> QED
      BY <1>2, <1>5, <1>6, SubSeqProperties
  <2> QED
    BY <2>1, <1>4, ConcatProperties DEF IInv, TypeOK
<1>13. /\ count' = count + size
       /\ pc' = "app" \/ (pc' = "reading" /\ ~(count + size >= ReadLength))
  BY <1>4
<1>14. count' \in Nat /\ CallConsistent'
  <2>1. count + size \in Nat
    BY <1>3, <1>6
  <2>2. pc' \in {"app", "reading"} /\ (pc' = "reading" => count' < ReadLength)
    BY <2>1, <1>3, <1>13
  <2>3. boot = "running" /\ boot' = boot
    BY DEF ReadChunk, InReadLoop, IInv, DriverConsistent, CallConsistent
  <2> QED
    BY <2>1, <2>2, <2>3, <1>13 DEF CallConsistent
<1>15. TypeOK'
  BY <1>9, <1>10, <1>11, <1>12, <1>13, <1>14 DEF ReadChunk, IInv, TypeOK
<1>16. BusConsistent'
  <2>1. receiving' => receiving \/ state = "ACTIVE"
    BY <1>4 DEF StartReceive, CanReceive, IInv, TypeOK
  <2> QED
    BY <2>1 DEF ReadChunk, IInv, TypeOK, DriverConsistent, BusConsistent, Configured
<1>17. HardwareOwnsItsBuffer'
  BY <1>11 DEF ReadChunk, IInv, DriverConsistent, HardwareOwnsItsBuffer
<1>18. ObqConsistent(obq)' /\ NoPanic'
  BY <1>9 DEF ReadChunk, IInv, DriverConsistent, NoPanic
<1>19. DriverConsistent'
  BY <1>10, <1>14, <1>16, <1>17, <1>18 DEF DriverConsistent
<1> QED
  BY <1>15, <1>19 DEF IInv

(* The thread fills an empty buffer, posts it when it is full, and then    *)
(* starts the endpoint if it is idle; a buffer being sent is untouched.    *)
LEMMA WriteChunkStep == IInv /\ WriteChunk => IInv'
<1> SUFFICES ASSUME IInv, WriteChunk PROVE IInv'
  OBVIOUS
<1> USE DEF usbVars
<1> DEFINE cur  == ObqCurrent(obq)
           size == Min2(Min2(BuffersSize - cur.ptr, length - count), ChunkSize)
           q    == ObqCopy(cur, NextBytes(written, size))
           full == q.ptr >= BuffersSize
           post == ObqPostFullBuffer(q)
<1>1. /\ obq \in Queues(Nat) /\ ObqConsistent(obq) /\ txsize \in Nat /\ txbuf \in Slots
      /\ written \in Nat /\ transmitting \in BOOLEAN
  BY DEF IInv, TypeOK, DriverConsistent
<1>2. /\ cur \in Queues(Nat) /\ ObqConsistent(cur)
      /\ cur.ptr \in Nat /\ cur.ptr <= BuffersSize /\ ~ObqIsFull(cur)
      /\ cur.bcounter = obq.bcounter /\ cur.brdptr = obq.brdptr /\ cur.bwrptr = obq.bwrptr
      /\ \A i \in Slots : i # obq.bwrptr => cur.buffers[i] = obq.buffers[i]
  BY <1>1, ObqCurrentLemma DEF WriteChunk, NoRoom
<1>3. /\ count \in Nat /\ length \in Nat /\ count < length /\ ChunkSize \in Nat
      /\ BuffersSize \in Nat
  BY LengthsAssumption, BuffersAssumption
  DEF WriteChunk, InWriteLoop, IInv, TypeOK, DriverConsistent, CallConsistent
<1>4. /\ obq' = IF full THEN post ELSE q
      /\ panic' = IF full /\ ObqIsFull(q) THEN "buffers_queue_full" ELSE panic
      /\ IF full THEN ObNotify(post) ELSE UNCHANGED <<transmitting, txbuf, txsize>>
      /\ IF count + size >= length THEN WriteReturns
                                   ELSE pc' = "write" /\ count' = count + size
      /\ written' = written + size
  BY DEF WriteChunk
<1> HIDE DEF cur
<1>5. size \in Nat /\ cur.ptr + size <= BuffersSize
  BY <1>2, <1>3 DEF Min2
<1> HIDE DEF size
<1>6. NextBytes(written, size) \in Seq(Nat) /\ Len(NextBytes(written, size)) = size
  BY <1>1, <1>5, NextBytesType
<1>7. /\ q \in Queues(Nat) /\ ObqConsistent(q) /\ ~ObqIsFull(q)
      /\ q.bcounter = obq.bcounter /\ q.brdptr = obq.brdptr /\ q.bwrptr = obq.bwrptr
      /\ \A i \in Slots : i # obq.bwrptr => q.buffers[i] = obq.buffers[i]
  <2> DEFINE bytes == NextBytes(written, size)
  <2>1. bytes \in Seq(Nat) /\ cur.ptr + Len(bytes) <= BuffersSize
    BY <1>5, <1>6
  <2> HIDE DEF bytes
  <2>2. /\ q \in Queues(Nat) /\ ObqConsistent(q) /\ ~ObqIsFull(q)
        /\ q.bcounter = cur.bcounter /\ q.brdptr = cur.brdptr /\ q.bwrptr = cur.bwrptr
        /\ \A i \in Slots : i # cur.bwrptr => q.buffers[i] = cur.buffers[i]
    BY <1>2, <2>1, ObqCopyLemma DEF bytes
  <2> QED
    BY <1>2, <2>2
<1> HIDE DEF q
<1>8. /\ post \in Queues(Nat) /\ ObqConsistent(post) /\ ~ObqIsEmpty(post)
      /\ post.ptr = NoPtr /\ post.brdptr = q.brdptr /\ post.buffers = q.buffers
  BY <1>7, ObqPostLemma
<1> HIDE DEF post, full
<1>9. panic' = "none"
  BY <1>4, <1>7 DEF IInv, DriverConsistent, NoPanic
<1>10. obq' \in Queues(Nat) /\ ObqConsistent(obq')
  BY <1>4, <1>7, <1>8
<1>11. transmitting /\ txsize > 0 =>
         /\ txbuf = obq.brdptr
         /\ txbuf # obq.bwrptr
         /\ txsize = Len(q.buffers[txbuf])
  BY <1>1, <1>7 DEF IInv, DriverConsistent, HardwareOwnsItsBuffer, ObqIsEmpty, ObqIsFull
<1>12. /\ transmitting' \in BOOLEAN /\ txbuf' \in Slots /\ txsize' \in Nat
       /\ transmitting' /\ txsize' > 0 =>
            /\ txbuf' = obq'.brdptr
            /\ ~ObqIsEmpty(obq')
            /\ txsize' = Len(obq'.buffers[txbuf'])
            /\ obq'.ptr # NoPtr => txbuf' # obq'.bwrptr
  <2>1. CASE full
    <3>1. obq' = post /\ ObNotify(post)
      BY <1>4, <2>1
    <3>2. post.brdptr \in Slots /\ Len(post.buffers[post.brdptr]) \in Nat
      BY <1>8, QueueFields, LenProperties
    <3>3. CASE StartTransmit(post)
      BY <3>1, <3>2, <3>3, <1>8 DEF StartTransmit
    <3>4. CASE UNCHANGED <<transmitting, txbuf, txsize>>
      BY <3>1, <3>4, <1>1, <1>7, <1>8, <1>11
    <3> QED
      BY <3>1, <3>3, <3>4 DEF ObNotify
  <2>2. CASE ~full
    <3>1. obq' = q /\ UNCHANGED <<transmitting, txbuf, txsize>>
      BY <1>4, <2>2
    <3>2. transmitting /\ txsize > 0 => ~ObqIsEmpty(q)
      BY <1>7, <1>11 DEF ObqIsEmpty
    <3> QED
      BY <3>1, <3>2, <1>1, <1>7, <1>11
  <2> QED
    BY <2>1, <2>2
<1>13. written' \in Nat
  <2>1. written' = written + size
    BY <1>4
  <2> QED
    BY <2>1, <1>1, <1>5
<1>14. pc' \in {"read", "write"} /\ count' \in Nat /\ CallConsistent'
  <2>1. boot = "running" /\ boot' = boot /\ length' = length
    BY DEF WriteChunk, InWriteLoop, IInv, DriverConsistent, CallConsistent
  <2>2. count + size \in Nat
    BY <1>3, <1>5
  <2>3. CASE count + size >= length
    <3>1. pc' = "read" /\ count' = 0
      BY <1>4, <2>3 DEF WriteReturns
    <3>2. 0 < ReadLength
      BY LengthsAssumption
    <3> QED
      BY <2>1, <3>1, <3>2 DEF CallConsistent
  <2>4. CASE ~(count + size >= length)
    <3>1. pc' = "write" /\ count' = count + size
      BY <1>4, <2>4
    <3>2. count + size < length
      BY <1>3, <2>2, <2>4
    <3> QED
      BY <2>1, <2>2, <3>1, <3>2 DEF CallConsistent
  <2> QED
    BY <2>3, <2>4
<1>15. TypeOK'
  BY <1>9, <1>10, <1>12, <1>13, <1>14 DEF WriteChunk, IInv, TypeOK
<1>16. BusConsistent'
  <2>1. transmitting' => transmitting \/ state = "ACTIVE"
    BY <1>4 DEF ObNotify
  <2> QED
    BY <2>1 DEF WriteChunk, IInv, TypeOK, DriverConsistent, BusConsistent, Configured
<1>17. HardwareOwnsItsBuffer'
  BY <1>12 DEF WriteChunk, IInv, DriverConsistent, HardwareOwnsItsBuffer
<1>18. IbqConsistent(ibq)' /\ NoPanic'
  BY <1>9 DEF WriteChunk, IInv, DriverConsistent, NoPanic
<1>19. DriverConsistent'
  BY <1>10, <1>14, <1>16, <1>17, <1>18 DEF DriverConsistent
<1> QED
  BY <1>15, <1>19 DEF IInv

-----------------------------------------------------------------------------
(* The invariant is inductive: every step of the bus, of the interrupt and *)
(* of the thread preserves it.                                             *)
LEMMA NextPreserves == IInv /\ [Next]_vars => IInv'
<1> SUFFICES ASSUME IInv, [Next]_vars PROVE IInv'
  OBVIOUS
<1>1. CASE UNCHANGED vars
  <2>1. TypeOK'
    <3>1. TypeOK
      BY DEF IInv
    <3>2. boot' \in {"sduObjectInit", "sduStart", "usbStart", "running"}
      BY <1>1, <3>1 DEF vars, TypeOK
    <3>3. UNCHANGED <<usbVars, epVars, ibq, obq, threadVars, panic, history>>
      BY <1>1 DEF vars, usbVars, epVars, threadVars, history
    <3> QED
      BY <3>1, <3>2, <3>3, TypeFrame
  <2>2. DriverConsistent'
    BY <1>1 DEF vars, IInv, DriverConsistent, BusConsistent, Configured, CallConsistent,
       HardwareOwnsItsBuffer, NoPanic
  <2> QED
    BY <2>1, <2>2 DEF IInv
<1>2. CASE Next
  BY <1>2, BootStep, WaitStep, StartWriteStep, BusStep, ConfigureStep,
     SduDataReceivedStep, SduDataTransmittedStep, SduSOFHookStep, ReadChunkStep,
     WriteChunkStep
  DEF Next
<1> QED
  BY <1>1, <1>2

(* The inductive invariant holds in every reachable state.                 *)
THEOREM Inductive == Spec => []IInv
<1>1. Init => IInv
  BY InitEstablishes
<1>2. IInv /\ [Next]_vars => IInv'
  BY NextPreserves
<1> QED
  BY <1>1, <1>2, PTL DEF Spec

(***************************************************************************)
(* Whatever the bus does between two critical sections of the thread, the  *)
(* driver's bookkeeping stays consistent.                                  *)
(***************************************************************************)
THEOREM DriverIsConsistent == Spec => []DriverConsistent
<1>1. IInv => DriverConsistent
  BY DEF IInv
<1> QED
  BY <1>1, Inductive, PTL

(* The type invariant.                                                     *)
THEOREM TypeCorrect == Spec => []TypeOK
<1>1. IInv => TypeOK
  BY DEF IInv
<1> QED
  BY <1>1, Inductive, PTL

(***************************************************************************)
(* No osalDbgAssert of the driver ever fails: neither in the queue         *)
(* functions nor in usbStart and usbInitEndpointI.                         *)
(***************************************************************************)
THEOREM AssertionsHold == Spec => []NoPanic
<1>1. IInv => NoPanic
  BY DEF IInv, DriverConsistent
<1> QED
  BY <1>1, Inductive, PTL

(***************************************************************************)
(* The USB hardware and the thread never work on the same buffer.          *)
(***************************************************************************)
THEOREM BuffersAreSeparate == Spec => []HardwareOwnsItsBuffer
<1>1. IInv => HardwareOwnsItsBuffer
  BY DEF IInv, DriverConsistent
<1> QED
  BY <1>1, Inductive, PTL

(***************************************************************************)
(* usbStartReceiveI and usbStartTransmitI dereference epc[1]: whenever     *)
(* they may be called, and while a transfer runs, it is set up.            *)
(***************************************************************************)
EndpointsSetUp == state = "ACTIVE" \/ receiving \/ transmitting => epc

(***************************************************************************)
(* A transfer is only ever started on an endpoint that is set up.          *)
(***************************************************************************)
THEOREM EndpointsAreSetUp == Spec => []EndpointsSetUp
<1>1. IInv => EndpointsSetUp
  BY DEF IInv, TypeOK, DriverConsistent, BusConsistent, Configured, EndpointsSetUp
<1> QED
  BY <1>1, Inductive, PTL

-----------------------------------------------------------------------------
(* A bus that never suspends, and an endpoint armed whenever there is room.*)
RInv == state # "SUSPENDED" /\ ReceivesWhenRoom

(* Emptying a buffer, like receiving one, arms the endpoint again; without *)
(* suspension there is no other way for it to become idle.                 *)
LEMMA ReceivingPreserved == ~CanSuspend /\ IInv /\ RInv /\ [Next]_vars => RInv'
<1> SUFFICES ASSUME ~CanSuspend, IInv, RInv, [Next]_vars PROVE RInv'
  OBVIOUS
<1> USE DEF usbVars, epVars, threadVars, history
<1>1. state = "ACTIVE" \/ state = "SELECTED" => SduReady
  BY DEF IInv, DriverConsistent, BusConsistent, SduReady
<1>2. ASSUME NEW k \in 0..BuffersSize, SduDataReceived(k) PROVE RInv'
  <2>1. StartReceive(state, FALSE, ibq') /\ UNCHANGED state
    BY <1>2 DEF SduDataReceived
  <2> QED
    BY <1>1, <1>2, <2>1 DEF RInv, ReceivesWhenRoom, SduDataReceived, StartReceive, CanReceive
<1>3. CASE Configure
  <2>1. state' = "ACTIVE" /\ \E rcv : StartReceive("ACTIVE", rcv, ibq')
    BY <1>3 DEF Configure
  <2> QED
    BY <1>1, <1>3, <2>1 DEF Configure, RInv, ReceivesWhenRoom, StartReceive, CanReceive
<1>4. CASE ReadChunk
  <2> DEFINE cur  == IbqCurrent(ibq)
             data == cur.buffers[cur.brdptr]
             size == Min2(Min2(Len(data) - cur.ptr, ReadLength - count), ChunkSize)
             q    == [cur EXCEPT !.ptr = @ + size]
             used == q.ptr >= Len(data)
  <2>1. UNCHANGED state
    BY <1>4 DEF ReadChunk
  <2>2. CASE used
    <3>1. StartReceive(state, receiving, ibq')
      BY <1>4, <2>2 DEF ReadChunk
    <3> QED
      BY <1>1, <2>1, <3>1 DEF RInv, ReceivesWhenRoom, StartReceive, CanReceive
  <2>3. CASE ~used
    <3>1. ibq' = q /\ UNCHANGED receiving
      BY <1>4, <2>3 DEF ReadChunk
    <3>2. cur.bcounter = ibq.bcounter /\ cur.brdptr = ibq.brdptr /\ cur.bwrptr = ibq.bwrptr
      BY DEF IbqCurrent, IInv, TypeOK, Queues
    <3>3. cur \in Queues(Nat)
      BY <1>4, IbqCurrentLemma DEF ReadChunk, NoInput, IInv, TypeOK, DriverConsistent
    <3> HIDE DEF cur, size
    <3>4. q.bcounter = cur.bcounter /\ q.brdptr = cur.brdptr /\ q.bwrptr = cur.bwrptr
      BY <3>3 DEF Queues
    <3> HIDE DEF q
    <3>5. IbqIsFull(ibq') <=> IbqIsFull(ibq)
      BY <3>1, <3>2, <3>4 DEF IbqIsFull
    <3> QED
      BY <2>1, <3>1, <3>5 DEF RInv, ReceivesWhenRoom
  <2> QED
    BY <2>2, <2>3
<1>5. CASE BusReset \/ SetAddress \/ Unconfigure \/ BusSuspend \/ BusWakeup \/ UsbStart
  BY <1>5 DEF RInv, ReceivesWhenRoom, BusReset, SetAddress, Unconfigure, BusSuspend,
     BusWakeup, UsbStart
<1>6. CASE SduStart \/ ThreadCreate \/ SduDataTransmitted \/ SduSOFHook
  BY <1>6 DEF RInv, ReceivesWhenRoom, SduStart, ThreadCreate, SduDataTransmitted, SduSOFHook
<1>7. CASE \/ ReadBlock \/ ReadTimeout \/ ReadGivesUp \/ StartRead
           \/ (\E n \in WriteLengths : StartWrite(n)) \/ WriteChunk \/ WriteBlock \/ WriteGivesUp
  BY <1>7 DEF RInv, ReceivesWhenRoom, ReadBlock, ReadTimeout, ReadGivesUp, StartRead, StartWrite,
     WriteChunk, WriteBlock, WriteGivesUp
<1>8. CASE UNCHANGED vars
  BY <1>8 DEF vars, RInv, ReceivesWhenRoom
<1> QED
  BY <1>2, <1>3, <1>4, <1>5, <1>6, <1>7, <1>8 DEF Next

(***************************************************************************)
(* On a bus that never suspends the device never stops listening: whenever *)
(* it is active and its input queue has room, the OUT endpoint is armed.   *)
(***************************************************************************)
THEOREM ListensUnlessSuspended == ASSUME ~CanSuspend PROVE Spec => []ReceivesWhenRoom
<1>1. Init => RInv
  BY DEF Init, RInv, ReceivesWhenRoom
<1>2. IInv /\ RInv /\ [Next]_vars => RInv'
  BY ReceivingPreserved
<1>3. RInv => ReceivesWhenRoom
  BY DEF RInv
<1> QED
  BY <1>1, <1>2, <1>3, Inductive, PTL DEF Spec

-----------------------------------------------------------------------------
(* Reads end where transfers end.                                          *)

(* No posted buffer is empty: sduDataReceived posts none.                  *)
Filled(q) == \A n \in 0..(q.bcounter - 1) : 0 < Len(q.buffers[Ahead(q.brdptr, n)])

(* A current buffer has bytes left: it is released with its last one.      *)
BytesLeft(q) == q.ptr # NoPtr => q.ptr < Len(q.buffers[q.brdptr])

(* Who waits for input holds no buffer, until it has read from one.        *)
WaitsWithoutBuffer == pc \in {"waitIn", "wokenIn"} => ibq.ptr = NoPtr

(* It waits for an empty queue: the post that fills one wakes it.          *)
WaitsForInput == pc = "waitIn" => IbqIsEmpty(ibq)

(* A read goes on only after it has got something.                         *)
GoesOnWithBytes == pc = "reading" => 0 < count

WInv ==
  /\ Filled(ibq)
  /\ BytesLeft(ibq)
  /\ WaitsWithoutBuffer
  /\ WaitsForInput
  /\ GoesOnWithBytes

(* The transfer that is posted is not empty, and the others stay.          *)
LEMMA PostFills ==
  ASSUME NEW q \in Queues(Nat), IbqConsistent(q), ~IbqIsFull(q), Filled(q), BytesLeft(q),
         NEW d \in Seq(Nat), 0 < Len(d)
  PROVE  LET p == IbqPostFullBuffer([q EXCEPT !.buffers[q.bwrptr] = d])
         IN  Filled(p) /\ BytesLeft(p) /\ p.ptr = q.ptr
<1> DEFINE f == [q EXCEPT !.buffers[q.bwrptr] = d]
           p == IbqPostFullBuffer(f)
<1>1. /\ q.bcounter \in 0..BuffersNumber /\ q.brdptr \in Slots /\ q.bwrptr \in Slots
      /\ q.buffers \in [Slots -> Seq(Nat)]
  BY QueueFields
<1>2. q.bwrptr = Ahead(q.brdptr, q.bcounter)
  BY DEF IbqConsistent, Ring
<1>3. q.bcounter \in 0..(BuffersNumber - 1)
  <2>1. q.bcounter # BuffersNumber
    BY <1>1, <1>2, AheadSame, BuffersAssumption DEF IbqIsFull
  <2> QED
    BY <2>1, <1>1, BuffersAssumption
<1>4. /\ p.bcounter = q.bcounter + 1 /\ p.brdptr = q.brdptr /\ p.ptr = q.ptr
      /\ p.buffers = [q.buffers EXCEPT ![q.bwrptr] = d]
  BY DEF IbqPostFullBuffer, Queues
<1> HIDE DEF p
<1>5. p.buffers[q.bwrptr] = d /\ \A i \in Slots : i # q.bwrptr => p.buffers[i] = q.buffers[i]
  BY <1>1, <1>4
<1>6. ASSUME NEW n \in 0..(p.bcounter - 1) PROVE 0 < Len(p.buffers[Ahead(p.brdptr, n)])
  <2>1. CASE n = q.bcounter
    BY <1>2, <1>4, <1>5, <2>1
  <2>2. CASE n # q.bcounter
    <3>1. n \in 0..(q.bcounter - 1)
      BY <1>1, <1>4, <2>2
    <3>2. Ahead(q.brdptr, n) # Ahead(q.brdptr, q.bcounter) /\ Ahead(q.brdptr, n) \in Slots
      BY <1>1, <1>3, <3>1, AheadDistinct
    <3> QED
      BY <1>2, <1>4, <1>5, <3>1, <3>2 DEF Filled
  <2> QED
    BY <2>1, <2>2
<1>7. BytesLeft(p)
  <2> SUFFICES ASSUME p.ptr # NoPtr PROVE p.ptr < Len(p.buffers[p.brdptr])
    BY DEF BytesLeft
  <2>1. q.bwrptr # q.brdptr
    BY <1>1, <1>4 DEF IbqConsistent, IbqIsFull
  <2> QED
    BY <2>1, <1>1, <1>4, <1>5 DEF BytesLeft
<1> QED
  BY <1>4, <1>6, <1>7 DEF Filled, p, f

(* The buffer that is released is the oldest.                              *)
LEMMA ReleaseKeepsFilled ==
  ASSUME NEW q \in Queues(Nat), ~IbqIsEmpty(q), Filled(q)
  PROVE  LET p == IbqReleaseEmptyBuffer(q)
         IN  Filled(p) /\ BytesLeft(p) /\ p.ptr = NoPtr
<1> DEFINE p == IbqReleaseEmptyBuffer(q)
<1>1. q.bcounter \in 1..BuffersNumber /\ q.brdptr \in Slots
  BY BuffersAssumption DEF Queues, IbqIsEmpty
<1>2. /\ p.bcounter = q.bcounter - 1 /\ p.brdptr = Advance(q.brdptr)
      /\ p.ptr = NoPtr /\ p.buffers = q.buffers
  BY DEF IbqReleaseEmptyBuffer, Queues
<1> HIDE DEF p
<1>3. ASSUME NEW n \in 0..(p.bcounter - 1) PROVE 0 < Len(p.buffers[Ahead(p.brdptr, n)])
  <2>1. PICK m \in 1..BuffersNumber : m = n + 1 /\ m \in 0..(q.bcounter - 1) /\ m - 1 = n
    BY <1>1, <1>2, BuffersAssumption
  <2>2. Ahead(p.brdptr, n) = Ahead(q.brdptr, m)
    BY <1>1, <1>2, <2>1, AheadAdvance
  <2> QED
    BY <1>2, <2>1, <2>2 DEF Filled
<1> QED
  BY <1>2, <1>3 DEF Filled, BytesLeft, p

(* What the flags of a queue say about these does not matter.              *)
LEMMA FlagKeepsFilled ==
  ASSUME NEW q \in Queues(Nat), NEW p \in {BqSuspend(q), BqResume(q)}
  PROVE  /\ Filled(q) => Filled(p)
         /\ BytesLeft(q) => BytesLeft(p)
         /\ p.ptr = q.ptr /\ (IbqIsEmpty(p) <=> IbqIsEmpty(q))
BY FlagLemma DEF Filled, BytesLeft, IbqIsEmpty

(* Waking the thread ends its wait.                                        *)
LEMMA WakeKeepsReads ==
  ASSUME WInv, WakeAll("RESET"), count' = count,
         Filled(ibq)', BytesLeft(ibq)', ibq'.ptr = ibq.ptr \/ ibq'.ptr = NoPtr
  PROVE  WInv'
BY DEF WInv, WakeAll, WaitsWithoutBuffer, WaitsForInput, GoesOnWithBytes

(***************************************************************************)
(* A read takes at least one byte of the current buffer, and gives the     *)
(* buffer up with its last byte and not before.                            *)
(***************************************************************************)
LEMMA ReadChunkReads ==
  ASSUME IInv, WInv, ReadChunk
  PROVE  /\ WInv'
         /\ pc' = "app" => count' >= ReadLength
<1> DEFINE cur  == IbqCurrent(ibq)
           data == cur.buffers[cur.brdptr]
           size == Min2(Min2(Len(data) - cur.ptr, ReadLength - count), ChunkSize)
           q    == [cur EXCEPT !.ptr = @ + size]
           used == q.ptr >= Len(data)
           free == IbqReleaseEmptyBuffer(q)
<1>1. ibq \in Queues(Nat) /\ IbqConsistent(ibq) /\ ~(ibq.ptr = NoPtr /\ IbqIsEmpty(ibq))
  BY DEF IInv, TypeOK, DriverConsistent, ReadChunk, NoInput
<1>2. /\ cur \in Queues(Nat) /\ IbqConsistent(cur) /\ cur.ptr \in Nat /\ ~IbqIsEmpty(cur)
      /\ cur.bcounter = ibq.bcounter /\ cur.brdptr = ibq.brdptr /\ cur.buffers = ibq.buffers
  BY <1>1, IbqCurrentLemma
<1>3. count \in Nat /\ count < ReadLength /\ ReadLength \in Nat /\ ChunkSize \in Nat \ {0}
  BY LengthsAssumption
  DEF ReadChunk, InReadLoop, IInv, TypeOK, DriverConsistent, CallConsistent
<1>4. /\ ibq' = IF used THEN free ELSE q
      /\ count' = count + size
      /\ pc' = IF count + size >= ReadLength THEN "app" ELSE "reading"
  BY DEF ReadChunk
<1>5. Filled(cur)
  BY <1>2 DEF WInv, Filled
<1>6. cur.ptr < Len(data) /\ Len(data) \in Nat
  <2>1. data \in Seq(Nat)
    BY <1>2, QueueFields
  <2>2. Len(data) \in Nat
    BY <2>1, LenProperties
  <2>3. CASE ibq.ptr = NoPtr
    <3>1. cur.ptr = 0
      BY <1>1, <2>3 DEF IbqCurrent, Queues
    <3>2. cur.bcounter \in Nat \ {0} /\ cur.brdptr \in Slots
      BY <1>2, QueueFields, BuffersAssumption DEF IbqIsEmpty
    <3>3. 0 \in 0..(cur.bcounter - 1) /\ Ahead(cur.brdptr, 0) = cur.brdptr
      BY <3>2, AheadType
    <3>4. 0 < Len(cur.buffers[Ahead(cur.brdptr, 0)])
      BY <1>5, <3>3 DEF Filled
    <3> QED
      BY <2>2, <3>1, <3>3, <3>4
  <2>4. CASE ibq.ptr # NoPtr
    <3>1. cur = ibq
      BY <2>4 DEF IbqCurrent
    <3> QED
      BY <2>2, <2>4, <3>1 DEF WInv, BytesLeft
  <2> QED
    BY <2>3, <2>4
<1> HIDE DEF cur
<1>7. size \in Nat \ {0} /\ cur.ptr + size <= Len(data)
  <2> HIDE DEF data
  <2> QED
    BY <1>2, <1>3, <1>6 DEF Min2
<1> HIDE DEF size
<1>8. q \in Queues(Nat) /\ ~IbqIsEmpty(q)
  BY <1>2, <1>7, IbqMoveLemma
<1>9. q.bcounter = cur.bcounter /\ q.brdptr = cur.brdptr /\ q.buffers = cur.buffers
  BY <1>2 DEF Queues
<1> HIDE DEF q
<1>10. Filled(q)
  BY <1>5, <1>9 DEF Filled
<1>11. Filled(free) /\ BytesLeft(free) /\ free.ptr = NoPtr
  BY <1>8, <1>10, ReleaseKeepsFilled
<1>12. ~used => BytesLeft(q)
  <2>1. q.ptr \in Int
    BY <1>8, QueueFields, BuffersAssumption DEF NoPtr
  <2> HIDE DEF data
  <2>2. ~used => q.ptr < Len(data)
    BY <1>6, <2>1
  <2> QED
    BY <2>2, <1>9 DEF BytesLeft, data
<1> HIDE DEF free, used
<1>13. Filled(ibq') /\ BytesLeft(ibq')
  BY <1>4, <1>10, <1>11, <1>12
<1>14. 0 < count' /\ pc' \in {"app", "reading"} /\ (pc' = "app" => count' >= ReadLength)
  BY <1>3, <1>4, <1>7
<1> QED
  BY <1>13, <1>14 DEF WInv, WaitsWithoutBuffer, WaitsForInput, GoesOnWithBytes

(* Every step keeps the invariant.                                         *)
LEMMA ReadsPreserved == IInv /\ WInv /\ [Next]_vars => WInv'
<1> SUFFICES ASSUME IInv, WInv, [Next]_vars PROVE WInv'
  OBVIOUS
<1> USE DEF usbVars, epVars, threadVars, history
<1>0. ibq \in Queues(Nat)
  BY DEF IInv, TypeOK
<1>1. ASSUME NEW k \in 0..BuffersSize, SduDataReceived(k) PROVE WInv'
  <2>1. CASE k > 0
    <3> DEFINE d == NextBytes(sent, k)
               q == IbqPostFullBuffer([ibq EXCEPT !.buffers[rxbuf] = d])
    <3>1. IbqConsistent(ibq) /\ rxbuf = ibq.bwrptr /\ ~IbqIsFull(ibq)
      BY <1>1 DEF IInv, DriverConsistent, HardwareOwnsItsBuffer, SduDataReceived
    <3>2. k \in Nat /\ sent \in Nat
      BY BuffersAssumption DEF IInv, TypeOK
    <3>3. d \in Seq(Nat) /\ 0 < Len(d)
      BY <2>1, <3>2, NextBytesType
    <3>4. ibq' = q /\ WakeReader("OK") /\ count' = count
      BY <1>1, <2>1 DEF SduDataReceived
    <3> HIDE DEF d
    <3>5. Filled(ibq') /\ BytesLeft(ibq') /\ ibq'.ptr = ibq.ptr
      BY <1>0, <3>1, <3>3, <3>4, PostFills DEF WInv
    <3> QED
      BY <3>4, <3>5 DEF WInv, WakeReader, WaitsWithoutBuffer, WaitsForInput, GoesOnWithBytes
  <2>2. CASE ~(k > 0)
    <3>1. ibq' = ibq /\ pc' = pc /\ count' = count
      BY <1>1, <2>2 DEF SduDataReceived
    <3> QED
      BY <3>1 DEF WInv, WaitsWithoutBuffer, WaitsForInput, GoesOnWithBytes
  <2> QED
    BY <2>1, <2>2
<1>2. CASE BusReset \/ Unconfigure \/ BusSuspend
  <2>1. ibq' = BqSuspend(ibq) /\ WakeAll("RESET") /\ count' = count
    BY <1>2 DEF BusReset, Unconfigure, BusSuspend, SuspendHook
  <2>2. Filled(ibq') /\ BytesLeft(ibq') /\ ibq'.ptr = ibq.ptr
    BY <1>0, <2>1, FlagKeepsFilled DEF WInv
  <2> QED
    BY <2>1, <2>2, WakeKeepsReads
<1>3. CASE BusWakeup
  <2>1. ibq' = BqResume(ibq) /\ pc' = pc /\ count' = count
    BY <1>3 DEF BusWakeup
  <2>2. Filled(ibq') /\ BytesLeft(ibq') /\ ibq'.ptr = ibq.ptr /\ (IbqIsEmpty(ibq') <=> IbqIsEmpty(ibq))
    BY <1>0, <2>1, FlagKeepsFilled DEF WInv
  <2> QED
    BY <2>1, <2>2 DEF WInv, WaitsWithoutBuffer, WaitsForInput, GoesOnWithBytes
<1>4. CASE Configure
  <2> DEFINE r == IbqReset(ibq)
  <2>1. ibq' = BqResume(r) /\ WakeAll("RESET") /\ count' = count
    BY <1>4 DEF Configure
  <2>2. r \in Queues(Nat) /\ r.bcounter = 0 /\ r.ptr = NoPtr
    <3>1. 0 \in Slots /\ NoPtr \in NoPtr..BuffersSize /\ 0 \in 0..BuffersNumber
      BY BuffersAssumption DEF Slots, NoPtr
    <3> QED
      BY <1>0, <3>1 DEF IbqReset, Queues
  <2> HIDE DEF r
  <2>3. Filled(r) /\ BytesLeft(r)
    BY <2>2 DEF Filled, BytesLeft
  <2>4. Filled(ibq') /\ BytesLeft(ibq') /\ ibq'.ptr = NoPtr
    BY <2>1, <2>2, <2>3, FlagKeepsFilled
  <2> QED
    BY <2>1, <2>4, WakeKeepsReads
<1>5. CASE ReadChunk
  BY <1>5, ReadChunkReads
<1>6. CASE ReadBlock
  <2>1. ibq' = ibq /\ count' = count /\ NoInput /\ pc' \in {"app", "waitIn"}
    BY <1>6 DEF ReadBlock
  <2> QED
    BY <2>1 DEF WInv, NoInput, WaitsWithoutBuffer, WaitsForInput, GoesOnWithBytes
<1>7. CASE SduDataTransmitted
  <2>1. ibq' = ibq /\ count' = count /\ (pc' = pc \/ pc' = "wokenOut")
    BY <1>7 DEF SduDataTransmitted, WakeWriter
  <2> QED
    BY <2>1 DEF WInv, WaitsWithoutBuffer, WaitsForInput, GoesOnWithBytes
<1>8. CASE SduStart \/ UsbStart \/ SduSOFHook \/ SetAddress \/ UNCHANGED vars
  <2>1. ibq' = ibq /\ count' = count /\ pc' = pc
    BY <1>8 DEF SduStart, UsbStart, SduSOFHook, SetAddress, vars
  <2> QED
    BY <2>1 DEF WInv, WaitsWithoutBuffer, WaitsForInput, GoesOnWithBytes
<1>9. CASE \/ ThreadCreate \/ ReadGivesUp \/ StartRead \/ (\E n \in WriteLengths : StartWrite(n))
           \/ WriteChunk \/ WriteBlock \/ WriteGivesUp
  <2>1. ibq' = ibq /\ pc' \in {"read", "app", "write", "waitOut"}
    BY <1>9 DEF ThreadCreate, ReadGivesUp, StartRead, StartWrite, WriteChunk, WriteBlock,
       WriteGivesUp, WriteReturns
  <2> QED
    BY <2>1 DEF WInv, WaitsWithoutBuffer, WaitsForInput, GoesOnWithBytes
<1>10. CASE ReadTimeout
  <2>1. ibq' = ibq /\ count' = count /\ pc = "waitIn" /\ pc' = "wokenIn"
    BY <1>10 DEF ReadTimeout
  <2> QED
    BY <2>1 DEF WInv, WaitsWithoutBuffer, WaitsForInput, GoesOnWithBytes
<1> QED
  BY <1>1, <1>2, <1>3, <1>4, <1>5, <1>6, <1>7, <1>8, <1>9, <1>10 DEF Next

(***************************************************************************)
(* chnReadTimeout splits no transfer unless it fills the caller's buffer:  *)
(* when its deadline passes, or the bus goes down, it has taken all of     *)
(* every buffer it has touched, and it comes back with nothing only from   *)
(* an empty queue or from a wait that the timer or a reset had ended.      *)
(***************************************************************************)
THEOREM ReadsEndWithTransfers == Spec => ReadsWholeTransfers
<1> DEFINE Ends == pc # "app" /\ pc' = "app" /\ count' < ReadLength =>
                     /\ ibq'.ptr = NoPtr
                     /\ \/ count' > 0 \/ IbqIsEmpty(ibq')
                        \/ (pc = "wokenIn" /\ rdymsg # "OK")
<1>1. Init => WInv
  <2> SUFFICES ASSUME Init PROVE WInv
    OBVIOUS
  <2>1. ibq.bcounter = 0 /\ ibq.ptr = NoPtr /\ pc = "none"
    BY DEF Init, IbqObjectInit
  <2> QED
    BY <2>1 DEF WInv, Filled, BytesLeft, WaitsWithoutBuffer, WaitsForInput, GoesOnWithBytes
<1>2. IInv /\ WInv /\ [Next]_vars => WInv'
  BY ReadsPreserved
<1>3. IInv /\ IInv' /\ WInv /\ [Next]_vars => [Ends]_vars
  <2> SUFFICES ASSUME IInv, IInv', WInv, Next, pc # "app", pc' = "app", count' < ReadLength
               PROVE  /\ ibq'.ptr = NoPtr
                      /\ \/ count' > 0 \/ IbqIsEmpty(ibq')
                         \/ (pc = "wokenIn" /\ rdymsg # "OK")
    OBVIOUS
  <2> USE DEF usbVars, epVars, threadVars, history
  <2>1. CASE ReadChunk
    <3>1. count' >= ReadLength /\ count' \in Nat /\ ReadLength \in Nat
      BY <2>1, ReadChunkReads, LengthsAssumption DEF IInv, TypeOK
    <3> QED
      BY <3>1
  <2>2. CASE ReadBlock
    BY <2>2 DEF ReadBlock, NoInput
  <2>3. CASE ReadGivesUp
    BY <2>3 DEF ReadGivesUp, WInv, WaitsWithoutBuffer, WaitsForInput, GoesOnWithBytes
  <2>4. CASE SduStart \/ UsbStart \/ ThreadCreate \/ SduSOFHook \/ SetAddress \/ BusWakeup
    BY <2>4 DEF SduStart, UsbStart, ThreadCreate, SduSOFHook, SetAddress, BusWakeup
  <2>5. CASE StartRead \/ (\E n \in WriteLengths : StartWrite(n)) \/ WriteChunk \/ WriteBlock \/ WriteGivesUp
    BY <2>5 DEF StartRead, StartWrite, WriteChunk, WriteBlock, WriteGivesUp, WriteReturns
  <2>6. CASE (\E k \in 0..BuffersSize : SduDataReceived(k)) \/ SduDataTransmitted
    BY <2>6 DEF SduDataReceived, SduDataTransmitted, WakeReader, WakeWriter
  <2>7. CASE BusReset \/ Unconfigure \/ BusSuspend \/ Configure
    BY <2>7 DEF BusReset, Unconfigure, BusSuspend, Configure, SuspendHook, WakeAll
  <2>8. CASE ReadTimeout
    BY <2>8 DEF ReadTimeout
  <2> QED
    BY <2>1, <2>2, <2>3, <2>4, <2>5, <2>6, <2>7, <2>8 DEF Next
<1> QED
  BY <1>1, <1>2, <1>3, Inductive, PTL DEF Spec, ReadsWholeTransfers

-----------------------------------------------------------------------------
(* Every step of the driver is a step of the channel, or none.             *)

(* A step of the channel, or one that it does not see.                     *)
ChannelStep == Channel!Next \/ UNCHANGED Channel!chan

Bounded == BuffersNumber * BuffersSize

(* Where the invariant holds the two byte queues are within their bounds.  *)
LEMMA Bytes ==
  ASSUME IInv
  PROVE  /\ Unread(ibq) \in Seq(Nat) /\ Len(Unread(ibq)) <= Bounded
         /\ Unsent(obq) \in Seq(Nat) /\ Len(Unsent(obq)) <= Bounded
         /\ sent \in Nat /\ delivered \in Seq(Nat) /\ written \in Nat /\ got \in Seq(Nat)
<1>1. /\ ibq \in Queues(Nat) /\ IbqConsistent(ibq) /\ obq \in Queues(Nat) /\ ObqConsistent(obq)
      /\ sent \in Nat /\ delivered \in Seq(Nat) /\ written \in Nat /\ got \in Seq(Nat)
  BY DEF IInv, TypeOK, DriverConsistent
<1> QED
  BY <1>1, UnreadBounded, UnsentBounded DEF Bounded

(* The same of the next state.                                             *)
LEMMA BytesNext ==
  ASSUME IInv'
  PROVE  /\ Unread(ibq') \in Seq(Nat) /\ Len(Unread(ibq')) <= Bounded
         /\ Unsent(obq') \in Seq(Nat) /\ Len(Unsent(obq')) <= Bounded
<1>1. ibq' \in Queues(Nat) /\ IbqConsistent(ibq') /\ obq' \in Queues(Nat) /\ ObqConsistent(obq')
  BY DEF IInv, TypeOK, DriverConsistent
<1> QED
  BY <1>1, UnreadBounded, UnsentBounded DEF Bounded

(* Bytes from the front of a bounded queue: none, or some number of them.  *)
LEMMA SomeBytes ==
  ASSUME NEW d \in Seq(Nat), NEW t \in Seq(Nat), Len(d \o t) <= Bounded \/ Len(t \o d) <= Bounded
  PROVE  /\ d # << >> => Len(d) \in 1..Bounded
         /\ Len(d) \in Nat /\ Len(t) \in Nat
         /\ Len(d \o t) = Len(d) + Len(t) /\ Len(t \o d) = Len(t) + Len(d)
<1>1. /\ Len(d) \in Nat /\ Len(t) \in Nat
      /\ Len(d \o t) = Len(d) + Len(t) /\ Len(t \o d) = Len(t) + Len(d)
  BY Joined
<1>2. d # << >> => Len(d) # 0
  BY EmptySeq
<1>3. Bounded \in Nat
  BY BuffersAssumption DEF Bounded
<1>4. Len(d) <= Bounded
  BY <1>1, <1>3
<1> QED
  BY <1>1, <1>2, <1>3, <1>4

(* The board reads.                                                        *)
LEMMA MapsToBoardReads ==
  ASSUME IInv, IInv', NEW d \in Seq(Nat), Unread(ibq) = d \o Unread(ibq'),
         delivered' = delivered \o d, UNCHANGED <<sent, written, got>>,
         Unsent(obq') = Unsent(obq)
  PROVE  ChannelStep
<1> DEFINE i == Unread(ibq)
           j == Unread(ibq')
<1>1. i \in Seq(Nat) /\ Len(i) <= Bounded /\ delivered \in Seq(Nat)
  BY Bytes
<1>2. j \in Seq(Nat)
  BY BytesNext
<1>3. i = d \o j
  OBVIOUS
<1> HIDE DEF i, j
<1>4. /\ d # << >> => Len(d) \in 1..Bounded
      /\ Len(d) \in Nat /\ Len(j) \in Nat /\ Len(i) = Len(d) + Len(j)
  BY <1>1, <1>2, <1>3, SomeBytes
<1>5. CASE d = << >>
  <2>1. j = i /\ delivered' = delivered
    BY <1>1, <1>2, <1>3, <1>5, Joined
  <2> QED
    BY <2>1 DEF ChannelStep, Channel!chan, i, j
<1>6. CASE d # << >>
  <2>1. SubSeq(i, 1, Len(d)) = d /\ SubSeq(i, Len(d) + 1, Len(i)) = j
    BY <1>2, <1>3, TakeFront
  <2>2. Len(delivered') = Len(delivered) + Len(d)
    BY <1>1, Joined
  <2>3. Len(d) <= Len(i)
    BY <1>4
  <2>4. Channel!BoardReads(Len(d))
    BY <2>1, <2>2, <2>3 DEF Channel!BoardReads, i, j
  <2> QED
    BY <1>4, <1>6, <2>4 DEF ChannelStep, Channel!Next, Bounded
<1> QED
  BY <1>5, <1>6

(* The host gets.                                                          *)
LEMMA MapsToHostGets ==
  ASSUME IInv, IInv', NEW d \in Seq(Nat), Unsent(obq) = d \o Unsent(obq'),
         got' = got \o d, UNCHANGED <<sent, delivered, written>>,
         Unread(ibq') = Unread(ibq)
  PROVE  ChannelStep
<1> DEFINE i == Unsent(obq)
           j == Unsent(obq')
<1>1. i \in Seq(Nat) /\ Len(i) <= Bounded /\ got \in Seq(Nat)
  BY Bytes
<1>2. j \in Seq(Nat)
  BY BytesNext
<1>3. i = d \o j
  OBVIOUS
<1> HIDE DEF i, j
<1>4. /\ d # << >> => Len(d) \in 1..Bounded
      /\ Len(d) \in Nat /\ Len(j) \in Nat /\ Len(i) = Len(d) + Len(j)
  BY <1>1, <1>2, <1>3, SomeBytes
<1>5. CASE d = << >>
  <2>1. j = i /\ got' = got
    BY <1>1, <1>2, <1>3, <1>5, Joined
  <2> QED
    BY <2>1 DEF ChannelStep, Channel!chan, i, j
<1>6. CASE d # << >>
  <2>1. SubSeq(i, 1, Len(d)) = d /\ SubSeq(i, Len(d) + 1, Len(i)) = j
    BY <1>2, <1>3, TakeFront
  <2>2. Len(got') = Len(got) + Len(d)
    BY <1>1, Joined
  <2>3. Len(d) <= Len(i)
    BY <1>4
  <2>4. Channel!HostGets(Len(d))
    BY <2>1, <2>2, <2>3 DEF Channel!HostGets, i, j
  <2> QED
    BY <1>4, <1>6, <2>4 DEF ChannelStep, Channel!Next, Bounded
<1> QED
  BY <1>5, <1>6

(* The host sends.                                                         *)
LEMMA MapsToHostSends ==
  ASSUME IInv, IInv', NEW k \in Nat, Unread(ibq') = Unread(ibq) \o NextBytes(sent, k),
         sent' = sent + k, UNCHANGED <<delivered, written, got>>,
         Unsent(obq') = Unsent(obq)
  PROVE  ChannelStep
<1> DEFINE i == Unread(ibq)
           j == Unread(ibq')
           d == NextBytes(sent, k)
<1>1. i \in Seq(Nat) /\ sent \in Nat
  BY Bytes
<1>2. j \in Seq(Nat) /\ Len(j) <= Bounded
  BY BytesNext
<1>3. d \in Seq(Nat) /\ Len(d) = k
  BY <1>1, NextBytesType
<1>4. j = i \o d
  OBVIOUS
<1>5. d = Channel!Numbered(sent, k)
  BY DEF NextBytes, Channel!Numbered
<1> HIDE DEF i, j, d
<1>6. /\ d # << >> => Len(d) \in 1..Bounded
      /\ Len(j) = Len(i) + k
  BY <1>1, <1>2, <1>3, <1>4, SomeBytes
<1>7. CASE k = 0
  <2>1. d = << >>
    BY <1>3, <1>7, EmptySeq
  <2>2. j = i /\ sent' = sent
    BY <1>1, <1>4, <1>7, <2>1, Joined
  <2> QED
    BY <2>2 DEF ChannelStep, Channel!chan, i, j
<1>8. CASE k # 0
  <2>1. d # << >>
    BY <1>3, <1>8, EmptySeq
  <2>2. k \in 1..Bounded
    BY <1>3, <1>6, <2>1
  <2>3. Len(i) + k <= Bounded
    BY <1>2, <1>6
  <2>4. Channel!HostSends(k)
    BY <1>4, <1>5, <2>3 DEF Channel!HostSends, Bounded, i, j
  <2> QED
    BY <2>2, <2>4 DEF ChannelStep, Channel!Next, Bounded
<1> QED
  BY <1>7, <1>8

(* The board writes.                                                       *)
LEMMA MapsToBoardWrites ==
  ASSUME IInv, IInv', NEW k \in Nat, Unsent(obq') = Unsent(obq) \o NextBytes(written, k),
         written' = written + k, UNCHANGED <<sent, delivered, got>>,
         Unread(ibq') = Unread(ibq)
  PROVE  ChannelStep
<1> DEFINE i == Unsent(obq)
           j == Unsent(obq')
           d == NextBytes(written, k)
<1>1. i \in Seq(Nat) /\ written \in Nat
  BY Bytes
<1>2. j \in Seq(Nat) /\ Len(j) <= Bounded
  BY BytesNext
<1>3. d \in Seq(Nat) /\ Len(d) = k
  BY <1>1, NextBytesType
<1>4. j = i \o d
  OBVIOUS
<1>5. d = Channel!Numbered(written, k)
  BY DEF NextBytes, Channel!Numbered
<1> HIDE DEF i, j, d
<1>6. /\ d # << >> => Len(d) \in 1..Bounded
      /\ Len(j) = Len(i) + k
  BY <1>1, <1>2, <1>3, <1>4, SomeBytes
<1>7. CASE k = 0
  <2>1. d = << >>
    BY <1>3, <1>7, EmptySeq
  <2>2. j = i /\ written' = written
    BY <1>1, <1>4, <1>7, <2>1, Joined
  <2> QED
    BY <2>2 DEF ChannelStep, Channel!chan, i, j
<1>8. CASE k # 0
  <2>1. d # << >>
    BY <1>3, <1>8, EmptySeq
  <2>2. k \in 1..Bounded
    BY <1>3, <1>6, <2>1
  <2>3. Len(i) + k <= Bounded
    BY <1>2, <1>6
  <2>4. Channel!BoardWrites(k)
    BY <1>4, <1>5, <2>3 DEF Channel!BoardWrites, Bounded, i, j
  <2> QED
    BY <2>2, <2>4 DEF ChannelStep, Channel!Next, Bounded
<1> QED
  BY <1>7, <1>8

(* A step that moves no byte: both queues keep what they hold.             *)
LEMMA MapsToNothing ==
  ASSUME Unread(ibq') = Unread(ibq), Unsent(obq') = Unsent(obq),
         UNCHANGED <<sent, delivered, written, got>>
  PROVE  ChannelStep
BY DEF ChannelStep, Channel!chan

(* main()'s steps, the thread's that only wait or start a call, and the    *)
(* bus events, which change no more than the flags of the queues.          *)
LEMMA QuietSteps ==
  ASSUME IInv,
         \/ SduStart \/ UsbStart \/ ThreadCreate
         \/ BusReset \/ SetAddress \/ Unconfigure \/ BusSuspend \/ BusWakeup
         \/ ReadBlock \/ ReadTimeout \/ ReadGivesUp \/ StartRead \/ WriteBlock \/ WriteGivesUp
         \/ \E n \in WriteLengths : StartWrite(n)
         \/ UNCHANGED vars
  PROVE  ChannelStep
<1>1. ibq \in Queues(Nat) /\ obq \in Queues(Nat)
  BY DEF IInv, TypeOK
<1>2. /\ ibq' \in {ibq, BqSuspend(ibq), BqResume(ibq)}
      /\ obq' \in {obq, BqSuspend(obq), BqResume(obq)}
      /\ UNCHANGED <<sent, delivered, written, got>>
  BY DEF SduStart, UsbStart, ThreadCreate, BusReset, SetAddress, Unconfigure, BusSuspend,
     BusWakeup, SuspendHook, ReadBlock, ReadTimeout, ReadGivesUp, StartRead, WriteBlock, WriteGivesUp,
     StartWrite, vars, history
<1>3. ASSUME NEW q \in Queues(Nat), NEW p \in {q, BqSuspend(q), BqResume(q)}
      PROVE  Unread(p) = Unread(q) /\ Unsent(p) = Unsent(q)
  <2>1. /\ p.bcounter = q.bcounter /\ p.brdptr = q.brdptr /\ p.bwrptr = q.bwrptr
        /\ p.ptr = q.ptr /\ p.buffers = q.buffers
    BY FlagLemma
  <2> QED
    BY <2>1, SameBytes
<1>4. Unread(ibq') = Unread(ibq) /\ Unsent(obq') = Unsent(obq)
  BY <1>1, <1>2, <1>3
<1> QED
  BY <1>2, <1>4, MapsToNothing

(* SET_CONFIGURATION starts both directions again.                         *)
LEMMA ConfigureRestarts == IInv /\ Configure => ChannelStep
<1> SUFFICES ASSUME IInv, Configure PROVE ChannelStep
  OBVIOUS
<1>1. ibq \in Queues(Nat) /\ obq \in Queues(Nat)
  BY DEF IInv, TypeOK
<1>2. /\ ibq' = BqResume(IbqReset(ibq)) /\ obq' = BqResume(ObqReset(obq))
      /\ sent' = 0 /\ delivered' = << >> /\ written' = 0 /\ got' = << >>
  BY DEF Configure
<1>3. /\ ibq'.bcounter = 0 /\ ibq'.ptr = NoPtr /\ ibq'.brdptr = 0
      /\ ibq'.buffers = ibq.buffers
  BY <1>1, <1>2 DEF BqResume, IbqReset, Queues
<1>4. /\ obq'.bcounter = BuffersNumber /\ obq'.ptr = NoPtr /\ obq'.brdptr = 0
      /\ obq'.buffers = obq.buffers
  BY <1>1, <1>2 DEF BqResume, ObqReset, Queues
<1>5. 0 \in Slots /\ BuffersNumber - BuffersNumber = 0 /\ << >> \in Seq(Nat)
  BY BuffersAssumption DEF Slots
<1>6. ibq.buffers \in Rings /\ obq.buffers \in Rings
  BY <1>1, QueueFields DEF Rings
<1>7. Contents(ibq.buffers, 0, 0) = << >> /\ Contents(obq.buffers, 0, 0) = << >>
  BY <1>5, <1>6, ContentsEquations
<1>8. Unread(ibq') = << >>
  BY <1>3, <1>7, Zenon DEF Unread
<1>9. Unsent(obq') = << >> \o << >>
  BY <1>4, <1>5, <1>7, Zenon DEF Unsent
<1>10. Unsent(obq') = << >>
  BY <1>5, <1>9, Joined
<1>11. Channel!Restart
  BY <1>2, <1>8, <1>10 DEF Channel!Restart
<1> QED
  BY <1>11 DEF ChannelStep, Channel!Next

(* sduDataReceived: the host has sent what the transfer brought.           *)
LEMMA ReceivedIsSent ==
  ASSUME IInv, IInv', NEW k \in 0..BuffersSize, SduDataReceived(k)
  PROVE  ChannelStep
<1> DEFINE d == NextBytes(sent, k)
<1>1. ibq \in Queues(Nat) /\ IbqConsistent(ibq) /\ rxbuf = ibq.bwrptr /\ ~IbqIsFull(ibq)
  BY DEF IInv, TypeOK, DriverConsistent, HardwareOwnsItsBuffer, SduDataReceived
<1>2. k \in Nat /\ sent \in Nat
  BY BuffersAssumption, Bytes
<1>3. d \in Seq(Nat) /\ Len(d) = k
  BY <1>2, NextBytesType
<1>4. /\ ibq' = IF k > 0 THEN IbqPostFullBuffer([ibq EXCEPT !.buffers[rxbuf] = d]) ELSE ibq
      /\ obq' = obq /\ sent' = sent + k /\ UNCHANGED <<delivered, written, got>>
  BY DEF SduDataReceived
<1> HIDE DEF d
<1>5. Unread(ibq') = Unread(ibq) \o d
  <2>1. CASE k > 0
    <3>1. Unread(IbqPostFullBuffer([ibq EXCEPT !.buffers[ibq.bwrptr] = d])) = Unread(ibq) \o d
      BY <1>1, <1>3, IbqPostAppends
    <3> QED
      BY <1>1, <1>4, <2>1, <3>1
  <2>2. CASE ~(k > 0)
    <3>1. d = << >>
      BY <1>2, <1>3, <2>2, EmptySeq
    <3>2. Unread(ibq) \o << >> = Unread(ibq)
      BY Bytes, Joined
    <3> QED
      BY <1>4, <2>2, <3>1, <3>2
  <2> QED
    BY <2>1, <2>2
<1>6. Unsent(obq') = Unsent(obq)
  BY <1>4
<1> QED
  BY <1>2, <1>4, <1>5, <1>6, MapsToHostSends DEF d

(* sduDataTransmitted: the host has got the oldest buffer, or, after a     *)
(* zero length packet, nothing.                                            *)
LEMMA TransmittedIsGot == ASSUME IInv, IInv', SduDataTransmitted PROVE ChannelStep
<1>1. /\ obq \in Queues(Nat) /\ ObqConsistent(obq) /\ txsize \in Nat /\ transmitting
  BY DEF IInv, TypeOK, DriverConsistent, SduDataTransmitted
<1>2. /\ obq' = IF txsize > 0 THEN ObqReleaseEmptyBuffer(obq) ELSE obq
      /\ got' = IF txsize > 0 THEN got \o obq.buffers[txbuf] ELSE got
      /\ ibq' = ibq /\ UNCHANGED <<sent, delivered, written>>
  BY DEF SduDataTransmitted
<1>3. Unread(ibq') = Unread(ibq)
  BY <1>2
<1>4. CASE txsize > 0
  <2> DEFINE d == obq.buffers[obq.brdptr]
  <2>1. ~ObqIsEmpty(obq) /\ txbuf = obq.brdptr
    BY <1>1, <1>4 DEF IInv, DriverConsistent, HardwareOwnsItsBuffer
  <2>2. d \in Seq(Nat) /\ Unsent(obq) = d \o Unsent(ObqReleaseEmptyBuffer(obq))
    BY <1>1, <2>1, ObqReleaseTakes
  <2>3. obq' = ObqReleaseEmptyBuffer(obq) /\ got' = got \o d
    BY <1>2, <1>4, <2>1
  <2> HIDE DEF d
  <2> QED
    BY <1>2, <1>3, <2>2, <2>3, MapsToHostGets
<1>5. CASE ~(txsize > 0)
  <2>1. Unsent(obq') = Unsent(obq) /\ got' = got
    BY <1>2, <1>5
  <2> QED
    BY <1>2, <1>3, <2>1, MapsToNothing
<1> QED
  BY <1>4, <1>5

(* sof_handler: flushing a partly filled buffer moves no byte.             *)
LEMMA FlushIsQuiet == ASSUME IInv, SduSOFHook PROVE ChannelStep
<1>1. obq \in Queues(Nat) /\ ObqConsistent(obq) /\ ~ObqIsFull(obq) /\ obq.ptr # NoPtr
  BY DEF IInv, TypeOK, DriverConsistent, SduSOFHook, ObqCanFlush, ObqIsEmpty, ObqIsFull
<1>2. obq' = ObqPostFullBuffer(obq) /\ ibq' = ibq /\ UNCHANGED <<sent, delivered, written, got>>
  BY DEF SduSOFHook, history
<1>3. Unsent(obq') = Unsent(obq)
  BY <1>1, <1>2, ObqPostKeeps
<1> QED
  BY <1>2, <1>3, MapsToNothing

(* ibqReadTimeout: what was copied was at the front.                       *)
LEMMA ReadIsRead == ASSUME IInv, IInv', ReadChunk PROVE ChannelStep
<1> DEFINE cur  == IbqCurrent(ibq)
           data == cur.buffers[cur.brdptr]
           size == Min2(Min2(Len(data) - cur.ptr, ReadLength - count), ChunkSize)
           q    == [cur EXCEPT !.ptr = @ + size]
           used == q.ptr >= Len(data)
           free == IbqReleaseEmptyBuffer(q)
           d    == SubSeq(data, cur.ptr + 1, cur.ptr + size)
<1>1. ibq \in Queues(Nat) /\ IbqConsistent(ibq) /\ ~(ibq.ptr = NoPtr /\ IbqIsEmpty(ibq))
  BY DEF IInv, TypeOK, DriverConsistent, ReadChunk, NoInput
<1>2. /\ cur \in Queues(Nat) /\ IbqConsistent(cur) /\ cur.ptr \in Nat /\ ~IbqIsEmpty(cur)
  BY <1>1, IbqCurrentLemma
<1>3. Unread(cur) = Unread(ibq)
  BY <1>1, IbqCurrentKeeps
<1>4. count \in Nat /\ count < ReadLength /\ ReadLength \in Nat /\ ChunkSize \in Nat
  BY LengthsAssumption
  DEF ReadChunk, InReadLoop, IInv, TypeOK, DriverConsistent, CallConsistent
<1>5. /\ ibq' = IF used THEN free ELSE q
      /\ delivered' = delivered \o d
      /\ obq' = obq /\ UNCHANGED <<sent, written, got>>
  BY DEF ReadChunk
<1> HIDE DEF cur
<1>6. data \in Seq(Nat) /\ Len(data) \in Nat /\ cur.ptr <= Len(data)
  <2>1. data \in Seq(Nat) /\ cur.ptr \in 0..Len(data)
    BY <1>2, UnreadForm
  <2> QED
    BY <2>1, LenProperties
<1> HIDE DEF data
<1>7. size \in Nat /\ cur.ptr + size <= Len(data)
  BY <1>2, <1>4, <1>6 DEF Min2
<1> HIDE DEF size
<1>8. d \in Seq(Nat) /\ Unread(cur) = d \o Unread(q)
  BY <1>2, <1>7, IbqMoveTakes DEF data
<1>9. /\ q \in Queues(Nat) /\ IbqConsistent(q) /\ ~IbqIsEmpty(q)
      /\ q.brdptr = cur.brdptr
  BY <1>2, <1>7, IbqMoveLemma DEF data
<1>10. q.ptr = cur.ptr + size /\ q.buffers = cur.buffers
  BY <1>2 DEF Queues
<1> HIDE DEF q, d
<1>11. Unread(ibq') = Unread(q)
  <2>1. CASE used
    <3>1. q.ptr = Len(q.buffers[q.brdptr]) /\ q.ptr \in Nat
      <4>1. q.buffers[q.brdptr] = data
        BY <1>9, <1>10 DEF data
      <4> QED
        BY <4>1, <1>2, <1>6, <1>7, <1>10, <2>1
    <3>2. Unread(free) = Unread(q)
      BY <1>9, <3>1, IbqReleaseKeeps
    <3> QED
      BY <1>5, <2>1, <3>2
  <2>2. CASE ~used
    BY <1>5, <2>2
  <2> QED
    BY <2>1, <2>2
<1>12. Unread(ibq) = d \o Unread(ibq') /\ Unsent(obq') = Unsent(obq)
  BY <1>3, <1>5, <1>8, <1>11
<1> QED
  BY <1>5, <1>8, <1>12, MapsToBoardReads

(* obqWriteTimeout: what was copied is now at the end.                     *)
LEMMA WriteIsWritten == ASSUME IInv, IInv', WriteChunk PROVE ChannelStep
<1> DEFINE cur  == ObqCurrent(obq)
           size == Min2(Min2(BuffersSize - cur.ptr, length - count), ChunkSize)
           d    == NextBytes(written, size)
           q    == ObqCopy(cur, d)
           full == q.ptr >= BuffersSize
           post == ObqPostFullBuffer(q)
<1>1. obq \in Queues(Nat) /\ ObqConsistent(obq) /\ ~(obq.ptr = NoPtr /\ ObqIsFull(obq))
  BY DEF IInv, TypeOK, DriverConsistent, WriteChunk, NoRoom
<1>2. /\ cur \in Queues(Nat) /\ ObqConsistent(cur)
      /\ cur.ptr \in Nat /\ cur.ptr <= BuffersSize /\ ~ObqIsFull(cur)
  BY <1>1, ObqCurrentLemma
<1>3. Unsent(cur) = Unsent(obq)
  BY <1>1, ObqCurrentKeeps
<1>4. /\ count \in Nat /\ length \in Nat /\ count < length /\ ChunkSize \in Nat
      /\ BuffersSize \in Nat /\ written \in Nat
  BY LengthsAssumption, BuffersAssumption
  DEF WriteChunk, InWriteLoop, IInv, TypeOK, DriverConsistent, CallConsistent
<1>5. /\ obq' = IF full THEN post ELSE q
      /\ written' = written + size
      /\ ibq' = ibq /\ UNCHANGED <<sent, delivered, got>>
  BY DEF WriteChunk
<1> HIDE DEF cur
<1>6. size \in Nat /\ cur.ptr + size <= BuffersSize
  BY <1>2, <1>4 DEF Min2
<1> HIDE DEF size
<1>7. d \in Seq(Nat) /\ Len(d) = size
  BY <1>4, <1>6, NextBytesType
<1> HIDE DEF d
<1>8. Unsent(q) = Unsent(obq) \o d
  BY <1>2, <1>3, <1>7, ObqCopyAppends
<1>9. q \in Queues(Nat) /\ ObqConsistent(q) /\ ~ObqIsFull(q) /\ q.ptr # NoPtr
  <2>1. cur.ptr + Len(d) <= BuffersSize
    BY <1>6, <1>7
  <2>2. /\ q \in Queues(Nat) /\ ObqConsistent(q) /\ ~ObqIsFull(q)
        /\ q.ptr = cur.ptr + Len(d)
    BY <1>2, <1>7, <2>1, ObqCopyLemma
  <2>3. cur.ptr + Len(d) # NoPtr
    BY <1>2, <1>6, <1>7 DEF NoPtr
  <2> QED
    BY <2>2, <2>3, Zenon
<1> HIDE DEF q
<1>10. Unsent(post) = Unsent(q)
  BY <1>9, ObqPostKeeps
<1>11. Unsent(obq') = Unsent(obq) \o NextBytes(written, size) /\ Unread(ibq') = Unread(ibq)
  BY <1>5, <1>8, <1>10 DEF d
<1> QED
  BY <1>5, <1>6, <1>11, MapsToBoardWrites

-----------------------------------------------------------------------------
(* Every step is one operation on the two byte queues, or none.            *)
LEMMA StepImplements == IInv /\ [Next]_vars => [Channel!Next]_(Channel!chan)
<1> SUFFICES ASSUME IInv, [Next]_vars PROVE ChannelStep
  BY DEF ChannelStep
<1>1. IInv'
  BY NextPreserves
<1>2. CASE \E k \in 0..BuffersSize : SduDataReceived(k)
  BY <1>1, <1>2, ReceivedIsSent
<1>3. CASE SduDataTransmitted
  BY <1>1, <1>3, TransmittedIsGot
<1>4. CASE SduSOFHook
  BY <1>4, FlushIsQuiet
<1>5. CASE Configure
  BY <1>5, ConfigureRestarts
<1>6. CASE ReadChunk
  BY <1>1, <1>6, ReadIsRead
<1>7. CASE WriteChunk
  BY <1>1, <1>7, WriteIsWritten
<1>8. CASE \/ SduStart \/ UsbStart \/ ThreadCreate
           \/ BusReset \/ SetAddress \/ Unconfigure \/ BusSuspend \/ BusWakeup
           \/ ReadBlock \/ ReadTimeout \/ ReadGivesUp \/ StartRead \/ WriteBlock \/ WriteGivesUp
           \/ \E n \in WriteLengths : StartWrite(n)
           \/ UNCHANGED vars
  BY <1>8, QuietSteps
<1> QED
  BY <1>2, <1>3, <1>4, <1>5, <1>6, <1>7, <1>8 DEF Next

(* Nothing is in either queue when main() starts.                          *)
LEMMA InitImplements == Init => Channel!Init
<1> SUFFICES ASSUME Init PROVE Channel!Init
  OBVIOUS
<1>1. /\ ibq = IbqObjectInit /\ obq = ObqObjectInit
      /\ sent = 0 /\ delivered = << >> /\ written = 0 /\ got = << >>
  BY DEF Init
<1>2. /\ ibq.bcounter = 0 /\ ibq.ptr = NoPtr /\ ibq.brdptr = 0
      /\ obq.bcounter = BuffersNumber /\ obq.ptr = NoPtr /\ obq.brdptr = 0
  BY <1>1 DEF IbqObjectInit, ObqObjectInit
<1>3. ibq.buffers \in Rings /\ obq.buffers \in Rings
  BY <1>1, InitLemma, QueueFields DEF Rings
<1>4. 0 \in Slots /\ BuffersNumber - BuffersNumber = 0 /\ << >> \in Seq(Nat)
  BY BuffersAssumption DEF Slots
<1>5. Contents(ibq.buffers, 0, 0) = << >> /\ Contents(obq.buffers, 0, 0) = << >>
  BY <1>3, <1>4, ContentsEquations
<1>6. Unread(ibq) = << >>
  BY <1>2, <1>5, Zenon DEF Unread
<1>7. Unsent(obq) = << >> \o << >>
  BY <1>2, <1>4, <1>5, Zenon DEF Unsent
<1>8. Unsent(obq) = << >>
  BY <1>4, <1>7, Joined
<1> QED
  BY <1>1, <1>6, <1>8 DEF Channel!Init

(***************************************************************************)
(* The driver implements the byte channel: whatever the bus does and       *)
(* however the thread and the interrupt interleave, no byte is lost,       *)
(* repeated or overtaken in either direction between two configurations.   *)
(***************************************************************************)
THEOREM DriverImplementsChannel == Spec => ImplementsChannel
<1>1. Init => Channel!Init
  BY InitImplements
<1>2. IInv /\ [Next]_vars => [Channel!Next]_(Channel!chan)
  BY StepImplements
<1> QED
  BY <1>1, <1>2, Inductive, PTL DEF Spec, ImplementsChannel, Channel!Spec

-----------------------------------------------------------------------------
(* In each direction what was received and what is still on its way are,   *)
(* together, the bytes sent since the configuration, each once, in order.  *)
InOrder ==
  /\ delivered \o Unread(ibq) = NextBytes(0, sent)
  /\ got \o Unsent(obq) = NextBytes(0, written)

(* More bytes continue the numbering.                                      *)
LEMMA NumberingContinues ==
  ASSUME NEW m \in Nat, NEW k \in Nat
  PROVE  NextBytes(0, m) \o NextBytes(m, k) = NextBytes(0, m + k)
<1> DEFINE a == NextBytes(0, m)
           b == NextBytes(m, k)
           c == NextBytes(0, m + k)
<1>1. /\ a \in Seq(Nat) /\ Len(a) = m /\ b \in Seq(Nat) /\ Len(b) = k
      /\ c \in Seq(Nat) /\ Len(c) = m + k
  <2>1. 0 \in Nat /\ m + k \in Nat
    OBVIOUS
  <2> QED
    BY <2>1, NextBytesType
<1>2. /\ \A i \in 1..m : a[i] = i
      /\ \A i \in 1..k : b[i] = m + i
      /\ \A i \in 1..(m + k) : c[i] = i
  BY DEF NextBytes
<1> HIDE DEF a, b, c
<1>3. /\ a \o b \in Seq(Nat) /\ Len(a \o b) = m + k
      /\ \A i \in 1..(m + k) : (a \o b)[i] = IF i <= m THEN a[i] ELSE b[i - m]
  <2>1. /\ a \o b \in Seq(Nat) /\ Len(a \o b) = Len(a) + Len(b)
        /\ \A i \in 1..(Len(a) + Len(b)) : (a \o b)[i] = IF i <= Len(a) THEN a[i] ELSE b[i - Len(a)]
    BY <1>1, ConcatProperties
  <2> QED
    BY <1>1, <2>1
<1>4. ASSUME NEW i \in 1..(m + k) PROVE (a \o b)[i] = c[i]
  <2>1. CASE i <= m
    BY <1>2, <1>3, <2>1
  <2>2. CASE ~(i <= m)
    <3>1. i - m \in 1..k /\ m + (i - m) = i
      BY <2>2
    <3> QED
      BY <1>2, <1>3, <2>2, <3>1
  <2> QED
    BY <2>1, <2>2
<1> DEFINE s == a \o b
<1>5. s \in Seq(Nat) /\ Len(s) = Len(c) /\ \A i \in 1..Len(s) : s[i] = c[i]
  BY <1>1, <1>3, <1>4
<1> HIDE DEF s
<1>6. s = c
  BY <1>1, <1>5, SeqEqual
<1> QED
  BY <1>6 DEF s, a, b, c

(* Taking from the front and adding to what was received loses nothing.    *)
LEMMA MovedAcross ==
  ASSUME NEW r \in Seq(Nat), NEW w \in Seq(Nat), NEW k \in Nat, k <= Len(w)
  PROVE  (r \o SubSeq(w, 1, k)) \o SubSeq(w, k + 1, Len(w)) = r \o w
<1> DEFINE d == SubSeq(w, 1, k)
           e == SubSeq(w, k + 1, Len(w))
<1>1. Len(w) \in Nat /\ 0 \in Nat /\ k \in 0..Len(w) /\ Len(w) \in k..Len(w)
  BY LenProperties
<1>2. SubSeq(w, 0 + 1, k) \in Seq(Nat) /\ e \in Seq(Nat)
  BY <1>1, Piece
<1>3. d \o e = w
  <2>1. \A a \in 1..(Len(w) + 1) : \A c \in (a - 1)..Len(w) : \A z \in c..Len(w) :
          SubSeq(w, a, c) \o SubSeq(w, c + 1, z) = SubSeq(w, a, z)
    BY ConcatAdjacentSubSeq
  <2>2. 1 \in 1..(Len(w) + 1) /\ k \in (1 - 1)..Len(w)
    BY <1>1
  <2>3. d \o e = SubSeq(w, 1, Len(w))
    BY <1>1, <2>1, <2>2, Zenon
  <2> QED
    BY <2>3, SubSeqFull
<1>4. d \in Seq(Nat)
  BY <1>2
<1> HIDE DEF d, e
<1>5. (r \o d) \o e = r \o (d \o e)
  BY <1>2, <1>4, Joined, Zenon
<1> QED
  BY <1>3, <1>5 DEF d, e

(* The channel keeps the order.                                            *)
LEMMA OrderKept ==
  ASSUME IInv, InOrder, ChannelStep
  PROVE  InOrder'
<1> DEFINE i == Unread(ibq)
           o == Unsent(obq)
<1>1. /\ i \in Seq(Nat) /\ o \in Seq(Nat)
      /\ sent \in Nat /\ delivered \in Seq(Nat) /\ written \in Nat /\ got \in Seq(Nat)
  BY Bytes
<1>2. /\ delivered \o i = NextBytes(0, sent)
      /\ got \o o = NextBytes(0, written)
  BY DEF InOrder
<1>3. SUFFICES /\ delivered' \o Unread(ibq') = NextBytes(0, sent')
               /\ got' \o Unsent(obq') = NextBytes(0, written')
  BY DEF InOrder
<1> HIDE DEF i, o
<1>4. CASE UNCHANGED Channel!chan
  BY <1>2, <1>4 DEF Channel!chan, i, o
<1>5. ASSUME NEW k \in 1..Bounded, Channel!HostSends(k)
      PROVE  /\ delivered' \o Unread(ibq') = NextBytes(0, sent')
             /\ got' \o Unsent(obq') = NextBytes(0, written')
  <2> DEFINE d == NextBytes(sent, k)
  <2>1. k \in Nat
    BY BuffersAssumption DEF Bounded
  <2>2. /\ sent' = sent + k /\ delivered' = delivered /\ written' = written /\ got' = got
        /\ Unread(ibq') = i \o d /\ Unsent(obq') = o
    BY <1>5 DEF Channel!HostSends, Channel!Numbered, NextBytes, i, o
  <2>3. d \in Seq(Nat)
    BY <1>1, <2>1, NextBytesType
  <2>4. (delivered \o i) \o d = NextBytes(0, sent + k)
    BY <1>1, <1>2, <2>1, NumberingContinues
  <2> HIDE DEF d
  <2>5. (delivered \o i) \o d = delivered \o (i \o d)
    BY <1>1, <2>3, Joined, Zenon
  <2> QED
    BY <1>2, <2>2, <2>4, <2>5
<1>6. ASSUME NEW k \in 1..Bounded, Channel!BoardWrites(k)
      PROVE  /\ delivered' \o Unread(ibq') = NextBytes(0, sent')
             /\ got' \o Unsent(obq') = NextBytes(0, written')
  <2> DEFINE d == NextBytes(written, k)
  <2>1. k \in Nat
    BY BuffersAssumption DEF Bounded
  <2>2. /\ sent' = sent /\ delivered' = delivered /\ written' = written + k /\ got' = got
        /\ Unread(ibq') = i /\ Unsent(obq') = o \o d
    BY <1>6 DEF Channel!BoardWrites, Channel!Numbered, NextBytes, i, o
  <2>3. d \in Seq(Nat)
    BY <1>1, <2>1, NextBytesType
  <2>4. (got \o o) \o d = NextBytes(0, written + k)
    BY <1>1, <1>2, <2>1, NumberingContinues
  <2> HIDE DEF d
  <2>5. (got \o o) \o d = got \o (o \o d)
    BY <1>1, <2>3, Joined, Zenon
  <2> QED
    BY <1>2, <2>2, <2>4, <2>5
<1>7. ASSUME NEW k \in 1..Bounded, Channel!BoardReads(k)
      PROVE  /\ delivered' \o Unread(ibq') = NextBytes(0, sent')
             /\ got' \o Unsent(obq') = NextBytes(0, written')
  <2>1. k \in Nat
    BY BuffersAssumption DEF Bounded
  <2>2. /\ sent' = sent /\ written' = written /\ got' = got
        /\ k <= Len(i) /\ delivered' = delivered \o SubSeq(i, 1, k)
        /\ Unread(ibq') = SubSeq(i, k + 1, Len(i)) /\ Unsent(obq') = o
    BY <1>7 DEF Channel!BoardReads, i, o
  <2>3. (delivered \o SubSeq(i, 1, k)) \o SubSeq(i, k + 1, Len(i)) = delivered \o i
    BY <1>1, <2>1, <2>2, MovedAcross
  <2> QED
    BY <1>2, <2>2, <2>3
<1>8. ASSUME NEW k \in 1..Bounded, Channel!HostGets(k)
      PROVE  /\ delivered' \o Unread(ibq') = NextBytes(0, sent')
             /\ got' \o Unsent(obq') = NextBytes(0, written')
  <2>1. k \in Nat
    BY BuffersAssumption DEF Bounded
  <2>2. /\ sent' = sent /\ written' = written /\ delivered' = delivered
        /\ k <= Len(o) /\ got' = got \o SubSeq(o, 1, k)
        /\ Unsent(obq') = SubSeq(o, k + 1, Len(o)) /\ Unread(ibq') = i
    BY <1>8 DEF Channel!HostGets, i, o
  <2>3. (got \o SubSeq(o, 1, k)) \o SubSeq(o, k + 1, Len(o)) = got \o o
    BY <1>1, <2>1, <2>2, MovedAcross
  <2> QED
    BY <1>2, <2>2, <2>3
<1>9. CASE Channel!Restart
  <2>1. NextBytes(0, 0) = << >> /\ << >> \o << >> = << >>
    <3>1. NextBytes(0, 0) \in Seq(Nat) /\ Len(NextBytes(0, 0)) = 0
      BY NextBytesType
    <3> QED
      BY <3>1, EmptySeq, Joined
  <2> QED
    BY <1>9, <2>1 DEF Channel!Restart
<1> QED
  BY <1>4, <1>5, <1>6, <1>7, <1>8, <1>9 DEF ChannelStep, Channel!Next, Bounded

(***************************************************************************)
(* End to end: at every moment the thread has read a prefix of what the    *)
(* host sent since the last SET_CONFIGURATION, and the host has got a      *)
(* prefix of what the thread wrote; the rest is in the queues.             *)
(***************************************************************************)
THEOREM BytesInOrder == Spec => []InOrder
<1>1. Init => InOrder
  <2> SUFFICES ASSUME Init PROVE InOrder
    OBVIOUS
  <2>1. Unread(ibq) = << >> /\ Unsent(obq) = << >>
    BY InitImplements DEF Channel!Init
  <2>2. NextBytes(0, 0) = << >> /\ << >> \o << >> = << >>
    <3>1. NextBytes(0, 0) \in Seq(Nat) /\ Len(NextBytes(0, 0)) = 0
      BY NextBytesType
    <3> QED
      BY <3>1, EmptySeq, Joined
  <2> QED
    BY <2>1, <2>2 DEF Init, InOrder
<1>2. IInv /\ InOrder /\ [Next]_vars => InOrder'
  <2> SUFFICES ASSUME IInv, InOrder, [Next]_vars PROVE InOrder'
    OBVIOUS
  <2>1. ChannelStep
    BY StepImplements DEF ChannelStep
  <2> QED
    BY <2>1, OrderKept
<1> QED
  BY <1>1, <1>2, Inductive, PTL DEF Spec
=============================================================================
