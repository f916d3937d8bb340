---------------------------- MODULE ByteChannel ----------------------------
(***************************************************************************)
(* What the serial channel promises its two users, chnReadTimeout and      *)
(* chnWrite on the board and a serial port on the host: two bounded byte   *)
(* queues, one per direction, each first in first out, with back-pressure  *)
(* instead of loss.  Only a new configuration empties them.  How bytes     *)
(* are grouped into buffers, when a partly filled one is flushed and which *)
(* bus events happen in between cannot be seen here.                       *)
(*                                                                         *)
(* Bytes are numbered from 1 in each direction, as in SerialUsb, which is  *)
(* shown to implement this specification.                                  *)
(***************************************************************************)
EXTENDS Integers, Sequences

CONSTANT Capacity            \* bytes a queue holds: buffers times their size

VARIABLES
  input,                     \* sent by the host and not yet read
  output,                    \* written by the board and not yet got
  sent, delivered,           \* history of the first direction
  written, got               \* history of the second

chan == <<input, output, sent, delivered, written, got>>

Init ==
  /\ input = << >>
  /\ output = << >>
  /\ sent = 0
  /\ delivered = << >>
  /\ written = 0
  /\ got = << >>

Numbered(from, k) == [i \in 1..k |-> from + i]

HostSends(k) ==
  /\ sent' = sent + k
  /\ UNCHANGED <<delivered, written, got>>
  /\ Len(input) + k <= Capacity
  /\ input' = input \o Numbered(sent, k)
  /\ UNCHANGED output

BoardReads(k) ==
  /\ Len(delivered') = Len(delivered) + k
  /\ UNCHANGED <<sent, written, got>>
  /\ k <= Len(input)
  /\ delivered' = delivered \o SubSeq(input, 1, k)
  /\ input' = SubSeq(input, k + 1, Len(input))
  /\ UNCHANGED output

BoardWrites(k) ==
  /\ written' = written + k
  /\ UNCHANGED <<sent, delivered, got>>
  /\ Len(output) + k <= Capacity
  /\ output' = output \o Numbered(written, k)
  /\ UNCHANGED input

HostGets(k) ==
  /\ Len(got') = Len(got) + k
  /\ UNCHANGED <<sent, delivered, written>>
  /\ k <= Len(output)
  /\ got' = got \o SubSeq(output, 1, k)
  /\ output' = SubSeq(output, k + 1, Len(output))
  /\ UNCHANGED input

(* SET_CONFIGURATION: both directions start again, whatever was in them.   *)
Restart ==
  /\ sent' = 0
  /\ delivered' = << >>
  /\ written' = 0
  /\ got' = << >>
  /\ input' = << >>
  /\ output' = << >>

Next ==
  \/ \E k \in 1..Capacity :
       HostSends(k) \/ BoardReads(k) \/ BoardWrites(k) \/ HostGets(k)
  \/ Restart

Spec == Init /\ [][Next]_chan
=============================================================================
