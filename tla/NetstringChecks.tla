-------------------------- MODULE NetstringChecks --------------------------
(***************************************************************************)
(* The decoder at work, against definitions that do not follow its code:   *)
(* the tokenizer against positions in the text, the length and the message *)
(* against what the host framed, the pulse width against the sawtooth it   *)
(* is of the number in the request.                                        *)
(***************************************************************************)
EXTENDS CommunicationThread

CONSTANT Numbers             \* the numbers that requests may carry

ASSUME NumbersAssumption == Numbers \subseteq Int

(* A number as the host writes it.                                         *)
Signed(n) == IF n < 0 THEN <<"-">> \o Decimal[-n] ELSE Decimal[n]

(* Where the maximal runs of cells other than d begin in s.                *)
RunStarts(s, d) == {i \in DOMAIN s : s[i] # d /\ (i = 1 \/ s[i - 1] = d)}

(* The k-th such run, NULL when there are fewer.                           *)
Run(s, d, k) ==
  LET starts == {i \in RunStarts(s, d) :
                   Cardinality({j \in RunStarts(s, d) : j < i}) = k - 1}
      i == CHOOSE i \in starts : TRUE
      ends == {j \in i..Len(s) : \A m \in i..j : s[m] # d}
  IN  IF starts = {} THEN NULL
      ELSE SubSeq(s, i, CHOOSE j \in ends : \A m \in ends : m <= j)

(***************************************************************************)
(* When a whole request is decoded, decodeMessage finds the payload that   *)
(* the host framed, bars and colons included, and its length; the fields   *)
(* that decodeNetstring takes are its first three runs between bars: an    *)
(* empty field is no field, the next one takes its place, and a field that *)
(* is missing is NULL.                                                     *)
(***************************************************************************)
ParserIsRight ==
  pc = "decode" =>
    LET r == Head(outstanding)
        s == CString(readBuffer)
        m == MessageField(s)
    IN  /\ LengthField(s) = Len(r)
        /\ m = r
        /\ Command(m) = Run(r, "|", 1)
        /\ Sensor(m) = Run(r, "|", 2)
        /\ Value(m) = Run(r, "|", 3)

(* The least percentages whose product with the period passes a multiple   *)
(* of 2^32.                                                                *)
Wraps == {0, 429496730, 858993460, 1288490189, 1717986919}

(* One tick in ten for each 1000, from zero again wherever the product     *)
(* leaves 32 bits; a negative number is one of the last tooth.             *)
Sawtooth(n) ==
  LET p == IF n >= 0 THEN n ELSE (n + 2147483647) + 1
      tooth == CHOOSE w \in Wraps : w <= p /\ \A v \in Wraps : v <= p => v <= w
  IN  (p - tooth) \div 1000

(***************************************************************************)
(* The width that a PWM channel has when its request is acknowledged is    *)
(* the sawtooth of the number in that request, for any int.                *)
(***************************************************************************)
WidthIsSawtooth ==
  \A i \in 1..Len(obq) :
    LET r == Head(outstanding)
    IN  \A n \in Numbers :
          (/\ Strstr(Command(r), "set")
           /\ Selected(Sensor(r)) \in ToSet(Pwms)
           /\ Value(r) = Signed(n))
            => board[Line(Selected(Sensor(r)))] = Sawtooth(n)
=============================================================================
