-------------------------------- MODULE Octets ---------------------------------
(***************************************************************************)
(* Strings of octets as numbers (_utils.py) and as streams of bits         *)
(* (mldsa.py and mlkem.py).  A string is a sequence of numbers below Base. *)
(***************************************************************************)
EXTENDS ModArith
SX == INSTANCE SequencesExt

CONSTANT OctetBits    \* 8 in the code

Base == 2 ^ OctetBits

XorOctet(a, b) ==
  LET x[i \in 0 .. OctetBits] ==
        IF i = 0 THEN 0 ELSE x[i - 1] + (IF Bit(a, i - 1) = Bit(b, i - 1) THEN 0 ELSE 2 ^ (i - 1))
  IN  x[OctetBits]
Xor(s, t) == [i \in 1 .. Len(s) |-> XorOctet(s[i], t[i])]

Os2ip(s) == SX!FoldLeft(LAMBDA value, octet : value * Base + octet, 0, s)
I2osp(x, length) == [i \in 1 .. length |-> (x \div Base ^ (length - i)) % Base]

\* The whole octets of the accumulator go out; nacc is the number of its bits.
Flushed(s) ==
  LET count == s.nacc \div OctetBits
  IN  [out |-> s.out \o [j \in 1 .. count |-> (s.acc \div Base ^ (j - 1)) % Base],
       acc |-> s.acc \div Base ^ count, nacc |-> s.nacc % OctetBits]

\* _pack_bits, _byte_encode of values below 2 ^ bits.
PackBits(values, bits) ==
  SX!FoldLeft(LAMBDA s, v : Flushed([s EXCEPT !.acc = @ + v * 2 ^ s.nacc, !.nacc = @ + bits]),
           [out |-> <<>>, acc |-> 0, nacc |-> 0], values).out

\* The accumulator after the octets that the next value needs.
Refilled(s, data, bits) ==
  LET count == IF s.nacc >= bits THEN 0 ELSE (bits - s.nacc + OctetBits - 1) \div OctetBits
      acc[j \in 0 .. count] ==
        IF j = 0 THEN s.acc ELSE acc[j - 1] + data[s.pos + j] * 2 ^ (s.nacc + OctetBits * (j - 1))
  IN  [s EXCEPT !.acc = acc[count], !.nacc = @ + OctetBits * count, !.pos = @ + count]

\* _unpack_bits, _byte_decode
UnpackBits(data, bits) ==
  LET Step(s, i) ==
        LET r == Refilled(s, data, bits)
        IN  [r EXCEPT !.values = Append(@, r.acc % 2 ^ bits), !.acc = @ \div 2 ^ bits, !.nacc = @ - bits]
  IN  SX!FoldLeft(Step, [values |-> <<>>, acc |-> 0, nacc |-> 0, pos |-> 0],
               [i \in 1 .. (Len(data) * OctetBits) \div bits |-> i]).values

-----------------------------------------------------------------------------

\* Packed values are one stream of bits, the low ones first, whatever the width of a value
\* and where the octets end, and they come back.
PacksTheBits(values, bits) ==
  LET s == PackBits(values, bits)
  IN  /\ Len(s) * OctetBits = Len(values) * bits
      /\ \A i \in 0 .. Len(values) * bits - 1 :
           Bit(s[i \div OctetBits + 1], i % OctetBits) = Bit(values[i \div bits + 1], i % bits)
      /\ UnpackBits(s, bits) = values
=============================================================================
