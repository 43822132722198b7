--------------------------------- MODULE Der ----------------------------------
(***************************************************************************)
(* The codec of asn1.py without its recursion: lengths, contents of the    *)
(* primitive types, tags, and the encoders.  Octets are the numbers 0..255 *)
(* and a string of octets is a sequence.                                   *)
(***************************************************************************)
EXTENDS Integers, Sequences, SequencesExt

CONSTANT MaxLenOctets     \* _MAX_LEN_OCTETS
ASSUME MaxLenOctetsAssumption == MaxLenOctets \in 1 .. 126

TAG_INTEGER      == 2
TAG_BIT_STRING   == 3
TAG_OCTET_STRING == 4
TAG_NULL         == 5
TAG_OID          == 6
TAG_SEQUENCE     == 48
TAG_SET          == 49

Octet == 0 .. 255

Number      == 0 .. 31     \* the tag numbers
IsConstructed(tag) == (tag \div 32) % 2 = 1
TagNumber(tag)     == tag % 32
TagClass(tag)      == tag \div 64

\* int.from_bytes(s, "big"), after octets that stand for first.
BytesAfter(first, s) ==
  LET value[k \in 0 .. Len(s)] == IF k = 0 THEN first ELSE value[k - 1] * 256 + s[k]
  IN  value[Len(s)]

FromBytes(s) == BytesAfter(0, s)

-----------------------------------------------------------------------------
(* The decoder's rules.                                                      *)

\* _read_tlv and _check_universal_tag
TagAllowed(tag) ==
  /\ TagNumber(tag) # 31
  /\ TagClass(tag) = 0 =>
       /\ tag # 0
       /\ IF IsConstructed(tag) THEN tag \in {TAG_SEQUENCE, TAG_SET}
                                ELSE tag \notin {16, 17}

Malformed == <<>>

\* The length field at pos (from 0) of data, of which only the part before
\* limit is visible, and the position after it; Malformed for an exception.
ReadLength(data, pos, limit) ==
  LET first == data[pos + 1]
      count == first - 128
      value == FromBytes(SubSeq(data, pos + 2, pos + 1 + count))
  IN  IF pos >= limit THEN Malformed
      ELSE IF first < 128 THEN <<first, pos + 1>>
      ELSE IF \/ count = 0 \/ count > MaxLenOctets \/ pos + 1 + count > limit
              \/ data[pos + 2] = 0 \/ value < 128
           THEN Malformed
      ELSE <<value, pos + 1 + count>>

IntegerAllowed(c) ==
  /\ c # <<>>
  /\ Len(c) > 1 => /\ ~(c[1] = 0 /\ c[2] < 128)
                   /\ ~(c[1] = 255 /\ c[2] >= 128)

\* Mutant: unused bits of an empty bit string are let through.
BitStringAllowedEmptyUnused(c) ==
  /\ c # <<>> /\ c[1] <= 7
  /\ c[1] # 0 /\ Len(c) > 1 => c[Len(c)] % 2 ^ c[1] = 0

BitStringAllowed(c) ==
  /\ c # <<>> /\ c[1] <= 7
  /\ Len(c) = 1 => c[1] = 0
  /\ c[1] # 0 => c[Len(c)] % 2 ^ c[1] = 0

\* _parse_base128: the arcs read so far, the value of the open one and
\* whether it has begun; bad after an exception.
ArcStep(arcs, octet) ==
  LET value == arcs.value * 128 + (octet % 128)
  IN  IF arcs.bad \/ (arcs.value = 0 /\ octet = 128)
      THEN [arcs EXCEPT !.bad = TRUE]
      ELSE IF octet >= 128
      THEN [done |-> arcs.done, value |-> value, open |-> TRUE, bad |-> FALSE]
      ELSE [done |-> Append(arcs.done, value), value |-> 0, open |-> FALSE, bad |-> FALSE]

ParseBase128(c) ==
  LET arcs[k \in 0 .. Len(c)] ==
        IF k = 0 THEN [done |-> <<>>, value |-> 0, open |-> FALSE, bad |-> FALSE]
                 ELSE ArcStep(arcs[k - 1], c[k])
  IN  arcs[Len(c)]

OidAllowed(c) == c # <<>> /\ ~ParseBase128(c).bad /\ ~ParseBase128(c).open

ContentAllowed(tag, c) ==
  /\ tag = TAG_INTEGER => IntegerAllowed(c)
  /\ tag = TAG_BIT_STRING => BitStringAllowed(c)
  /\ tag = TAG_OID => OidAllowed(c)

-----------------------------------------------------------------------------
(* The typed accessors, on the content of a node of the right tag.           *)

IsNegative(c) == c[1] >= 128          \* int_value raises
IntValue(c)   == FromBytes(c)
SignedIntValue(c) == BytesAfter(IF IsNegative(c) THEN c[1] - 256 ELSE c[1], Tail(c))

UnusedBits(c) == c[1]
Payload(c)    == Tail(c)

OidValue(c) ==
  LET arcs  == ParseBase128(c).done
      first == IF arcs[1] \div 40 < 2 THEN arcs[1] \div 40 ELSE 2
  IN  <<first, arcs[1] - first * 40>> \o Tail(arcs)

-----------------------------------------------------------------------------
(* The encoders.                                                             *)

\* The digits of n in base b, without leading zeros (at least one digit).
Digits(n, b) ==
  LET d[k \in Nat] == IF k < b THEN <<k>> ELSE Append(d[k \div b], k % b)
  IN  d[n]

EncodeLength(n) ==
  IF n < 128 THEN <<n>> ELSE <<128 + Len(Digits(n, 256))>> \o Digits(n, 256)

EncodeTlv(tag, c) == <<tag>> \o EncodeLength(Len(c)) \o c

\* Mutant: no zero octet before a set sign bit.
EncodeIntegerUnsigned(n) == EncodeTlv(TAG_INTEGER, Digits(n, 256))

EncodeInteger(n) ==
  LET raw == Digits(n, 256)
  IN  EncodeTlv(TAG_INTEGER, IF raw[1] >= 128 THEN <<0>> \o raw ELSE raw)

\* The arguments for which encode_bit_string does not raise.
BitStringEncodable(data, unused) ==
  /\ unused \in 0 .. 7
  /\ data = <<>> => unused = 0
  /\ unused # 0 => data[Len(data)] % 2 ^ unused = 0

EncodeBitString(data, unused) == EncodeTlv(TAG_BIT_STRING, <<unused>> \o data)

Base128(n) ==
  LET d == Digits(n, 128)
  IN  [k \in 1 .. Len(d) |-> IF k < Len(d) THEN d[k] + 128 ELSE d[k]]

\* The arcs for which encode_oid does not raise.
OidEncodable(arcs) ==
  /\ Len(arcs) >= 2 /\ \A k \in 1 .. Len(arcs) : arcs[k] >= 0
  /\ arcs[1] \in 0 .. 2
  /\ arcs[1] < 2 => arcs[2] \in 0 .. 39

EncodeOid(arcs) ==
  EncodeTlv(TAG_OID, FlattenSeq([k \in 1 .. Len(arcs) - 1 |->
              Base128(IF k = 1 THEN 40 * arcs[1] + arcs[2] ELSE arcs[k + 1])]))

EncodeSequence(items) == EncodeTlv(TAG_SEQUENCE, FlattenSeq(items))
EncodeContext(number, items) == EncodeTlv(160 + number, FlattenSeq(items))
EncodeContextPrimitive(number, c) == EncodeTlv(128 + number, c)
=============================================================================
