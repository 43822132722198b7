------------------------------ MODULE DerGrammar ------------------------------
(***************************************************************************)
(* What DerDecode should do, from the encoders: a string of octets is DER  *)
(* when it is an encoding of something.  The rules for contents are stated *)
(* on the values they stand for and not on the octets that the decoder     *)
(* looks at.                                                               *)
(***************************************************************************)
EXTENDS DerDecode

CONSTANTS
  Numbers, Oids, BitStrings   \* arguments of encode_integer, encode_oid, encode_bit_string

ASSUME ArgumentsAssumption ==
  Numbers \subseteq Nat /\ Oids \subseteq Seq(Nat) /\ BitStrings \subseteq Seq(Octet) \X Nat
\* _first_tlv of x509.py has a bound of its own for the octets of a length.
ASSUME FirstTlvAssumption == MaxLenOctets <= 8
\* No string is so long that its length needs more octets than the decoder takes.
ASSUME SizesAssumption ==
  \A s \in Inputs : \A n \in 0 .. Len(s) : Len(EncodeLength(n)) <= 1 + MaxLenOctets

\* A two's complement number in the fewest octets: without the first it is another one.
ShortestInteger(c) ==
  /\ Len(c) > 0
  /\ Len(c) > 1 => SignedIntValue(Tail(c)) # SignedIntValue(c)

\* Bits beyond the ones the first octet leaves are zero; there are at least as
\* many bits as are unused.
BitsOnly(c) ==
  /\ Len(c) > 0
  /\ c[1] \in 0 .. 7 /\ c[1] <= 8 * (Len(c) - 1)
  /\ \A bit \in 0 .. c[1] - 1 : (c[Len(c)] \div 2 ^ bit) % 2 = 0

\* Every arc ends, and none begins with a zero digit.
ArcsShortest(c) ==
  /\ Len(c) > 0 /\ c[Len(c)] < 128
  /\ \A k \in 1 .. Len(c) : c[k] = 128 => k > 1 /\ c[k - 1] >= 128

ContentIsDer(tag, c) ==
  CASE tag = TAG_INTEGER    -> ShortestInteger(c)
    [] tag = TAG_BIT_STRING -> BitsOnly(c)
    [] tag = TAG_OID        -> ArcsShortest(c)
    [] OTHER                -> TRUE

TagIsDer(tag) ==
  /\ \E class \in 0 .. 3, constructed \in 0 .. 1, number \in 0 .. 30 :
       tag = 64 * class + 32 * constructed + number
  /\ tag \notin {0, 16, 17}
  /\ tag \in 32 .. 63 => tag \in {TAG_SEQUENCE, TAG_SET}

\* The n octets of s after the first b encode an element that has depth ancestors; its content
\* is one of the series.
IsElement(s, b, n, depth, series) ==
  LET tag == s[b + 1]
  IN  \E size \in (n - 2 - MaxLenOctets .. n - 2) \cap Nat :
        LET content == SubSeq(s, b + n - size + 1, b + n)
        IN  /\ SubSeq(s, b + 1, b + n) = EncodeTlv(tag, content)
            /\ TagIsDer(tag) /\ ContentIsDer(tag, content)
            /\ IsConstructed(tag) =>
                 depth < MaxNesting /\ series[size][b + n - size][depth + 1]

\* Whether the n octets of s after the first b encode elements, one after the other.
Series(s) ==
  LET series[n \in 0 .. Len(s)] ==
        [b \in 0 .. Len(s) - n |-> [depth \in 0 .. MaxNesting |->
           \/ n = 0
           \/ \E k \in 1 .. n : /\ IsElement(s, b, k, depth, series)
                                /\ series[n - k][b + k][depth]]]
  IN  series

ElementIsDer(s)  == IsElement(s, 0, Len(s), 0, Series(s))
ElementsAreDer(s) == Series(s)[Len(s)][0][0]

\* The octets that a node was read from, and those of siblings.
Encoding(node)      == EncodeTlv(node.tag, node.content)
Encodings(siblings) == FlattenSeq([k \in DOMAIN siblings |-> Encoding(siblings[k])])

\* The encoding of what the typed accessors return.
Reencode(node) ==
  CASE IsConstructed(node.tag) -> EncodeTlv(node.tag, Encodings(node.children))
    [] node.tag = TAG_INTEGER /\ ~IsNegative(node.content) ->
         EncodeInteger(IntValue(node.content))
    [] node.tag = TAG_BIT_STRING ->
         EncodeBitString(Payload(node.content), UnusedBits(node.content))
    [] node.tag = TAG_OID -> EncodeOid(OidValue(node.content))
    [] OTHER -> Encoding(node)

\* _first_tlv of x509.py: the octets of the first element in content, which a signature is over.
FirstTlv(content) ==
  LET first == content[2]
      count == first - 128
      total == IF first < 128 THEN 2 + first ELSE 2 + count + FromBytes(SubSeq(content, 3, 2 + count))
  IN  IF \/ Len(content) < 2
         \/ first >= 128 /\ count \notin 1 .. 8
         \/ first >= 128 /\ 2 + count > Len(content)
         \/ total > Len(content)
      THEN Malformed ELSE SubSeq(content, 1, total)

-----------------------------------------------------------------------------

\* The decoder accepts the DER encodings and nothing else, up to the nesting
\* bound and the size of lengths.
AcceptsExactlyDer ==
  outcome # "running" =>
    (outcome = "accepted" <=> IF mode = "decode" THEN ElementIsDer(input)
                                                  ELSE ElementsAreDer(input))

IntegerEncodings == {<<EncodeInteger(n), n>> : n \in Numbers}
OidEncodings == {<<EncodeOid(o), o>> : o \in {o \in Oids : OidEncodable(o)}}
BitStringEncodings ==
  {<<EncodeBitString(b[1], b[2]), b>> : b \in {b \in BitStrings : BitStringEncodable(b[1], b[2])}}

\* Decoding and encoding are inverse: every node, encoded again from its typed value or its
\* children, gives the octets it was read from (so that no value has a second encoding), and
\* those of the nodes that are returned are the input; the decoder accepts what the typed
\* encoders produce, and the accessors return what was encoded.  The octets that are cut out
\* for a signature are those of the first child as it was decoded (x509.py:578-592).
RoundTrip ==
  /\ \A level \in DOMAIN kids : \A k \in DOMAIN kids[level] :
       LET node == kids[level][k]
       IN  /\ Reencode(node) = Encoding(node)
           /\ IsConstructed(node.tag) =>
                FirstTlv(node.content) =
                  IF node.children = <<>> THEN Malformed ELSE Encoding(node.children[1])
  /\ outcome = "accepted" => Encodings(nodes) = input
  /\ outcome # "running" =>
       /\ \A e \in IntegerEncodings : input = e[1] =>
            /\ outcome = "accepted"
            /\ ~IsNegative(nodes[1].content) /\ IntValue(nodes[1].content) = e[2]
       /\ \A e \in OidEncodings : input = e[1] =>
            outcome = "accepted" /\ OidValue(nodes[1].content) = e[2]
       /\ \A e \in BitStringEncodings : input = e[1] =>
            /\ outcome = "accepted"
            /\ <<Payload(nodes[1].content), UnusedBits(nodes[1].content)>> = e[2]
=============================================================================
