-------------------------------- MODULE MCPem ---------------------------------
(* Texts of up to three pieces: lines, fragments of lines, and whole blocks; *)
(* and blocks among text that is not ASCII.                                  *)
EXTENDS Pem
LOCAL INSTANCE SequencesExt

CONSTANTS cert, key, lower, one, two, pad, junk

MCLabels == {cert, key}
MCCertificates == {<<one>>, <<two, pad>>}

\* A text with every line end replaced.
WithEnds(t, ends) ==
  FlattenSeq([k \in DOMAIN t |-> IF t[k] = LF THEN ends ELSE <<t[k]>>])

One == EncodePem(cert, <<one>>)
Two == EncodePem(cert, <<two, pad>>)
Key == EncodePem(key, <<junk>>)

Fragments ==
  {<<BEGIN(cert), LF>>, <<BEGIN(key), LF>>, <<BEGIN(lower), LF>>, <<END(cert), LF>>, <<END(key), LF>>,
   <<BEGIN(cert)>>, <<END(cert)>>, <<Chunk(one), LF>>, <<Chunk(pad)>>, <<Other>>, <<Other, LF>>,
   <<LF>>, <<CR>>}

BlockPieces ==
  {One, Two, Key, EncodePem(cert, <<junk>>), EncodePem(cert, <<>>), EncodePem(cert, <<pad, two>>),
   WithEnds(One, <<CR>>), WithEnds(Key, <<CR>>), WithEnds(Two, <<CR, LF>>), WithEnds(Two, <<LF, LF>>),
   <<BEGIN(key), LF, Other, LF, Chunk(junk), LF, END(key), LF>>}

Pieces == Fragments \cup BlockPieces

\* Lines that are not ASCII and what they may stand among.
ForeignPieces == {<<Foreign, LF>>, <<Foreign>>, <<NEL>>, <<Foreign, CR>>}
AmongForeign == ForeignPieces \cup {One, Two, Key, <<LF>>, <<CR>>, <<BEGIN(cert), LF>>, <<END(cert)>>}

MCTexts == {<<>>} \cup Pieces
           \cup {a \o b : a, b \in Pieces} \cup {a \o b \o c : a, b, c \in Pieces}
           \cup {a \o b \o c : a, b, c \in AmongForeign}
           \cup {WithEnds(One, <<NEL>>), WithEnds(One, <<Foreign, LF>>), WithEnds(Key, <<NEL, LF>>)}
           \cup {a \o b \o c \o d : a, b, c, d \in {One, Two, Key, <<Other, LF>>, <<END(key), LF>>}}
=============================================================================
