--------------------------------- MODULE Pem ----------------------------------
(***************************************************************************)
(* A call of decode_pem (pem.py), of Certificate.from_pem or of            *)
(* load_pem_bundle (x509.py).  The last one finds the end of a block by    *)
(* searching the text and hands the slice to decode_pem, which reads lines.*)
(*                                                                         *)
(* The argument is a str or bytes.  decode_pem turns bytes into a str      *)
(* first, load_pem_bundle a str into bytes, which fails on a character     *)
(* that is not ASCII wherever it is; the slices of a bundle are bytes      *)
(* again.                                                                  *)
(*                                                                         *)
(* A text is a sequence of tokens: markers, base64 chunks, other text and  *)
(* line ends.  A marker is "-----BEGIN label-----" or "-----END label-----"*)
(* whole, in ASCII; white space around a line, which is stripped, has no   *)
(* token.                                                                  *)
(***************************************************************************)
EXTENDS Integers, Sequences

CONSTANTS
  Texts,         \* the texts that are read
  Labels,        \* the labels that _LABEL_RE lets through
  CERTIFICATE,   \* PEM_CERTIFICATE
  Padded,        \* the chunks of base64 that end with "="
  Certificates   \* the bodies for which Certificate.from_der does not raise

NoLabel == "no label"
NoValue == "no value"   \* of a token that is only of its kind
NoBlock == -1

Token(kind, value) == [kind |-> kind, value |-> value]
BEGIN(label) == Token("begin", label)
END(label)   == Token("end", label)
Chunk(c)     == Token("base64", c)
Other        == Token("other", NoValue)
LF           == Token("LF", NoValue)   \* "\n", which load_pem_bundle looks for
CR           == Token("CR", NoValue)   \* any other ASCII end of a line that splitlines knows
Foreign      == Token("foreign", NoValue)   \* other text, not all of it ASCII
NEL          == Token("NEL", NoValue)       \* an end of a line that is not ASCII

ASSUME PemAssumption ==
  /\ CERTIFICATE \in Labels /\ NoLabel \notin Labels
  /\ \A t \in Texts :
       /\ t \in Seq({t[k] : k \in 1 .. Len(t)})
       /\ \A k \in 1 .. Len(t) :
            \/ t[k] \in {Other, LF, CR, Foreign, NEL}
            \/ t[k].kind \in {"begin", "end", "base64"} /\ t[k] = Token(t[k].kind, t[k].value)

IsMarker(token)  == token.kind \in {"begin", "end"}
IsLineEnd(token) == token.kind \in {"LF", "CR", "NEL"}

VARIABLES
  text, form,    \* the argument, "str" or "bytes"
  call,          \* "decode_pem", "from_pem" or "load_pem_bundle"
  searchFrom,    \* where the search for the next block starts
  blockEnd,      \* the end of the slice given to decode_pem; NoBlock between its calls
  cursor,        \* the start of its next line
  label, body,   \* its variables; NoLabel before the BEGIN line
  result,        \* the bodies that the call returns
  status         \* "running", "returned", or "raised"

pemVars == <<text, form, call, searchFrom, blockEnd, cursor, label, body, result, status>>

-----------------------------------------------------------------------------

\* raw.find: the first of the positions, 0 if there is none.
First(positions) ==
  IF positions = {} THEN 0 ELSE CHOOSE k \in positions : \A j \in positions : k <= j

\* text.count("-----BEGIN")
Begins(t) == {k \in 1 .. Len(t) : t[k].kind = "begin"}

\* The tokens of t from i to j are ASCII.
AsciiIn(t, i, j) == \A k \in i .. j : t[k] \notin {Foreign, NEL}
IsAscii(t) == AsciiIn(t, 1, Len(t))

\* The calls that convert their argument before they read it.
Converts == form = IF call = "load_pem_bundle" THEN "str" ELSE "bytes"

PemInit ==
  /\ text \in Texts /\ form \in {"str", "bytes"}
  /\ call \in {"decode_pem", "from_pem", "load_pem_bundle"}
  /\ searchFrom = 1 /\ cursor = 1
  /\ blockEnd = IF call = "load_pem_bundle" THEN NoBlock ELSE Len(text)
  /\ label = NoLabel /\ body = <<>> /\ result = <<>>
  /\ status = IF \/ call = "from_pem" /\ \E j, k \in Begins(text) : j # k
                 \/ Converts /\ ~IsAscii(text)
              THEN "raised" ELSE "running"

\* The block that the search finds: where it starts and the end of the line of its END.
BeginFrom(t, i)   == First({k \in i .. Len(t) : t[k].kind = "begin"})
EndFrom(t, i)     == First({k \in i .. Len(t) : t[k].kind = "end"})
NewLineFrom(t, i) == First({k \in i .. Len(t) : t[k] = LF})
Start   == BeginFrom(text, searchFrom)
EndMark == EndFrom(text, Start)
NewLine == NewLineFrom(text, EndMark)
CutAt   == IF NewLine = 0 THEN Len(text) ELSE NewLine

Raise ==
  /\ status' = "raised"
  /\ UNCHANGED <<text, form, call, searchFrom, blockEnd, cursor, label, body, result>>

\* Mutant: the search for END begins where the search for BEGIN did.
FindBlockFromPos ==
  LET end     == EndFrom(text, searchFrom)
      newLine == NewLineFrom(text, end)
      cutAt   == IF newLine = 0 THEN Len(text) ELSE newLine
  IN
  /\ status = "running" /\ blockEnd = NoBlock /\ Start # 0 /\ end # 0 /\ AsciiIn(text, Start, cutAt)
  /\ blockEnd' = cutAt
  /\ cursor' = Start /\ label' = NoLabel /\ body' = <<>>
  /\ UNCHANGED <<text, form, call, searchFrom, result, status>>

FindBlock ==
  /\ status = "running" /\ blockEnd = NoBlock /\ Start # 0 /\ EndMark # 0
  /\ AsciiIn(text, Start, CutAt) /\ blockEnd' = CutAt
  /\ cursor' = Start /\ label' = NoLabel /\ body' = <<>>
  /\ UNCHANGED <<text, form, call, searchFrom, result, status>>

\* decode_pem raises on the slice before it reads a line.
ForeignBlock ==
  /\ status = "running" /\ blockEnd = NoBlock /\ Start # 0 /\ EndMark # 0
  /\ ~AsciiIn(text, Start, CutAt)
  /\ Raise

\* A BEGIN without an END behind it, or no more BEGIN.
EndOfBundle ==
  /\ status = "running" /\ blockEnd = NoBlock /\ (Start # 0 => EndMark = 0)
  /\ status' = IF Start # 0 \/ result = <<>> THEN "raised" ELSE "returned"
  /\ UNCHANGED <<text, form, call, searchFrom, blockEnd, cursor, label, body, result>>

-----------------------------------------------------------------------------
(* decode_pem, one line at a time.                                           *)

\* The line at cursor ends before LineEnd.
LineEnd ==
  CHOOSE k \in cursor .. blockEnd + 1 :
    /\ k = blockEnd + 1 \/ IsLineEnd(text[k])
    /\ \A j \in cursor .. k - 1 : ~IsLineEnd(text[j])
Line == SubSeq(text, cursor, LineEnd - 1)

\* _strip_marker: a line that starts with the prefix of a marker of this kind and
\* ends with dashes; it raises unless a label is in between.
IsMarkerLine(line, kind) ==
  line # <<>> /\ line[1].kind = kind /\ IsMarker(line[Len(line)])
HasLabel(line) == Len(line) = 1 /\ line[1].value \in Labels

IsBase64(line) == line # <<>> /\ \A k \in 1 .. Len(line) : line[k].kind = "base64"

Chunks(line) == [k \in 1 .. Len(line) |-> line[k].value]

\* _decode_body: padding stands at the end only.
BodyDecodes(b) == b # <<>> /\ \A k \in 1 .. Len(b) - 1 : b[k] \notin Padded

InBlock == status = "running" /\ blockEnd # NoBlock /\ cursor <= blockEnd

\* Outside the armor.
BeginLine ==
  /\ InBlock /\ label = NoLabel /\ IsMarkerLine(Line, "begin") /\ HasLabel(Line)
  /\ label' = Line[1].value /\ cursor' = LineEnd + 1
  /\ UNCHANGED <<text, form, call, searchFrom, blockEnd, body, result, status>>

SkipLine ==
  /\ InBlock
  /\ IF label = NoLabel THEN ~IsMarkerLine(Line, "begin") ELSE Line = <<>>
  /\ cursor' = LineEnd + 1
  /\ UNCHANGED <<text, form, call, searchFrom, blockEnd, label, body, result, status>>

BodyLine ==
  /\ InBlock /\ label # NoLabel /\ IsBase64(Line)
  /\ body' = body \o Chunks(Line) /\ cursor' = LineEnd + 1
  /\ UNCHANGED <<text, form, call, searchFrom, blockEnd, label, result, status>>

\* What the three callers do with a block.
Accepted == call = "decode_pem" \/ (label = CERTIFICATE /\ body \in Certificates)
Ignored  == call = "load_pem_bundle" /\ label # CERTIFICATE

\* Mutant: END is not compared with BEGIN.
EndMatchesAnything == IsMarkerLine(Line, "end") /\ HasLabel(Line) /\ BodyDecodes(body)

EndMatches ==
  IsMarkerLine(Line, "end") /\ HasLabel(Line) /\ Line[1].value = label /\ BodyDecodes(body)

\* Mutant: a block of another label ends the call.
EndLineStopping ==
  /\ InBlock /\ label # NoLabel /\ EndMatches /\ (Accepted \/ Ignored)
  /\ result' = IF Ignored THEN result ELSE Append(result, body)
  /\ IF call = "load_pem_bundle" /\ ~Ignored
     THEN searchFrom' = blockEnd + 1 /\ blockEnd' = NoBlock /\ UNCHANGED status
     ELSE status' = "returned" /\ UNCHANGED <<searchFrom, blockEnd>>
  /\ UNCHANGED <<text, form, call, cursor, label, body>>

EndLine ==
  /\ InBlock /\ label # NoLabel /\ EndMatches /\ (Accepted \/ Ignored)
  /\ result' = IF Ignored THEN result ELSE Append(result, body)
  /\ IF call = "load_pem_bundle"
     THEN searchFrom' = blockEnd + 1 /\ blockEnd' = NoBlock /\ UNCHANGED status
     ELSE status' = "returned" /\ UNCHANGED <<searchFrom, blockEnd>>
  /\ UNCHANGED <<text, form, call, cursor, label, body>>

\* A malformed marker, a mismatch, a body that does not decode, anything else in the armor.
BadLine ==
  /\ InBlock
  /\ IF label = NoLabel
     THEN IsMarkerLine(Line, "begin") /\ ~HasLabel(Line)
     ELSE /\ Line # <<>> /\ ~IsBase64(Line)
          /\ ~(EndMatches /\ (Accepted \/ Ignored))
  /\ Raise

\* The slice ends in the middle of a block, or before one.
EndOfBlock ==
  /\ status = "running" /\ blockEnd # NoBlock /\ cursor > blockEnd
  /\ Raise

PemNext ==
  \/ FindBlock \/ ForeignBlock \/ EndOfBundle
  \/ BeginLine \/ SkipLine \/ BodyLine \/ EndLine \/ BadLine \/ EndOfBlock

PemSpec == PemInit /\ [][PemNext]_pemVars

\* encode_pem, for a body that is given in lines.
EncodePem(l, chunks) ==
  <<BEGIN(l), LF>>
  \o [k \in 1 .. 2 * Len(chunks) |-> IF k % 2 = 1 THEN Chunk(chunks[(k + 1) \div 2]) ELSE LF]
  \o <<END(l), LF>>

-----------------------------------------------------------------------------
(* What the readers of PEM promise, stated on the positions of the markers *)
(* in the text instead of a scan over it.                                  *)

\* The blocks of a text: a BEGIN and an END with nothing but base64 and line ends between.
Blocks(t) ==
  {b \in (1 .. Len(t)) \X (1 .. Len(t)) :
     /\ b[1] < b[2]
     /\ \E l \in Labels : t[b[1]] = BEGIN(l) /\ t[b[2]] = END(l)
     /\ \A k \in b[1] + 1 .. b[2] - 1 : t[k].kind = "base64" \/ IsLineEnd(t[k])}

\* The chunks of base64 from the position first to each position.
ChunksFrom(t, first) ==
  LET chunks[n \in 0 .. Len(t)] ==
        IF n < first THEN <<>>
        ELSE IF t[n].kind = "base64" THEN Append(chunks[n - 1], t[n].value) ELSE chunks[n - 1]
  IN  chunks

BodyOf(t, b) == ChunksFrom(t, b[1])[b[2]]

CertificateBlocks(t) == {b \in Blocks(t) : t[b[1]].value = CERTIFICATE}

\* A marker with a line of its own.
Alone(t, k) == /\ k > 1 => IsLineEnd(t[k - 1])
               /\ k < Len(t) => IsLineEnd(t[k + 1])

GoodBlock(t, b) == Alone(t, b[1]) /\ Alone(t, b[2]) /\ BodyDecodes(BodyOf(t, b))

\* Every BEGIN is that of a good block; what is outside of the blocks does not matter.
WellFormed(t) == \A k \in Begins(t) : \E b \in Blocks(t) : b[1] = k /\ GoodBlock(t, b)

Loadable(t) ==
  CertificateBlocks(t) # {} /\ \A b \in CertificateBlocks(t) : BodyOf(t, b) \in Certificates

\* A text for from_pem: one BEGIN, that of a certificate.
Single(t) ==
  /\ \A j, k \in Begins(t) : j = k
  /\ \A k \in Begins(t) : \E b \in CertificateBlocks(t) : b[1] = k

\* load_pem_bundle searches for "\n" (x509.py:1147): of blocks whose lines end otherwise, it
\* may miss all but the first.
LineFeedsOnly(t) == \A k \in 1 .. Len(t) : t[k] \notin {CR, NEL}

\* A result has the bodies of these blocks, each once and in order.
Returned(t, bodies, S) ==
  \E blocks \in [1 .. Len(bodies) -> S] :
    /\ \A b \in S : \E k \in 1 .. Len(bodies) : blocks[k] = b
    /\ \A j \in 1 .. Len(bodies) : \A k \in 1 .. j - 1 : blocks[k][1] < blocks[j][1]
    /\ \A k \in 1 .. Len(bodies) : bodies[k] = BodyOf(t, blocks[k])

-----------------------------------------------------------------------------

\* load_pem_bundle and from_pem return the certificate blocks of the text, each
\* once and in order (x509.py:1126, 644-647), although the first one cuts blocks
\* out by searching and the second one counts markers, and both read them by lines.
LoadsEveryBlock ==
  status = "returned" /\ call # "decode_pem" /\ LineFeedsOnly(text)
    => Returned(text, result, CertificateBlocks(text))

\* Text outside the blocks, blank lines and blocks of other labels are no reason
\* to fail, wherever they are (pem.py:17-18, x509.py:1128), unless the argument is converted
\* and is not ASCII (pem.py:61-67, x509.py:1131-1135): in a bundle that is bytes such text
\* may stand outside the blocks, in the str of one block too.  A bundle whose lines all end
\* in "\r" fails when its first block has another label: the search goes on behind the text.
RejectsOnlyMalformed ==
  status = "raised" /\ (Converts => IsAscii(text)) =>
    CASE call = "load_pem_bundle" -> ~(LineFeedsOnly(text) /\ WellFormed(text) /\ Loadable(text))
      [] call = "from_pem"        -> ~(WellFormed(text) /\ Loadable(text) /\ Single(text))
      [] call = "decode_pem"      -> TRUE

\* The lines that begin with a BEGIN marker and end with a marker.
Openings(t) ==
  {k \in Begins(t) :
     /\ k > 1 => IsLineEnd(t[k - 1])
     /\ \E e \in k .. Len(t) : /\ IsMarker(t[e])
                               /\ e < Len(t) => IsLineEnd(t[e + 1])
                               /\ \A i \in k .. e : ~IsLineEnd(t[i])}

FirstBlock(t) == {b \in Blocks(t) : GoodBlock(t, b) /\ b[1] \in Openings(t)
                                    /\ \A k \in Openings(t) : b[1] <= k}

\* decode_pem returns the first block of the text, and raises if that is not good
\* (pem.py:16-19) or if the text is given in bytes that are not all ASCII, whether in the
\* block or outside of it (pem.py:61-67).
DecodesFirstBlock ==
  call = "decode_pem" /\ status # "running" =>
    IF status = "raised" THEN FirstBlock(text) = {} \/ (form = "bytes" /\ ~IsAscii(text))
    ELSE /\ form = "bytes" => IsAscii(text)
         /\ FirstBlock(text) # {} /\ Returned(text, result, FirstBlock(text))
         /\ \A b \in FirstBlock(text) : label = text[b[1]].value

-----------------------------------------------------------------------------
(* What the documentation says and the code does not do.                     *)

\* "Free text before the BEGIN line or after the END line is ignored" (pem.py:17-18): what
\* decode_pem raises on has no good first block that is ASCII itself.
FreeTextIgnored ==
  status = "raised" /\ call = "decode_pem" =>
    \A b \in FirstBlock(text) : ~AsciiIn(text, b[1], b[2])

\* "Load every CERTIFICATE block" (x509.py:1126): of a text of good blocks no certificate is left
\* out, whichever way its lines end.
LeavesNoneOut ==
  status = "returned" /\ call = "load_pem_bundle" /\ WellFormed(text)
    => Returned(text, result, CertificateBlocks(text))

\* "Blocks with other labels are ignored" (x509.py:1128): a bundle in ASCII is loaded if the
\* certificate blocks are good and every other BEGIN has a line, a label and an END of its own.
OtherBlocksIgnored ==
  status = "raised" /\ call = "load_pem_bundle" /\ IsAscii(text) =>
    ~ /\ Loadable(text) /\ \A b \in CertificateBlocks(text) : GoodBlock(text, b)
      /\ \A k \in Begins(text) :
           IF text[k].value = CERTIFICATE THEN \E b \in CertificateBlocks(text) : b[1] = k
           ELSE /\ Alone(text, k) /\ text[k].value \in Labels
                /\ \E j \in k + 1 .. Len(text) :
                     /\ Alone(text, j) /\ text[j] = END(text[k].value)
                     /\ \A i \in k + 1 .. j - 1 : ~IsMarker(text[i])
=============================================================================
