------------------------------ MODULE PemProofs -------------------------------
(***************************************************************************)
(* The readers of PEM return the blocks of a text, and fail only when it   *)
(* is malformed, for texts of any length, all labels and all bodies.       *)
(*                                                                         *)
(* The readers see lines of a slice; what they promise speaks of positions *)
(* of the whole text.  Scan is what the reader of lines knows after each   *)
(* line, and says all that the rest of the proofs use of it.               *)
(***************************************************************************)
EXTENDS Pem, SequenceTheorems, WellFoundedInduction, TLAPS

-----------------------------------------------------------------------------
(* Least positions.                                                          *)

\* A set of natural numbers has a least one.
LEMMA Least ==
  ASSUME NEW S, S \subseteq Nat, S # {}
  PROVE  \E k \in S : \A j \in S : k <= j
<1>1. IsWellFoundedOn(OpToRel(<, Nat), Nat)
  BY NatLessThanWellFounded
<1>2. PICK k \in S : \A j \in S : ~(<<j, k>> \in OpToRel(<, Nat))
  BY <1>1, WFMin
<1>3. \A j \in S : ~(j < k)
  BY <1>2 DEF OpToRel
<1>4. \A j \in S : k <= j
  BY <1>3
<1> QED BY <1>4

\* What holds of 0 and of each successor holds of all.
LEMMA CountUp ==
  ASSUME NEW T, 0 \in T, \A n \in Nat : n \in T => n + 1 \in T
  PROVE  \A n \in Nat : n \in T
<1> SUFFICES ASSUME Nat \ T # {} PROVE FALSE
  OBVIOUS
<1>1. PICK m \in Nat \ T : \A j \in Nat \ T : m <= j
  BY Least
<1>2. m # 0
  OBVIOUS
<1>3. m - 1 \in Nat /\ m - 1 \in T
  BY <1>1, <1>2
<1> QED BY <1>3

\* k is the first of the positions, or 0.
IsFirst(k, S) == IF S = {} THEN k = 0 ELSE k \in S /\ \A j \in S : k <= j

\* First is the least of the positions.
LEMMA FirstIs ==
  ASSUME NEW S, S \subseteq Nat
  PROVE  IsFirst(First(S), S)
<1>1. CASE S = {}
  BY <1>1 DEF First, IsFirst
<1>2. CASE S # {}
  <2>1. First(S) = CHOOSE k \in S : \A j \in S : k <= j
    BY <1>2, Zenon DEF First
  <2>2. \E k \in S : \A j \in S : k <= j
    BY <1>2, Least
  <2>3. First(S) \in S /\ \A j \in S : First(S) <= j
    BY <2>1, <2>2, Zenon
  <2> QED BY <1>2, <2>3, Zenon DEF IsFirst
<1> QED BY <1>1, <1>2

-----------------------------------------------------------------------------
(* Tokens.                                                                   *)

\* A text is a sequence of tokens.
IsText(t) ==
  /\ t \in Seq({t[k] : k \in 1 .. Len(t)})
  /\ \A k \in 1 .. Len(t) :
       \/ t[k] \in {Other, LF, CR, Foreign, NEL}
       \/ t[k].kind \in {"begin", "end", "base64"} /\ t[k] = Token(t[k].kind, t[k].value)

\* The texts that are read are sequences of tokens.
LEMMA TextsAreTexts ==
  ASSUME NEW t \in Texts
  PROVE  IsText(t) /\ Len(t) \in Nat
<1>1. IsText(t)
  BY PemAssumption, Zenon DEF IsText
<1>2. PICK S : t \in Seq(S)
  BY <1>1, Zenon DEF IsText
<1>3. Len(t) \in Nat
  BY <1>2
<1> QED BY <1>1, <1>3

\* The kind of a token says what else it is.
LEMMA Kinds ==
  ASSUME NEW t, IsText(t), NEW k \in 1 .. Len(t)
  PROVE  /\ t[k].kind \in {"begin", "end", "base64", "other", "LF", "CR", "foreign", "NEL"}
         /\ t[k].kind = "LF" => t[k] = LF
         /\ t[k].kind = "CR" => t[k] = CR
         /\ t[k].kind = "NEL" => t[k] = NEL
         /\ t[k].kind = "begin" => t[k] = BEGIN(t[k].value)
         /\ t[k].kind = "end" => t[k] = END(t[k].value)
<1>1. \/ t[k] \in {Other, LF, CR, Foreign, NEL}
      \/ t[k].kind \in {"begin", "end", "base64"} /\ t[k] = Token(t[k].kind, t[k].value)
  BY DEF IsText
<1>2. CASE t[k] \in {Other, LF, CR, Foreign, NEL}
  BY <1>2 DEF Other, LF, CR, Foreign, NEL, Token
<1>3. CASE t[k].kind \in {"begin", "end", "base64"} /\ t[k] = Token(t[k].kind, t[k].value)
  BY <1>3 DEF BEGIN, END
<1> QED BY <1>1, <1>2, <1>3

\* What the tokens of a label are.
LEMMA Markers ==
  ASSUME NEW l, NEW m
  PROVE  /\ BEGIN(l).kind = "begin" /\ BEGIN(l).value = l
         /\ END(l).kind = "end" /\ END(l).value = l
         /\ IsMarker(BEGIN(l)) /\ IsMarker(END(l))
         /\ ~IsLineEnd(BEGIN(l)) /\ ~IsLineEnd(END(l))
         /\ LF.kind = "LF" /\ IsLineEnd(LF)
BY DEF BEGIN, END, Token, IsMarker, IsLineEnd, LF

-----------------------------------------------------------------------------
(* The chunks of a block.                                                    *)

\* The recursive definition of the chunks, unfolded once.
LEMMA ChunksUnfolded ==
  ASSUME NEW t, Len(t) \in Nat, NEW first \in Nat \ {0}
  PROVE  \A n \in 0 .. Len(t) :
           ChunksFrom(t, first)[n] =
             IF n < first THEN <<>>
             ELSE IF t[n].kind = "base64" THEN Append(ChunksFrom(t, first)[n - 1], t[n].value)
             ELSE ChunksFrom(t, first)[n - 1]
<1> DEFINE B(f, n) == IF n < first THEN <<>>
                      ELSE IF t[n].kind = "base64" THEN Append(f[n - 1], t[n].value) ELSE f[n - 1]
           Ok(f, n) == \A k \in 0 .. n : f[k] = B(f, k)
           N == Len(t)
<1>0. N \in Nat
  OBVIOUS
<1>1. ASSUME NEW f, NEW g, NEW n \in Nat, \A k \in 0 .. n - 1 : f[k] = g[k]
      PROVE  B(f, n) = B(g, n)
  <2>1. ~(n < first) => n - 1 \in 0 .. n - 1
    OBVIOUS
  <2> QED BY <1>1, <2>1, Zenon
<1>a. ChunksFrom(t, first) = CHOOSE f : f = [n \in 0 .. N |-> B(f, n)]
  BY DEF ChunksFrom
<1>. HIDE DEF B, N
<1>2. \A n \in Nat : \E f : Ok(f, n)
  <2> DEFINE T == {n \in Nat : \E f : Ok(f, n)}
  <2>1. 0 \in T
    <3> DEFINE g == [k \in 0 .. 0 |-> B(<<>>, 0)]
    <3>1. B(g, 0) = B(<<>>, 0)
      BY <1>1
    <3>2. Ok(g, 0)
      BY <3>1
    <3> QED BY <3>2
  <2>2. ASSUME NEW n \in Nat, n \in T PROVE n + 1 \in T
    <3>1. PICK f : Ok(f, n)
      BY <2>2
    <3> DEFINE g == [k \in 0 .. n + 1 |-> IF k <= n THEN f[k] ELSE B(f, n + 1)]
    <3>2. \A k \in 0 .. n : g[k] = f[k]
      OBVIOUS
    <3>3. g[n + 1] = B(f, n + 1)
      OBVIOUS
    <3>. HIDE DEF g
    <3>4. \A k \in 0 .. n + 1 : B(g, k) = B(f, k)
      <4> TAKE k \in 0 .. n + 1
      <4>1. k \in Nat /\ \A i \in 0 .. k - 1 : g[i] = f[i]
        BY <3>2
      <4> QED BY <4>1, <1>1
    <3>5. \A k \in 0 .. n + 1 : k \in 0 .. n \/ k = n + 1
      OBVIOUS
    <3>6. Ok(g, n + 1)
      BY <3>1, <3>2, <3>3, <3>4, <3>5
    <3> QED BY <3>6
  <2>. HIDE DEF T
  <2>3. \A n \in Nat : n \in T
    BY <2>1, <2>2, CountUp
  <2> QED BY <2>3 DEF T
<1>3. PICK f : Ok(f, N)
  BY <1>0, <1>2
<1> DEFINE F == [k \in 0 .. N |-> f[k]]
<1>4. ASSUME NEW k \in 0 .. N PROVE F[k] = B(F, k)
  <2>1. f[k] = B(f, k)
    BY <1>3
  <2>2. k \in Nat /\ \A i \in 0 .. k - 1 : f[i] = F[i]
    BY <1>0
  <2>. HIDE DEF F
  <2>3. B(f, k) = B(F, k)
    BY <2>2, <1>1
  <2> QED BY <2>1, <2>3 DEF F
<1>5. F = [k \in 0 .. N |-> F[k]]
  OBVIOUS
<1>6. \E g : g = [k \in 0 .. N |-> B(g, k)]
  <2>. HIDE DEF F
  <2>1. F = [k \in 0 .. N |-> B(F, k)]
    BY <1>4, <1>5
  <2> QED BY <2>1
<1>7. ChunksFrom(t, first) = [n \in 0 .. N |-> B(ChunksFrom(t, first), n)]
  BY <1>a, <1>6
<1>8. PICK c : c = ChunksFrom(t, first) /\ \A n \in 0 .. N : c[n] = B(c, n)
  <2>1. \A n \in 0 .. N : ChunksFrom(t, first)[n] = B(ChunksFrom(t, first), n)
    BY <1>7
  <2> QED BY <2>1
<1> QED BY <1>8, Zenon DEF B, N

\* The chunks up to the position before first, those after one more token.
LEMMA ChunksBegin ==
  ASSUME NEW t, Len(t) \in Nat, NEW first \in 1 .. Len(t), t[first].kind # "base64"
  PROVE  ChunksFrom(t, first)[first] = <<>>
<1>1. first \in 0 .. Len(t) /\ first - 1 \in 0 .. Len(t) /\ first - 1 < first /\ ~(first < first)
  OBVIOUS
<1>2. first \in Nat \ {0}
  OBVIOUS
<1>3. ChunksFrom(t, first)[first - 1] = <<>>
  BY <1>1, <1>2, ChunksUnfolded, Zenon
<1> QED BY <1>1, <1>2, <1>3, ChunksUnfolded, Zenon

\* One token more.
LEMMA ChunksNext ==
  ASSUME NEW t, Len(t) \in Nat, NEW first \in Nat \ {0}, NEW n \in Nat, first <= n, n < Len(t)
  PROVE  ChunksFrom(t, first)[n + 1] =
           IF t[n + 1].kind = "base64" THEN Append(ChunksFrom(t, first)[n], t[n + 1].value)
           ELSE ChunksFrom(t, first)[n]
<1>1. n + 1 \in 0 .. Len(t) /\ ~(n + 1 < first) /\ (n + 1) - 1 = n
  OBVIOUS
<1>2. PICK m : m = n + 1
  OBVIOUS
<1>3. m \in 0 .. Len(t) /\ ~(m < first) /\ m - 1 = n
  BY <1>1, <1>2
<1>4. ChunksFrom(t, first)[m] =
        IF t[m].kind = "base64" THEN Append(ChunksFrom(t, first)[n], t[m].value) ELSE ChunksFrom(t, first)[n]
  BY <1>3, ChunksUnfolded, Zenon
<1> QED BY <1>2, <1>4, Zenon

\* The chunks are values of the tokens.
LEMMA ChunksType ==
  ASSUME NEW t, Len(t) \in Nat, NEW first \in 1 .. Len(t), t[first].kind # "base64",
         NEW S, \A k \in 1 .. Len(t) : t[k].value \in S
  PROVE  \A n \in first .. Len(t) : ChunksFrom(t, first)[n] \in Seq(S)
<1>1. PICK N \in Nat : N = Len(t)
  OBVIOUS
<1> DEFINE T == {d \in Nat : first + d <= N => ChunksFrom(t, first)[first + d] \in Seq(S)}
<1>2. 0 \in T
  <2>1. ChunksFrom(t, first)[first] = <<>> /\ first + 0 = first /\ 0 \in Nat
    BY ChunksBegin
  <2>2. <<>> \in Seq(S)
    OBVIOUS
  <2>3. ChunksFrom(t, first)[first + 0] \in Seq(S)
    BY <2>1, <2>2, Zenon
  <2> QED BY <2>1, <2>3, Zenon
<1>3. ASSUME NEW d \in Nat, d \in T, first + (d + 1) <= N
      PROVE  ChunksFrom(t, first)[first + (d + 1)] \in Seq(S)
  <2>1. PICK n \in Nat : n = first + d /\ n < N /\ first <= n /\ n + 1 = first + (d + 1)
    <3>1. first + d \in Nat /\ first + d < N /\ first <= first + d /\ (first + d) + 1 = first + (d + 1)
      BY <1>3
    <3> QED BY <3>1
  <2>2. PICK c \in Seq(S) : c = ChunksFrom(t, first)[n]
    <3>1. first + d <= N
      BY <2>1
    <3>2. ChunksFrom(t, first)[first + d] \in Seq(S)
      BY <1>3, <3>1, Zenon DEF T
    <3> QED BY <2>1, <3>2, Zenon
  <2>3. PICK v \in S : v = t[n + 1].value
    BY <1>1, <2>1
  <2>4. ChunksFrom(t, first)[n + 1] = IF t[n + 1].kind = "base64" THEN Append(c, v) ELSE c
    <3>1. first \in Nat \ {0} /\ n < Len(t)
      BY <1>1, <2>1
    <3> QED BY <2>1, <2>2, <2>3, <3>1, ChunksNext, Zenon
  <2>5. Append(c, v) \in Seq(S)
    OBVIOUS
  <2> QED BY <2>1, <2>4, <2>5, Zenon
<1>4. \A d \in Nat : d \in T => d + 1 \in T
  <2>1. \A d \in Nat : d + 1 \in Nat
    OBVIOUS
  <2> QED BY <1>3, <2>1, Zenon
<1>. HIDE DEF T
<1>5. \A d \in Nat : d \in T
  BY <1>2, <1>4, CountUp
<1>6. ASSUME NEW n \in first .. Len(t) PROVE ChunksFrom(t, first)[n] \in Seq(S)
  <2>1. PICK d \in Nat : n = first + d
    <3>1. n - first \in Nat /\ n = first + (n - first)
      OBVIOUS
    <3> QED BY <3>1
  <2>2. first + d <= N
    BY <1>1, <2>1
  <2> QED BY <1>5, <2>1, <2>2, Zenon DEF T
<1> QED BY <1>6

-----------------------------------------------------------------------------
(* The lines of a slice, by positions.                                       *)

\* The text from first to end is read by lines.
IsSlice(t, first, end) ==
  IsText(t) /\ Len(t) \in Nat /\ first \in Nat \ {0} /\ end \in Nat /\ end <= Len(t)

\* The line that starts at c ends before e.
IsLine(t, end, c, e) ==
  /\ e \in c .. end + 1
  /\ e = end + 1 \/ IsLineEnd(t[e])
  /\ \A k \in c .. e - 1 : ~IsLineEnd(t[k])

\* Every position of a slice is in a line.
LEMMA LineExists ==
  ASSUME NEW t, NEW end \in Nat, NEW c \in 1 .. end
  PROVE  \E e \in c .. end + 1 : IsLine(t, end, c, e)
<1> DEFINE S == {k \in c .. end : IsLineEnd(t[k])}
<1>1. CASE S = {}
  <2>1. end + 1 \in c .. end + 1 /\ IsLine(t, end, c, end + 1)
    BY <1>1 DEF IsLine
  <2> QED BY <2>1
<1>2. CASE S # {}
  <2>1. S \subseteq Nat
    OBVIOUS
  <2>2. PICK e \in S : \A j \in S : e <= j
    BY <1>2, <2>1, Least
  <2>3. e \in c .. end + 1 /\ IsLine(t, end, c, e)
    BY <2>2 DEF IsLine
  <2> QED BY <2>3
<1> QED BY <1>1, <1>2

\* LineEnd is the end of the line at the cursor.
LEMMA LineEndIs ==
  ASSUME blockEnd \in Nat, cursor \in 1 .. blockEnd
  PROVE  IsLine(text, blockEnd, cursor, LineEnd)
<1>1. \E e \in cursor .. blockEnd + 1 : IsLine(text, blockEnd, cursor, e)
  BY LineExists
<1>2. \A e \in cursor .. blockEnd + 1 :
        IsLine(text, blockEnd, cursor, e) <=>
          /\ e = blockEnd + 1 \/ IsLineEnd(text[e])
          /\ \A j \in cursor .. e - 1 : ~IsLineEnd(text[j])
  BY DEF IsLine
<1>3. LineEnd = CHOOSE e \in cursor .. blockEnd + 1 : 
                  /\ e = blockEnd + 1 \/ IsLineEnd(text[e])
                  /\ \A j \in cursor .. e - 1 : ~IsLineEnd(text[j])
  BY DEF LineEnd
<1> QED BY <1>1, <1>2, <1>3, Zenon

\* A line is the tokens from c to e.
IsTextOf(line, t, c, e) ==
  Len(line) = e - c /\ \A k \in c .. e - 1 : line[k - c + 1] = t[k]

\* Line is the tokens from the cursor to LineEnd.
LEMMA LineIs ==
  ASSUME IsSlice(text, 1, blockEnd), cursor \in 1 .. blockEnd
  PROVE  /\ IsTextOf(Line, text, cursor, LineEnd) /\ IsLine(text, blockEnd, cursor, LineEnd)
         /\ Len(Line) = 0 <=> Line = <<>>
<1>1. IsLine(text, blockEnd, cursor, LineEnd)
  BY LineEndIs DEF IsSlice
<1>2. PICK e : e = LineEnd
  OBVIOUS
<1>3. e \in cursor .. blockEnd + 1 /\ blockEnd \in Nat /\ blockEnd <= Len(text) /\ Len(text) \in Nat
  BY <1>1, <1>2 DEF IsLine, IsSlice
<1>4. PICK S : text \in Seq(S) /\ \A k \in 1 .. Len(text) : text[k] \in S
  <2>1. text \in Seq({text[k] : k \in 1 .. Len(text)})
    BY Zenon DEF IsSlice, IsText
  <2>2. \A k \in 1 .. Len(text) : text[k] \in {text[j] : j \in 1 .. Len(text)}
    OBVIOUS
  <2> QED BY <2>1, <2>2, Zenon
<1>5. PICK m \in 1 .. blockEnd : m = cursor
  OBVIOUS
<1>6. PICK n \in Int : n = e - 1
  BY <1>3
<1>7. \A i \in m .. n : text[i] \in S
  BY <1>3, <1>4, <1>5, <1>6
<1>8. Len(SubSeq(text, m, n)) = n - m + 1 /\ \A i \in 1 .. n - m + 1 : SubSeq(text, m, n)[i] = text[m + i - 1]
  <2>1. m - 1 <= n
    BY <1>3, <1>5, <1>6
  <2>2. m \in Int /\ n \in Int
    BY <1>5, <1>6
  <2> QED BY <1>4, <1>7, <2>1, <2>2, SubSeqProperties
<1>9. PICK line : line = SubSeq(text, m, n)
  OBVIOUS
<1>e. Len(line) = 0 <=> line = <<>>
  <2>1. m - 1 <= n /\ m \in Int /\ n \in Int
    BY <1>3, <1>5, <1>6
  <2>2. line \in Seq(S)
    BY <1>4, <1>7, <1>9, <2>1, SubSeqProperties
  <2> QED BY <2>2, EmptySeq
<1>10. IsTextOf(line, text, m, e)
  BY <1>3, <1>5, <1>6, <1>8, <1>9 DEF IsTextOf
<1>11. Line = line
  BY <1>2, <1>5, <1>6, <1>9, Zenon DEF Line
<1> QED BY <1>1, <1>2, <1>5, <1>10, <1>11, <1>e, Zenon

\* What the reader asks of a line, by positions.
BeginsAt(t, c, e) == c < e /\ t[c].kind = "begin" /\ IsMarker(t[e - 1])
EndsAt(t, c, e)   == c < e /\ t[c].kind = "end" /\ IsMarker(t[e - 1])
LabelAt(t, c, e)  == e = c + 1 /\ t[c].value \in Labels
Base64At(t, c, e) == c < e /\ \A k \in c .. e - 1 : t[k].kind = "base64"

\* What the tests of the code on a line say of the positions in the text.
LEMMA LineSays ==
  ASSUME NEW t, NEW line, NEW c \in Nat, NEW e \in Nat, c <= e, IsTextOf(line, t, c, e),
         Len(line) = 0 <=> line = <<>>
  PROVE  /\ IsMarkerLine(line, "begin") <=> BeginsAt(t, c, e)
         /\ IsMarkerLine(line, "end") <=> EndsAt(t, c, e)
         /\ HasLabel(line) <=> LabelAt(t, c, e)
         /\ e = c + 1 => line[1] = t[c]
         /\ IsBase64(line) <=> Base64At(t, c, e)
         /\ line = <<>> <=> c = e
<1>1. Len(line) = e - c
  BY DEF IsTextOf
<1>2. c < e => line[1] = t[c] /\ line[Len(line)] = t[e - 1]
  <2>1. c < e => c \in c .. e - 1 /\ e - 1 \in c .. e - 1 /\ (e - 1) - c + 1 = e - c /\ c - c + 1 = 1
    OBVIOUS
  <2>2. c < e => line[c - c + 1] = t[c] /\ line[(e - 1) - c + 1] = t[e - 1]
    BY <2>1, Zenon DEF IsTextOf
  <2> QED BY <1>1, <2>1, <2>2
<1>3. line = <<>> <=> c = e
  BY <1>1
<1>4. HasLabel(line) <=> LabelAt(t, c, e)
  BY <1>1, <1>2 DEF HasLabel, LabelAt
<1>5. (\A k \in 1 .. Len(line) : line[k].kind = "base64") <=> (\A k \in c .. e - 1 : t[k].kind = "base64")
  <2>1. ASSUME \A k \in 1 .. Len(line) : line[k].kind = "base64", NEW k \in c .. e - 1
        PROVE  t[k].kind = "base64"
    <3>1. k - c + 1 \in 1 .. Len(line)
      BY <1>1
    <3>2. line[k - c + 1] = t[k]
      BY DEF IsTextOf
    <3> QED BY <2>1, <3>1, <3>2, Zenon
  <2>2. ASSUME \A k \in c .. e - 1 : t[k].kind = "base64", NEW k \in 1 .. Len(line)
        PROVE  line[k].kind = "base64"
    <3>1. PICK j \in c .. e - 1 : k = j - c + 1
      <4>1. c + k - 1 \in c .. e - 1 /\ k = (c + k - 1) - c + 1
        BY <1>1
      <4> QED BY <4>1
    <3>2. line[j - c + 1] = t[j]
      BY DEF IsTextOf
    <3> QED BY <2>2, <3>1, <3>2, Zenon
  <2> QED BY <2>1, <2>2
<1>6. IsBase64(line) <=> Base64At(t, c, e)
  BY <1>3, <1>5 DEF IsBase64, Base64At
<1>7. IsMarkerLine(line, "begin") <=> BeginsAt(t, c, e)
  BY <1>2, <1>3 DEF IsMarkerLine, BeginsAt
<1>8. IsMarkerLine(line, "end") <=> EndsAt(t, c, e)
  BY <1>2, <1>3 DEF IsMarkerLine, EndsAt
<1> QED BY <1>1, <1>2, <1>3, <1>4, <1>6, <1>7, <1>8

-----------------------------------------------------------------------------
(* What the reader of lines knows.                                           *)

\* What stands between a BEGIN and an END.
Filler(token) == token.kind = "base64" \/ IsLineEnd(token)

\* A line that opens a block in the slice from first to end, and the first of them.
Opens(t, first, end, k) ==
  /\ k \in first .. end /\ t[k].kind = "begin" /\ (k = first \/ IsLineEnd(t[k - 1]))
  /\ \E e \in k .. end : /\ IsMarker(t[e]) /\ (e = end \/ IsLineEnd(t[e + 1]))
                         /\ \A i \in k .. e : ~IsLineEnd(t[i])

OpensFirst(t, first, end, k) ==
  Opens(t, first, end, k) /\ \A j \in first .. k - 1 : ~Opens(t, first, end, j)

\* A block that is opened at k has been read up to c.
InArmor(t, first, end, c, l, bod, k) ==
  /\ OpensFirst(t, first, end, k)
  /\ l \in Labels /\ t[k] = BEGIN(l)
  /\ k + 2 <= c /\ (k < end => IsLineEnd(t[k + 1]))
  /\ \A i \in k + 1 .. c - 1 : i <= end => Filler(t[i])
  /\ c <= end + 1 => bod = ChunksFrom(t, k)[c - 1]

\* The reader has come to the line at c: no block has been opened before, or one is open.
Scan(t, first, end, c, l, bod) ==
  /\ c \in Nat /\ first <= c
  /\ c = first \/ c > end \/ IsLineEnd(t[c - 1])
  /\ IF l = NoLabel THEN bod = <<>> /\ \A k \in first .. c - 1 : ~Opens(t, first, end, k)
     ELSE \E k \in first .. end : InArmor(t, first, end, c, l, bod, k)

\* Before the first line nothing is known, and nothing needs to be.
LEMMA ScanBegins ==
  ASSUME NEW t, NEW first, NEW end, IsSlice(t, first, end)
  PROVE  Scan(t, first, end, first, NoLabel, <<>>)
BY DEF IsSlice, Scan

\* A line opens a block exactly when it begins with a BEGIN marker and ends with a marker.
LEMMA OpensHere ==
  ASSUME NEW t, NEW first, NEW end, IsSlice(t, first, end),
         NEW c \in Nat, first <= c, c <= end, c = first \/ IsLineEnd(t[c - 1]),
         NEW e, IsLine(t, end, c, e)
  PROVE  Opens(t, first, end, c) <=> BeginsAt(t, c, e)
<1>0. e \in c .. end + 1 /\ e \in Nat /\ end \in Nat /\ first \in Nat
  BY DEF IsLine, IsSlice
<1>1. ASSUME Opens(t, first, end, c) PROVE BeginsAt(t, c, e)
  <2>1. t[c].kind = "begin" /\ ~IsLineEnd(t[c])
    BY <1>1 DEF Opens, IsLineEnd
  <2>2. PICK f \in c .. end : /\ IsMarker(t[f]) /\ (f = end \/ IsLineEnd(t[f + 1]))
                              /\ \A i \in c .. f : ~IsLineEnd(t[i])
    BY <1>1 DEF Opens
  <2>3. ~(e <= f)
    <3>1. e <= f => e \in c .. f /\ e # end + 1
      BY <1>0
    <3> QED BY <2>2, <3>1 DEF IsLine
  <2>4. ~(f + 1 < e)
    <3>1. f + 1 < e => f + 1 \in c .. e - 1 /\ f # end
      BY <1>0
    <3> QED BY <2>2, <3>1 DEF IsLine
  <2>5. e = f + 1
    BY <1>0, <2>3, <2>4
  <2> QED BY <2>1, <2>2, <2>5 DEF BeginsAt
<1>2. ASSUME BeginsAt(t, c, e) PROVE Opens(t, first, end, c)
  <2>1. c < e /\ t[c].kind = "begin" /\ IsMarker(t[e - 1])
    BY <1>2 DEF BeginsAt
  <2>2. PICK f \in c .. end : e = f + 1
    <3>1. e - 1 \in c .. end /\ e = (e - 1) + 1
      BY <1>0, <2>1
    <3> QED BY <3>1
  <2>3. IsMarker(t[f])
    BY <2>1, <2>2
  <2>4. f = end \/ IsLineEnd(t[f + 1])
    BY <1>0, <2>2 DEF IsLine
  <2>5. \A i \in c .. f : ~IsLineEnd(t[i])
    BY <1>0, <2>2 DEF IsLine
  <2>6. c \in first .. end
    BY <1>0
  <2> QED BY <2>1, <2>2, <2>3, <2>4, <2>5, <2>6 DEF Opens
<1> QED BY <1>1, <1>2

\* Nothing else in the line opens a block.
LEMMA OpensNotLater ==
  ASSUME NEW t, NEW first, NEW end, IsSlice(t, first, end),
         NEW c \in Nat, first <= c, c <= end, NEW e, IsLine(t, end, c, e)
  PROVE  \A k \in c + 1 .. e : ~Opens(t, first, end, k)
<1>0. e \in c .. end + 1 /\ e \in Nat /\ end \in Nat /\ first \in Nat
  BY DEF IsLine, IsSlice
<1> SUFFICES ASSUME NEW k \in c + 1 .. e, Opens(t, first, end, k) PROVE FALSE
  OBVIOUS
<1>1. k \in first .. end /\ t[k].kind = "begin" /\ (k = first \/ IsLineEnd(t[k - 1]))
  BY DEF Opens
<1>2. k # first /\ k - 1 \in c .. e - 1
  BY <1>0, <1>1
<1> QED BY <1>1, <1>2 DEF IsLine

\* A line outside the armor is skipped.
LEMMA ScanSkips ==
  ASSUME NEW t, NEW first, NEW end, IsSlice(t, first, end), NEW c, c <= end, NEW bod,
         Scan(t, first, end, c, NoLabel, bod), NEW e, IsLine(t, end, c, e), ~BeginsAt(t, c, e)
  PROVE  Scan(t, first, end, e + 1, NoLabel, bod)
<1>0. c \in Nat /\ e \in c .. end + 1 /\ e \in Nat /\ end \in Nat /\ first \in Nat /\ first <= c
  BY DEF IsLine, IsSlice, Scan
<1>1. c = first \/ IsLineEnd(t[c - 1])
  BY <1>0 DEF Scan
<1>2. ~Opens(t, first, end, c)
  BY <1>0, <1>1, OpensHere
<1>3. \A k \in c + 1 .. e : ~Opens(t, first, end, k)
  BY <1>0, OpensNotLater
<1>4. \A k \in first .. c - 1 : ~Opens(t, first, end, k)
  BY DEF Scan
<1>5. \A k \in first .. (e + 1) - 1 : ~Opens(t, first, end, k)
  <2> SUFFICES ASSUME NEW k \in first .. (e + 1) - 1 PROVE ~Opens(t, first, end, k)
    OBVIOUS
  <2>1. k \in first .. c - 1 \/ k = c \/ k \in c + 1 .. e
    BY <1>0
  <2> QED BY <1>2, <1>3, <1>4, <2>1, Zenon
<1>6. e + 1 \in Nat /\ first <= e + 1
  BY <1>0
<1>7. e + 1 > end \/ IsLineEnd(t[(e + 1) - 1])
  <2>1. (e + 1) - 1 = e
    BY <1>0
  <2>2. e = end + 1 => e + 1 > end
    BY <1>0
  <2> QED BY <2>1, <2>2, Zenon DEF IsLine
<1>8. bod = <<>>
  BY DEF Scan
<1>9. NoLabel = NoLabel
  OBVIOUS
<1> QED BY <1>5, <1>6, <1>7, <1>8, <1>9, Zenon DEF Scan

\* A line with a BEGIN marker alone opens the armor.
LEMMA ScanOpens ==
  ASSUME NEW t, NEW first, NEW end, IsSlice(t, first, end), NEW c, c <= end, NEW bod,
         Scan(t, first, end, c, NoLabel, bod), NEW e, IsLine(t, end, c, e),
         BeginsAt(t, c, e), LabelAt(t, c, e)
  PROVE  Scan(t, first, end, e + 1, t[c].value, bod)
<1>0. c \in Nat /\ e = c + 1 /\ end \in Nat /\ first \in Nat \ {0} /\ first <= c /\ Len(t) \in Nat /\ end <= Len(t)
  BY DEF IsSlice, Scan, LabelAt
<1>1. c = first \/ IsLineEnd(t[c - 1])
  BY <1>0 DEF Scan
<1>2. Opens(t, first, end, c)
  BY <1>0, <1>1, OpensHere
<1>3. OpensFirst(t, first, end, c)
  BY <1>2 DEF Scan, OpensFirst
<1>4. t[c].kind = "begin" /\ t[c].value \in Labels
  BY DEF BeginsAt, LabelAt
<1>5. t[c] = BEGIN(t[c].value)
  <2>1. IsText(t) /\ c \in 1 .. Len(t)
    BY <1>0 DEF IsSlice
  <2> QED BY <1>4, <2>1, Kinds
<1>6. c < end => IsLineEnd(t[c + 1])
  BY <1>0 DEF IsLine
<1>7. bod = <<>>
  BY DEF Scan
<1>8. ChunksFrom(t, c)[c + 1] = <<>> \/ ~(c + 2 <= end + 1)
  <2>1. ASSUME c + 1 <= end PROVE ChunksFrom(t, c)[c + 1] = <<>>
    <3>1. c \in 1 .. Len(t) /\ c \in Nat \ {0} /\ c < Len(t) /\ c <= c
      BY <1>0, <2>1
    <3>2. t[c].kind # "base64"
      BY <1>4
    <3>3. ChunksFrom(t, c)[c] = <<>>
      BY <1>0, <3>1, <3>2, ChunksBegin
    <3>4. t[c + 1].kind # "base64"
      BY <1>0, <1>6, <2>1 DEF IsLineEnd
    <3> QED BY <1>0, <3>1, <3>3, <3>4, ChunksNext, Zenon
  <2> QED BY <1>0, <2>1
<1>9. \A i \in c + 1 .. (e + 1) - 1 : i <= end => Filler(t[i])
  <2> SUFFICES ASSUME NEW i \in c + 1 .. (e + 1) - 1, i <= end PROVE Filler(t[i])
    OBVIOUS
  <2>1. i = c + 1 /\ c < end
    BY <1>0
  <2> QED BY <1>6, <2>1 DEF Filler
<1>10. (e + 1) - 1 = c + 1 /\ c + 2 <= e + 1 /\ (e + 1 <= end + 1 <=> c + 2 <= end + 1)
  BY <1>0
<1>11. InArmor(t, first, end, e + 1, t[c].value, bod, c)
  BY <1>3, <1>4, <1>5, <1>6, <1>7, <1>8, <1>9, <1>10, Zenon DEF InArmor
<1>12. c \in first .. end /\ e + 1 \in Nat /\ first <= e + 1
  BY <1>0
<1>13. e + 1 > end \/ IsLineEnd(t[(e + 1) - 1])
  BY <1>0, <1>6, <1>10
<1>14. t[c].value # NoLabel
  BY <1>4, PemAssumption
<1> QED BY <1>11, <1>12, <1>13, <1>14, Zenon DEF Scan

IsJoin(c, p, v) == Append(c \o p, v) = c \o Append(p, v)

\* Appending to the second of two sequences appends to their concatenation.
LEMMA AppendJoins ==
  ASSUME NEW S, NEW c \in Seq(S), NEW p \in Seq(S), NEW v \in S
  PROVE  IsJoin(c, p, v)
<1>1. c \o p \in Seq(S) /\ <<v>> \in Seq(S)
  BY ConcatProperties
<1>2. Append(c \o p, v) = (c \o p) \o <<v>>
  BY <1>1, AppendIsConcat
<1>3. Append(p, v) = p \o <<v>>
  BY AppendIsConcat
<1>4. (c \o p) \o <<v>> = c \o (p \o <<v>>)
  BY <1>1, ConcatAssociative
<1> QED BY <1>2, <1>3, <1>4, Zenon DEF IsJoin

\* The chunks of a line are joined to those before it.
IsJoined(t, first, n, m, line) ==
  ChunksFrom(t, first)[n + m] = ChunksFrom(t, first)[n] \o Chunks(line)

LEMMA ChunksJoin ==
  ASSUME NEW t, Len(t) \in Nat, NEW first \in 1 .. Len(t), t[first].kind # "base64",
         NEW n \in Nat, first <= n, NEW line, NEW m \in Nat, Len(line) = m, n + m <= Len(t),
         \A k \in 1 .. m : line[k] = t[n + k] /\ line[k].kind = "base64"
  PROVE  IsJoined(t, first, n, m, line)
<1> DEFINE V == {t[k].value : k \in 1 .. Len(t)}
           Part(d) == [k \in 1 .. d |-> line[k].value]
           T == {d \in Nat : d <= m => ChunksFrom(t, first)[n + d] = ChunksFrom(t, first)[n] \o Part(d)}
<1>1. PICK c \in Seq(V) : c = ChunksFrom(t, first)[n]
  <2>1. n \in first .. Len(t)
    OBVIOUS
  <2>2. \A k \in 1 .. Len(t) : t[k].value \in V
    OBVIOUS
  <2>3. ChunksFrom(t, first)[n] \in Seq(V)
    BY <2>1, <2>2, ChunksType, Zenon
  <2> QED BY <2>3, Zenon
<1>2. \A k \in 1 .. m : line[k].value \in V
  <2> SUFFICES ASSUME NEW k \in 1 .. m PROVE line[k].value \in V
    OBVIOUS
  <2>1. line[k] = t[n + k] /\ n + k \in 1 .. Len(t)
    OBVIOUS
  <2> QED BY <2>1
<1>a. ASSUME NEW d \in Nat, d <= m
      PROVE  Part(d) \in Seq(V) /\ Len(Part(d)) = d /\ \A k \in 1 .. d : Part(d)[k] = line[k].value
  <2>. HIDE DEF V
  <2>1. \A k \in 1 .. d : line[k].value \in V
    <3> SUFFICES ASSUME NEW k \in 1 .. d PROVE line[k].value \in V
      OBVIOUS
    <3>1. k \in 1 .. m
      BY <1>a
    <3> QED BY <1>2, <3>1, Zenon
  <2> QED BY <2>1
<1>3. 0 \in T
  <2>1. PICK p : p = Part(0)
    OBVIOUS
  <2>2. p \in Seq(V) /\ Len(p) = 0
    BY <2>1
  <2>3. c \o p = c
    BY <2>2
  <2>4. ChunksFrom(t, first)[n + 0] = c \o Part(0)
    BY <1>1, <2>1, <2>3
  <2> QED BY <1>1, <2>4, Zenon
<1>4. ASSUME NEW d \in Nat, d \in T PROVE d + 1 \in T
  <2>0. d + 1 \in Nat
    OBVIOUS
  <2> SUFFICES ASSUME d + 1 <= m
               PROVE  ChunksFrom(t, first)[n + (d + 1)] = ChunksFrom(t, first)[n] \o Part(d + 1)
    BY <2>0
  <2>1. d <= m /\ d + 1 \in 1 .. m
    OBVIOUS
  <2>2. PICK p \in Seq(V) : p = Part(d) /\ Len(p) = d /\ \A k \in 1 .. d : p[k] = line[k].value
    <3>. HIDE DEF Part, V
    <3> QED BY <1>a, <2>1
  <2>3. PICK q \in Seq(V) : q = Part(d + 1) /\ Len(q) = d + 1 /\ \A k \in 1 .. d + 1 : q[k] = line[k].value
    <3>. HIDE DEF Part, V
    <3> QED BY <1>a, <2>0
  <2>4. PICK v \in V : v = line[d + 1].value
    BY <1>2, <2>1
  <2>5. ChunksFrom(t, first)[n + d] = c \o p
    BY <1>1, <1>4, <2>1, <2>2
  <2>6. ChunksFrom(t, first)[(n + d) + 1] = Append(c \o p, v)
    <3>1. n + d \in Nat /\ first <= n + d /\ n + d < Len(t) /\ first \in Nat \ {0} /\ (n + d) + 1 = n + (d + 1)
      BY <2>1
    <3>2. line[d + 1] = t[n + (d + 1)] /\ line[d + 1].kind = "base64"
      BY <2>1
    <3>3. PICK j \in Nat : j = n + d
      BY <3>1
    <3>4. ChunksFrom(t, first)[j + 1] =
            IF t[j + 1].kind = "base64" THEN Append(ChunksFrom(t, first)[j], t[j + 1].value)
            ELSE ChunksFrom(t, first)[j]
      BY <3>1, <3>3, ChunksNext
    <3> QED BY <2>4, <2>5, <3>1, <3>2, <3>3, <3>4, Zenon
  <2>7. q = Append(p, v)
    <3>. HIDE DEF Part, V
    <3>1. PICK r \in Seq(V) : r = Append(p, v) /\ Len(r) = d + 1 /\ \A k \in 1 .. d + 1 : r[k] = line[k].value
      <4>1. Append(p, v) \in Seq(V) /\ Len(Append(p, v)) = d + 1
        BY <2>2
      <4>2. \A k \in 1 .. d + 1 : Append(p, v)[k] = line[k].value
        BY <2>2, <2>4
      <4> QED BY <4>1, <4>2
    <3>2. q = r
      <4>1. Len(q) = Len(r) /\ \A k \in 1 .. Len(q) : q[k] = r[k]
        BY <2>3, <3>1
      <4> QED BY <4>1, SeqEqual
    <3> QED BY <3>1, <3>2
  <2>8. Append(c \o p, v) = c \o q
    <3>. HIDE DEF Part, V
    <3>1. IsJoin(c, p, v)
      BY <1>1, <2>2, <2>4, AppendJoins
    <3> QED BY <2>7, <3>1, Zenon DEF IsJoin
  <2>9. (n + d) + 1 = n + (d + 1)
    OBVIOUS
  <2> QED BY <1>1, <2>3, <2>6, <2>8, <2>9
<1>6. Part(m) = Chunks(line)
  BY DEF Chunks
<1>. HIDE DEF T, Part
<1>5. m \in T
  BY <1>3, <1>4, CountUp
<1>7. m <= m
  OBVIOUS
<1> QED BY <1>5, <1>6, <1>7, Zenon DEF T, IsJoined

\* A blank line or a line of base64 goes into the body.
LEMMA ScanFills ==
  ASSUME NEW t, NEW first, NEW end, IsSlice(t, first, end), NEW c, c <= end, NEW l, l # NoLabel,
         NEW bod, Scan(t, first, end, c, l, bod), NEW e, IsLine(t, end, c, e),
         NEW line, Len(line) = e - c, \A k \in c .. e - 1 : line[k - c + 1] = t[k] /\ t[k].kind = "base64",
         NEW new, new = bod \o Chunks(line)
  PROVE  Scan(t, first, end, e + 1, l, new)
<1>0. c \in Nat /\ e \in c .. end + 1 /\ e \in Nat /\ end \in Nat /\ first \in Nat \ {0} /\ first <= c
      /\ Len(t) \in Nat /\ end <= Len(t)
  BY DEF IsLine, IsSlice, Scan
<1>1. PICK k \in first .. end : InArmor(t, first, end, c, l, bod, k)
  BY DEF Scan
<1>2. k + 2 <= c /\ bod = ChunksFrom(t, k)[c - 1] /\ t[k].kind # "base64" /\ k \in 1 .. Len(t)
  <2>1. t[k].kind = "begin"
    BY <1>1 DEF InArmor, OpensFirst, Opens
  <2>2. c <= end + 1
    BY <1>0
  <2> QED BY <1>0, <1>1, <2>1, <2>2 DEF InArmor
<1>3. e <= end => new = ChunksFrom(t, k)[e]
  <2> SUFFICES ASSUME e <= end PROVE new = ChunksFrom(t, k)[e]
    OBVIOUS
  <2>1. PICK n \in Nat : n = c - 1
    BY <1>0, <1>2
  <2>2. PICK m \in Nat : m = e - c
    BY <1>0
  <2>3. k <= n /\ n + m = e - 1 /\ Len(line) = m /\ n + m <= Len(t)
    BY <1>0, <1>2, <2>1, <2>2
  <2>4. \A i \in 1 .. m : line[i] = t[n + i] /\ line[i].kind = "base64"
    <3> SUFFICES ASSUME NEW i \in 1 .. m PROVE line[i] = t[n + i] /\ line[i].kind = "base64"
      OBVIOUS
    <3>1. n + i \in c .. e - 1 /\ (n + i) - c + 1 = i
      BY <1>0, <2>1, <2>2
    <3>2. line[(n + i) - c + 1] = t[n + i] /\ t[n + i].kind = "base64"
      BY <3>1
    <3> QED BY <3>1, <3>2
  <2>5. ChunksFrom(t, k)[n + m] = bod \o Chunks(line)
    <3>1. IsJoined(t, k, n, m, line)
      BY <1>0, <1>2, <2>1, <2>2, <2>3, <2>4, ChunksJoin
    <3> QED BY <1>2, <2>1, <3>1, Zenon DEF IsJoined
  <2>6. PICK p \in Nat : p = e - 1 /\ k <= p /\ p < Len(t) /\ p + 1 = e
    <3>1. e - 1 \in Nat /\ k <= e - 1 /\ e - 1 < Len(t) /\ (e - 1) + 1 = e
      BY <1>0, <1>2
    <3> QED BY <3>1
  <2>7. t[e].kind # "base64"
    <3>1. IsLineEnd(t[e])
      BY <1>0 DEF IsLine
    <3> QED BY <3>1 DEF IsLineEnd
  <2>8. ChunksFrom(t, k)[p + 1] = ChunksFrom(t, k)[p]
    <3>1. k \in Nat \ {0}
      BY <1>0
    <3>2. ChunksFrom(t, k)[p + 1] =
            IF t[p + 1].kind = "base64" THEN Append(ChunksFrom(t, k)[p], t[p + 1].value)
            ELSE ChunksFrom(t, k)[p]
      BY <1>0, <2>6, <3>1, ChunksNext
    <3> QED BY <2>6, <2>7, <3>2, Zenon
  <2> QED BY <2>3, <2>5, <2>6, <2>8
<1>4. \A i \in k + 1 .. (e + 1) - 1 : i <= end => Filler(t[i])
  <2> SUFFICES ASSUME NEW i \in k + 1 .. (e + 1) - 1, i <= end PROVE Filler(t[i])
    OBVIOUS
  <2>1. CASE i < c
    <3>1. i \in k + 1 .. c - 1
      BY <1>0, <2>1
    <3> QED BY <1>1, <3>1 DEF InArmor
  <2>2. CASE c <= i /\ i < e
    <3>1. i \in c .. e - 1
      BY <1>0, <2>2
    <3> QED BY <3>1 DEF Filler
  <2>3. CASE i = e
    BY <1>0, <2>3 DEF IsLine, Filler
  <2> QED BY <1>0, <2>1, <2>2, <2>3
<1>5. (e + 1) - 1 = e /\ k + 2 <= e + 1 /\ (e + 1 <= end + 1 <=> e <= end) /\ e + 1 \in Nat /\ first <= e + 1
  BY <1>0, <1>2
<1>6. InArmor(t, first, end, e + 1, l, new, k)
  <2>1. OpensFirst(t, first, end, k) /\ l \in Labels /\ t[k] = BEGIN(l) /\ (k < end => IsLineEnd(t[k + 1]))
    BY <1>1, Zenon DEF InArmor
  <2> QED BY <1>3, <1>4, <1>5, <2>1, Zenon DEF InArmor
<1>7. e + 1 > end \/ IsLineEnd(t[(e + 1) - 1])
  BY <1>0, <1>5 DEF IsLine
<1> QED BY <1>5, <1>6, <1>7, Zenon DEF Scan

-----------------------------------------------------------------------------
(* Blocks.                                                                   *)

\* From i to j is a block with this label.
IsBlock(t, i, j, l) ==
  /\ i \in 1 .. Len(t) /\ j \in 1 .. Len(t) /\ i < j
  /\ l \in Labels /\ t[i] = BEGIN(l) /\ t[j] = END(l)
  /\ \A k \in i + 1 .. j - 1 : Filler(t[k])

\* A block is a pair of positions,
LEMMA BlockParts ==
  ASSUME NEW t, NEW b \in Blocks(t)
  PROVE  /\ b = <<b[1], b[2]>>
         /\ \E l \in Labels : IsBlock(t, b[1], b[2], l)
<1>1. b \in (1 .. Len(t)) \X (1 .. Len(t))
  BY DEF Blocks
<1>2. b = <<b[1], b[2]>> /\ b[1] \in 1 .. Len(t) /\ b[2] \in 1 .. Len(t)
  BY <1>1
<1>3. /\ b[1] < b[2]
      /\ \E l \in Labels : t[b[1]] = BEGIN(l) /\ t[b[2]] = END(l)
      /\ \A k \in b[1] + 1 .. b[2] - 1 : t[k].kind = "base64" \/ IsLineEnd(t[k])
  BY Zenon DEF Blocks
<1> QED BY <1>2, <1>3, Zenon DEF IsBlock, Filler

\* and such a pair of positions is a block.
LEMMA BlockMade ==
  ASSUME NEW t, NEW i, NEW j, NEW l, IsBlock(t, i, j, l)
  PROVE  <<i, j>> \in Blocks(t)
<1>1. <<i, j>> \in (1 .. Len(t)) \X (1 .. Len(t))
  BY DEF IsBlock
<1>2. <<i, j>>[1] = i /\ <<i, j>>[2] = j
  OBVIOUS
<1>3. /\ i < j
      /\ \E m \in Labels : t[i] = BEGIN(m) /\ t[j] = END(m)
      /\ \A k \in i + 1 .. j - 1 : t[k].kind = "base64" \/ IsLineEnd(t[k])
  BY Zenon DEF IsBlock, Filler
<1> QED BY <1>1, <1>2, <1>3, Zenon DEF Blocks

\* Inside of a block there are no markers: it ends at its first END, and its BEGIN is the last one.
LEMMA BlockEnds ==
  ASSUME NEW t, NEW i, NEW j, NEW l, IsBlock(t, i, j, l), Len(t) \in Nat
  PROVE  /\ t[i].kind = "begin" /\ t[i].value = l /\ t[j].kind = "end" /\ t[j].value = l
         /\ \A k \in i + 1 .. j : t[k].kind = "end" => k = j
         /\ \A k \in i .. j : t[k].kind = "begin" => k = i
<1>0. i \in 1 .. Len(t) /\ j \in 1 .. Len(t) /\ i < j
  BY DEF IsBlock
<1>1. t[i].kind = "begin" /\ t[i].value = l /\ t[j].kind = "end" /\ t[j].value = l
  BY Markers, Zenon DEF IsBlock
<1>2. \A k \in i + 1 .. j - 1 : t[k].kind # "end" /\ t[k].kind # "begin"
  BY DEF IsBlock, Filler, IsLineEnd
<1>3. ASSUME NEW k \in i + 1 .. j, t[k].kind = "end" PROVE k = j
  BY <1>0, <1>2, <1>3
<1>4. ASSUME NEW k \in i .. j, t[k].kind = "begin" PROVE k = i
  <2>1. k # j
    BY <1>1, <1>4
  <2> QED BY <1>0, <1>2, <1>4, <2>1
<1> QED BY <1>1, <1>3, <1>4

\* Two blocks that begin at the same position are the same,
LEMMA SameBegin ==
  ASSUME NEW t, Len(t) \in Nat, NEW i, NEW j, NEW l, IsBlock(t, i, j, l), NEW n, NEW m, IsBlock(t, i, n, m)
  PROVE  j = n /\ l = m
<1>1. /\ t[i].value = l /\ t[j].kind = "end" /\ \A k \in i + 1 .. j : t[k].kind = "end" => k = j
  BY BlockEnds
<1>2. /\ t[i].value = m /\ t[n].kind = "end" /\ \A k \in i + 1 .. n : t[k].kind = "end" => k = n
  BY BlockEnds
<1>3. i \in 1 .. Len(t) /\ j \in 1 .. Len(t) /\ i < j /\ n \in 1 .. Len(t) /\ i < n
  BY DEF IsBlock
<1>4. j \in i + 1 .. n \/ n \in i + 1 .. j
  BY <1>3
<1> QED BY <1>1, <1>2, <1>4, Zenon

\* and so are two that end there.
LEMMA SameEnd ==
  ASSUME NEW t, Len(t) \in Nat, NEW i, NEW j, NEW l, IsBlock(t, i, j, l), NEW n, NEW m, IsBlock(t, n, j, m)
  PROVE  i = n /\ l = m
<1>1. /\ t[j].value = l /\ t[i].kind = "begin" /\ \A k \in i .. j : t[k].kind = "begin" => k = i
  BY BlockEnds
<1>2. /\ t[j].value = m /\ t[n].kind = "begin" /\ \A k \in n .. j : t[k].kind = "begin" => k = n
  BY BlockEnds
<1>3. i \in 1 .. Len(t) /\ j \in 1 .. Len(t) /\ i < j /\ n \in 1 .. Len(t) /\ n < j
  BY DEF IsBlock
<1>4. n \in i .. j \/ i \in n .. j
  BY <1>3
<1> QED BY <1>1, <1>2, <1>4, Zenon

\* There is at most one first opening.
LEMMA OpensFirstOnce ==
  ASSUME NEW t, NEW first \in Nat, NEW end, NEW j, OpensFirst(t, first, end, j),
         NEW k, OpensFirst(t, first, end, k)
  PROVE  j = k
<1>1. j \in first .. end /\ k \in first .. end
  BY DEF OpensFirst, Opens
<1>2. ~(j < k) /\ ~(k < j)
  <2>1. \A i \in first .. k - 1 : i # j
    BY DEF OpensFirst
  <2>2. \A i \in first .. j - 1 : i # k
    BY DEF OpensFirst
  <2> QED BY <1>1, <2>1, <2>2
<1> QED BY <1>1, <1>2

\* An END line that fits ends a block of the text.
IsRead(t, k, c, l, bod) ==
  /\ IsBlock(t, k, c, l) /\ BodyOf(t, <<k, c>>) = bod
  /\ IsLineEnd(t[k + 1]) /\ IsLineEnd(t[c - 1])

LEMMA ScanEnds ==
  ASSUME NEW t, NEW first, NEW end, IsSlice(t, first, end), NEW c, c <= end, NEW l, l # NoLabel,
         NEW bod, Scan(t, first, end, c, l, bod), t[c].kind = "end", t[c].value = l
  PROVE  \E k \in first .. end : OpensFirst(t, first, end, k) /\ IsRead(t, k, c, l, bod)
<1>0. c \in Nat /\ end \in Nat /\ first \in Nat \ {0} /\ first <= c /\ Len(t) \in Nat /\ end <= Len(t)
  BY DEF IsSlice, Scan
<1>1. PICK k \in first .. end : InArmor(t, first, end, c, l, bod, k)
  BY DEF Scan
<1>2. k + 2 <= c /\ k < end
  BY <1>0, <1>1 DEF InArmor
<1>3. /\ OpensFirst(t, first, end, k) /\ l \in Labels /\ t[k] = BEGIN(l)
      /\ \A i \in k + 1 .. c - 1 : i <= end => Filler(t[i])
  BY <1>1, Zenon DEF InArmor
<1>4. IsLineEnd(t[k + 1]) /\ bod = ChunksFrom(t, k)[c - 1]
  BY <1>0, <1>1, <1>2 DEF InArmor
<1>5. IsLineEnd(t[c - 1])
  BY <1>0, <1>2 DEF Scan
<1>6. t[c] = END(l)
  <2>1. IsText(t) /\ c \in 1 .. Len(t)
    BY <1>0 DEF IsSlice
  <2> QED BY <2>1, Kinds
<1>7. k \in 1 .. Len(t) /\ c \in 1 .. Len(t) /\ k < c
  BY <1>0, <1>2
<1>8. \A i \in k + 1 .. c - 1 : Filler(t[i])
  BY <1>0, <1>3
<1>9. IsBlock(t, k, c, l)
  BY <1>3, <1>6, <1>7, <1>8, Zenon DEF IsBlock
<1>10. ChunksFrom(t, k)[c] = ChunksFrom(t, k)[c - 1]
  <2>1. PICK p \in Nat : p = c - 1 /\ k <= p /\ p < Len(t) /\ p + 1 = c
    <3>1. c - 1 \in Nat /\ k <= c - 1 /\ c - 1 < Len(t) /\ (c - 1) + 1 = c
      BY <1>0, <1>2
    <3> QED BY <3>1
  <2>2. k \in Nat \ {0}
    BY <1>0
  <2>3. ChunksFrom(t, k)[p + 1] =
          IF t[p + 1].kind = "base64" THEN Append(ChunksFrom(t, k)[p], t[p + 1].value)
          ELSE ChunksFrom(t, k)[p]
    BY <1>0, <2>1, <2>2, ChunksNext
  <2>4. t[c].kind # "base64"
    OBVIOUS
  <2> QED BY <2>1, <2>3, <2>4, Zenon
<1>11. BodyOf(t, <<k, c>>) = ChunksFrom(t, k)[c]
  <2>1. <<k, c>>[1] = k /\ <<k, c>>[2] = c
    OBVIOUS
  <2> QED BY <2>1, Zenon DEF BodyOf
<1> QED BY <1>3, <1>4, <1>5, <1>9, <1>10, <1>11, Zenon DEF IsRead

\* A good block that the slice opens with is read to its end: the reader has not run
\* beyond the slice, and every line is one that it takes.
LEMMA GoodIsNotMissed ==
  ASSUME NEW t, NEW first, NEW end, IsSlice(t, first, end), NEW c, NEW m, NEW bod, Scan(t, first, end, c, m, bod),
         NEW i, NEW j, NEW l, IsBlock(t, i, j, l), j <= end, OpensFirst(t, first, end, i)
  PROVE  c <= end /\ (m # NoLabel => c <= j /\ m = l /\ InArmor(t, first, end, c, m, bod, i))
<1>0. c \in Nat /\ end \in Nat /\ first \in Nat \ {0} /\ first <= c /\ Len(t) \in Nat /\ end <= Len(t)
      /\ i \in 1 .. Len(t) /\ j \in 1 .. Len(t) /\ i < j
  BY DEF IsSlice, Scan, IsBlock
<1>1. i \in first .. end /\ Opens(t, first, end, i)
  BY DEF OpensFirst, Opens
<1>2. CASE m = NoLabel
  <2>1. \A k \in first .. c - 1 : ~Opens(t, first, end, k)
    BY <1>2 DEF Scan
  <2>2. ~(i \in first .. c - 1)
    BY <1>1, <2>1
  <2> QED BY <1>0, <1>1, <1>2, <2>2
<1>3. CASE m # NoLabel
  <2>1. PICK k \in first .. end : InArmor(t, first, end, c, m, bod, k)
    BY <1>3 DEF Scan
  <2>2. k = i
    BY <1>0, <2>1, OpensFirstOnce DEF InArmor
  <2>3. \A n \in i + 1 .. c - 1 : n <= end => Filler(t[n])
    BY <2>1, <2>2 DEF InArmor
  <2>4. ~Filler(t[j])
    BY BlockEnds, <1>0 DEF Filler, IsLineEnd
  <2>5. c <= j
    BY <1>0, <2>3, <2>4
  <2>6. m = l
    <3>1. t[i] = BEGIN(m) /\ t[i] = BEGIN(l)
      BY <2>1, <2>2, Zenon DEF InArmor, IsBlock
    <3> QED BY <3>1 DEF BEGIN, Token
  <2> QED BY <1>0, <2>1, <2>2, <2>5, <2>6
<1> QED BY <1>2, <1>3

\* Outside the armor, the first line that opens a block is the BEGIN of the good one.
LEMMA GoodBegins ==
  ASSUME NEW t, NEW first, NEW end, IsSlice(t, first, end), NEW c, c <= end, NEW bod,
         Scan(t, first, end, c, NoLabel, bod), NEW e, IsLine(t, end, c, e), BeginsAt(t, c, e),
         NEW i, NEW j, NEW l, IsBlock(t, i, j, l), Alone(t, i), j <= end, OpensFirst(t, first, end, i)
  PROVE  LabelAt(t, c, e)
<1>0. c \in Nat /\ end \in Nat /\ first \in Nat \ {0} /\ first <= c /\ Len(t) \in Nat /\ end <= Len(t)
      /\ i \in 1 .. Len(t) /\ j \in 1 .. Len(t) /\ i < j /\ e \in c .. end + 1
  BY DEF IsSlice, Scan, IsBlock, IsLine
<1>1. c = first \/ IsLineEnd(t[c - 1])
  BY <1>0 DEF Scan
<1>2. Opens(t, first, end, c)
  BY <1>0, <1>1, OpensHere
<1>3. OpensFirst(t, first, end, c)
  BY <1>2 DEF Scan, OpensFirst
<1>4. c = i
  BY <1>0, <1>3, OpensFirstOnce
<1>5. IsLineEnd(t[c + 1])
  BY <1>0, <1>4 DEF Alone
<1>6. e = c + 1
  <2>1. c < e
    BY DEF BeginsAt
  <2>2. ~(c + 1 \in c .. e - 1)
    BY <1>5 DEF IsLine
  <2> QED BY <1>0, <2>1, <2>2
<1>7. t[c].value \in Labels
  <2>1. t[i] = BEGIN(l) /\ l \in Labels
    BY DEF IsBlock
  <2> QED BY <1>4, <2>1, Markers, Zenon
<1> QED BY <1>6, <1>7 DEF LabelAt

\* The line from c to e is the END of the block from i to j, whose body has been read.
IsGoodEnd(t, c, e, m, bod, i, j, l) ==
  /\ c = j /\ EndsAt(t, c, e) /\ LabelAt(t, c, e)
  /\ t[c].value = m /\ m = l /\ bod = BodyOf(t, <<i, j>>)

\* In the armor of a good block, a line that is neither blank nor base64 is its END.
LEMMA GoodEnds ==
  ASSUME NEW t, NEW first, NEW end, IsSlice(t, first, end), NEW c, c <= end, NEW m, m # NoLabel, NEW bod,
         Scan(t, first, end, c, m, bod), NEW e, IsLine(t, end, c, e), c # e, ~Base64At(t, c, e),
         NEW i, NEW j, NEW l, IsBlock(t, i, j, l), Alone(t, j), j <= end, OpensFirst(t, first, end, i)
  PROVE  IsGoodEnd(t, c, e, m, bod, i, j, l)
<1>0. c \in Nat /\ end \in Nat /\ first \in Nat \ {0} /\ first <= c /\ Len(t) \in Nat /\ end <= Len(t)
      /\ i \in 1 .. Len(t) /\ j \in 1 .. Len(t) /\ i < j /\ e \in c .. end + 1
  BY DEF IsSlice, Scan, IsBlock, IsLine
<1>1. c <= j /\ m = l /\ InArmor(t, first, end, c, m, bod, i)
  BY GoodIsNotMissed
<1>2. i + 2 <= c /\ \A k \in i + 1 .. j - 1 : Filler(t[k])
  BY <1>1 DEF InArmor, IsBlock
<1>3. j < e
  <2> SUFFICES ASSUME e <= j PROVE FALSE
    BY <1>0
  <2>1. \A k \in c .. e - 1 : Filler(t[k]) /\ ~IsLineEnd(t[k])
    BY <1>0, <1>2 DEF IsLine
  <2>2. Base64At(t, c, e)
    BY <1>0, <2>1 DEF Base64At, Filler
  <2> QED BY <2>2
<1>4. c = j
  <2>1. IsLineEnd(t[j - 1])
    BY <1>0 DEF Alone
  <2>2. ~(j - 1 \in c .. e - 1)
    BY <2>1 DEF IsLine
  <2> QED BY <1>0, <1>1, <1>3, <2>2
<1>5. e = c + 1
  <2>1. j < end => IsLineEnd(t[j + 1])
    BY <1>0 DEF Alone
  <2>2. j < end => ~(j + 1 \in c .. e - 1)
    BY <2>1 DEF IsLine
  <2> QED BY <1>0, <1>3, <1>4, <2>2
<1>6. t[c].kind = "end" /\ t[c].value = m /\ m \in Labels /\ IsMarker(t[c])
  <2>1. t[j].kind = "end" /\ t[j].value = l /\ l \in Labels
    <3>1. t[j].kind = "end" /\ t[j].value = l
      BY <1>0, BlockEnds
    <3>2. l \in Labels
      BY DEF IsBlock
    <3> QED BY <3>1, <3>2
  <2> QED BY <1>1, <1>4, <2>1 DEF IsMarker
<1>7. EndsAt(t, c, e) /\ LabelAt(t, c, e)
  <2>1. c < e /\ e - 1 = c
    BY <1>0, <1>5
  <2> QED BY <1>5, <1>6, <2>1 DEF EndsAt, LabelAt
<1>8. PICK k \in first .. end : OpensFirst(t, first, end, k) /\ IsRead(t, k, c, m, bod)
  BY <1>6, ScanEnds
<1>9. k = i
  BY <1>0, <1>8, OpensFirstOnce
<1>10. bod = BodyOf(t, <<i, j>>)
  BY <1>4, <1>8, <1>9 DEF IsRead
<1> QED BY <1>1, <1>4, <1>6, <1>7, <1>10, Zenon DEF IsGoodEnd

-----------------------------------------------------------------------------
(* What a result holds.                                                      *)

\* An empty result has no blocks,
LEMMA ReturnedNothing ==
  ASSUME NEW t
  PROVE  Returned(t, <<>>, {})
<1>1. <<>> \in [1 .. Len(<<>>) -> {}]
  OBVIOUS
<1> QED BY <1>1 DEF Returned

\* and nothing else has an empty result.
LEMMA NothingReturned ==
  ASSUME NEW t, NEW S, Returned(t, <<>>, S)
  PROVE  S = {}
BY DEF Returned

\* A block behind the others is one more.
LEMMA ReturnedMore ==
  ASSUME NEW t, NEW S, NEW V, NEW bodies \in Seq(V), Returned(t, bodies, S),
         NEW b, BodyOf(t, b) \in V, b[1] \in Int, \A a \in S : a[1] \in Int /\ a[1] < b[1],
         NEW new, new = Append(bodies, BodyOf(t, b)), NEW T, T = S \cup {b}
  PROVE  Returned(t, new, T)
<1>1. PICK blocks \in [1 .. Len(bodies) -> S] :
        /\ \A a \in S : \E k \in 1 .. Len(bodies) : blocks[k] = a
        /\ \A j \in 1 .. Len(bodies) : \A k \in 1 .. j - 1 : blocks[k][1] < blocks[j][1]
        /\ \A k \in 1 .. Len(bodies) : bodies[k] = BodyOf(t, blocks[k])
  BY DEF Returned
<1>2. PICK n \in Nat : n = Len(bodies)
  OBVIOUS
<1>3. PICK v \in V : v = BodyOf(t, b)
  OBVIOUS
<1>p. PICK p \in Nat : p = n + 1
  OBVIOUS
<1> USE <1>p
<1>4. new \in Seq(V) /\ Len(new) = p /\ new[p] = v /\ \A k \in 1 .. n : new[k] = bodies[k]
  BY <1>2, <1>3
<1>5. PICK more : more = [k \in 1 .. p |-> IF k = p THEN b ELSE blocks[k]]
  OBVIOUS
<1>6. more[p] = b /\ \A k \in 1 .. n : more[k] = blocks[k]
  BY <1>5
<1>7. more \in [1 .. p -> T]
  <2>1. \A k \in 1 .. n : blocks[k] \in S
    BY <1>1, <1>2
  <2> QED BY <1>5, <2>1
<1>8. \A a \in T : \E k \in 1 .. p : more[k] = a
  <2> SUFFICES ASSUME NEW a \in T PROVE \E k \in 1 .. p : more[k] = a
    OBVIOUS
  <2>1. CASE a = b
    <3>1. p \in 1 .. p
      OBVIOUS
    <3> QED BY <1>6, <2>1, <3>1, Zenon
  <2>2. CASE a \in S
    <3>1. PICK k \in 1 .. n : blocks[k] = a
      BY <1>1, <1>2, <2>2, Zenon
    <3>2. k \in 1 .. p
      OBVIOUS
    <3> QED BY <1>6, <3>1, <3>2, Zenon
  <2> QED BY <2>1, <2>2
<1>9. \A j \in 1 .. p : \A k \in 1 .. j - 1 : more[k][1] < more[j][1]
  <2> SUFFICES ASSUME NEW j \in 1 .. p, NEW k \in 1 .. j - 1 PROVE more[k][1] < more[j][1]
    OBVIOUS
  <2>1. k \in 1 .. n /\ more[k] = blocks[k] /\ blocks[k] \in S
    BY <1>1, <1>2, <1>6
  <2>2. CASE j = p
    BY <1>6, <2>1, <2>2
  <2>3. CASE j # p
    <3>1. j \in 1 .. n
      BY <2>3
    <3>2. blocks[k][1] < blocks[j][1]
      BY <1>1, <1>2, <3>1, Zenon
    <3> QED BY <1>6, <2>1, <3>1, <3>2
  <2> QED BY <2>2, <2>3
<1>10. \A k \in 1 .. p : new[k] = BodyOf(t, more[k])
  <2> SUFFICES ASSUME NEW k \in 1 .. p PROVE new[k] = BodyOf(t, more[k])
    OBVIOUS
  <2>1. CASE k = p
    BY <1>3, <1>4, <1>6, <2>1, Zenon
  <2>2. CASE k # p
    <3>1. k \in 1 .. n
      BY <2>2
    <3> QED BY <1>1, <1>2, <1>4, <1>6, <3>1, Zenon
  <2> QED BY <2>1, <2>2
<1> DEFINE UpTo(m) == \E f \in [1 .. m -> T] :
                       /\ \A a \in T : \E k \in 1 .. m : f[k] = a
                       /\ \A j \in 1 .. m : \A k \in 1 .. j - 1 : f[k][1] < f[j][1]
                       /\ \A k \in 1 .. m : new[k] = BodyOf(t, f[k])
<1>11. p = Len(new)
  BY <1>4
<1>12. UpTo(p)
  BY <1>7, <1>8, <1>9, <1>10, Zenon DEF UpTo
<1>13. Returned(t, new, T)
  <2>. HIDE DEF UpTo
  <2>1. UpTo(Len(new)) = UpTo(p)
    BY <1>11, Zenon
  <2>2. UpTo(Len(new))
    BY <1>12, <2>1, Zenon
  <2> QED BY <2>2, Zenon DEF Returned, UpTo
<1> QED BY <1>13

-----------------------------------------------------------------------------
(* The blocks that load_pem_bundle cuts out.                                 *)

\* A search from p finds first, its END at last, and cuts at end.
IsCut(t, p, first, last, end) ==
  /\ p \in Nat \ {0} /\ first \in p .. Len(t) /\ last \in first + 1 .. Len(t) /\ end \in last .. Len(t)
  /\ t[first].kind = "begin" /\ \A k \in p .. first - 1 : t[k].kind # "begin"
  /\ t[last].kind = "end" /\ \A k \in first .. last - 1 : t[k].kind # "end"
  /\ end = Len(t) \/ t[end] = LF
  /\ \A k \in last .. end - 1 : t[k] # LF

\* The searches: the first position from p on, or 0 if there is none.
IsFirstFrom(f, S, p) == IF f = 0 THEN S = {} ELSE f \in S /\ \A k \in p .. f - 1 : k \notin S

LEMMA FirstFrom ==
  ASSUME NEW p \in Nat \ {0}, NEW n \in Nat, NEW S, S \subseteq p .. n
  PROVE  IsFirstFrom(First(S), S, p)
<1>1. S \subseteq Nat
  OBVIOUS
<1>2. PICK f : f = First(S)
  OBVIOUS
<1>3. IF S = {} THEN f = 0 ELSE f \in S /\ \A j \in S : f <= j
  BY <1>1, <1>2, FirstIs DEF IsFirst
<1>4. CASE S = {}
  BY <1>2, <1>3, <1>4, Zenon DEF IsFirstFrom
<1>5. CASE S # {}
  <2>1. f \in S /\ f \in p .. n /\ \A j \in S : f <= j
    BY <1>3, <1>5
  <2>2. f # 0
    BY <2>1
  <2>3. \A k \in p .. f - 1 : ~(f <= k)
    BY <2>1
  <2> QED BY <1>2, <2>1, <2>2, <2>3, Zenon DEF IsFirstFrom
<1> QED BY <1>4, <1>5

\* The search for a BEGIN,
LEMMA BeginIs ==
  ASSUME NEW t, Len(t) \in Nat, NEW p \in Nat \ {0}
  PROVE  IF BeginFrom(t, p) = 0 THEN \A k \in p .. Len(t) : t[k].kind # "begin"
         ELSE /\ BeginFrom(t, p) \in p .. Len(t) /\ t[BeginFrom(t, p)].kind = "begin"
              /\ \A k \in p .. BeginFrom(t, p) - 1 : t[k].kind # "begin"
<1>1. PICK S : S = {k \in p .. Len(t) : t[k].kind = "begin"}
  OBVIOUS
<1>2. S \subseteq p .. Len(t)
  BY <1>1
<1>3. PICK f : f = BeginFrom(t, p)
  OBVIOUS
<1>4. f = First(S)
  BY <1>1, <1>3, Zenon DEF BeginFrom
<1>5. IsFirstFrom(f, S, p)
  BY <1>2, <1>4, FirstFrom
<1> QED BY <1>1, <1>3, <1>5 DEF IsFirstFrom

\* for an END,
LEMMA EndIs ==
  ASSUME NEW t, Len(t) \in Nat, NEW p \in Nat \ {0}
  PROVE  IF EndFrom(t, p) = 0 THEN \A k \in p .. Len(t) : t[k].kind # "end"
         ELSE /\ EndFrom(t, p) \in p .. Len(t) /\ t[EndFrom(t, p)].kind = "end"
              /\ \A k \in p .. EndFrom(t, p) - 1 : t[k].kind # "end"
<1>1. PICK S : S = {k \in p .. Len(t) : t[k].kind = "end"}
  OBVIOUS
<1>2. S \subseteq p .. Len(t)
  BY <1>1
<1>3. PICK f : f = EndFrom(t, p)
  OBVIOUS
<1>4. f = First(S)
  BY <1>1, <1>3, Zenon DEF EndFrom
<1>5. IsFirstFrom(f, S, p)
  BY <1>2, <1>4, FirstFrom
<1> QED BY <1>1, <1>3, <1>5 DEF IsFirstFrom

\* and for the end of its line.
LEMMA NewLineIs ==
  ASSUME NEW t, Len(t) \in Nat, NEW p \in Nat \ {0}
  PROVE  IF NewLineFrom(t, p) = 0 THEN \A k \in p .. Len(t) : t[k] # LF
         ELSE /\ NewLineFrom(t, p) \in p .. Len(t) /\ t[NewLineFrom(t, p)] = LF
              /\ \A k \in p .. NewLineFrom(t, p) - 1 : t[k] # LF
<1>1. PICK S : S = {k \in p .. Len(t) : t[k] = LF}
  OBVIOUS
<1>2. S \subseteq p .. Len(t)
  BY <1>1
<1>3. PICK f : f = NewLineFrom(t, p)
  OBVIOUS
<1>4. f = First(S)
  BY <1>1, <1>3, Zenon DEF NewLineFrom
<1>5. IsFirstFrom(f, S, p)
  BY <1>2, <1>4, FirstFrom
<1> QED BY <1>1, <1>3, <1>5 DEF IsFirstFrom

\* What FindBlock cuts out.
LEMMA CutIs ==
  ASSUME Len(text) \in Nat, searchFrom \in Nat \ {0}, Start # 0, EndMark # 0,
         NEW end, end = IF NewLine = 0 THEN Len(text) ELSE NewLine
  PROVE  IsCut(text, searchFrom, Start, EndMark, end)
<1>1. PICK s : s = Start
  OBVIOUS
<1>2. s \in searchFrom .. Len(text) /\ text[s].kind = "begin" /\ \A k \in searchFrom .. s - 1 : text[k].kind # "begin"
  BY <1>1, BeginIs DEF Start
<1>3. PICK e : e = EndMark
  OBVIOUS
<1>4. e \in s .. Len(text) /\ text[e].kind = "end" /\ \A k \in s .. e - 1 : text[k].kind # "end"
  <2>1. s \in Nat \ {0}
    BY <1>2
  <2>2. e = EndFrom(text, s)
    BY <1>1, <1>3, Zenon DEF EndMark
  <2> QED BY <1>3, <2>1, <2>2, EndIs
<1>5. e \in s + 1 .. Len(text)
  <2>1. e # s
    BY <1>2, <1>4
  <2> QED BY <1>2, <1>4, <2>1
<1>6. end \in e .. Len(text) /\ (end = Len(text) \/ text[end] = LF) /\ \A k \in e .. end - 1 : text[k] # LF
  <2>1. e \in Nat \ {0}
    BY <1>2, <1>4
  <2>2. PICK n : n = NewLine
    OBVIOUS
  <2>3. n = NewLineFrom(text, e)
    BY <1>3, <2>2, Zenon DEF NewLine
  <2>4. IF n = 0 THEN \A k \in e .. Len(text) : text[k] # LF
        ELSE n \in e .. Len(text) /\ text[n] = LF /\ \A k \in e .. n - 1 : text[k] # LF
    BY <2>1, <2>3, NewLineIs
  <2>5. end = IF n = 0 THEN Len(text) ELSE n
    BY <2>2
  <2> QED BY <1>4, <2>1, <2>4, <2>5
<1>7. IsCut(text, searchFrom, s, e, end)
  BY <1>2, <1>4, <1>5, <1>6, Zenon DEF IsCut
<1> QED BY <1>1, <1>3, <1>7, Zenon

\* In a text whose lines end in "\n", the block that is read of a cut ends where the cut
\* was made, and is the only one that begins in it.
LEMMA CutHasOneBlock ==
  ASSUME NEW t, IsText(t), Len(t) \in Nat, LineFeedsOnly(t),
         NEW p, NEW first, NEW last, NEW end, IsCut(t, p, first, last, end),
         NEW k \in first .. end, NEW c, NEW l, NEW bod, IsRead(t, k, c, l, bod), c <= end, c < end => IsLineEnd(t[c + 1])
  PROVE  \A b \in Blocks(t) : b[1] \in p .. end => b = <<k, c>>
<1>0. /\ p \in Nat \ {0} /\ first \in p .. Len(t) /\ last \in first + 1 .. Len(t) /\ end \in last .. Len(t)
      /\ k \in 1 .. Len(t) /\ c \in 1 .. Len(t) /\ k < c
  BY DEF IsCut, IsRead, IsBlock
<1>1. IsBlock(t, k, c, l) /\ IsLineEnd(t[c - 1])
  BY DEF IsRead
<1>2. \A n \in last .. end - 1 : ~IsLineEnd(t[n])
  <2> SUFFICES ASSUME NEW n \in last .. end - 1, IsLineEnd(t[n]) PROVE FALSE
    OBVIOUS
  <2>1. n \in 1 .. Len(t)
    BY <1>0
  <2>2. t[n] = LF \/ t[n] = CR \/ t[n] = NEL
    BY <2>1, Kinds DEF IsLineEnd
  <2>3. t[n] # CR /\ t[n] # NEL
    BY <2>1 DEF LineFeedsOnly
  <2>4. t[n] # LF
    BY DEF IsCut
  <2> QED BY <2>2, <2>3, <2>4
<1>3. t[c].kind = "end"
  BY <1>0, <1>1, BlockEnds
<1>4. last <= c
  <2>1. \A n \in first .. last - 1 : t[n].kind # "end"
    BY DEF IsCut
  <2> QED BY <1>0, <1>3, <2>1
<1>5. c = last
  BY <1>0, <1>1, <1>2, <1>4
<1>6. \A n \in last .. end : t[n].kind # "begin"
  <2> SUFFICES ASSUME NEW n \in last .. end PROVE t[n].kind # "begin"
    OBVIOUS
  <2>1. CASE n = c
    BY <1>3, <2>1
  <2>2. CASE n # c
    <3>1. c + 1 \in last .. end /\ c < end
      BY <1>0, <1>5, <2>2
    <3>2. IsLineEnd(t[c + 1])
      BY <3>1
    <3>3. ~(c + 1 \in last .. end - 1)
      BY <1>2, <3>2
    <3>4. n = c + 1
      BY <1>0, <1>5, <2>2, <3>1, <3>3
    <3> QED BY <3>2, <3>4 DEF IsLineEnd
  <2> QED BY <2>1, <2>2
<1>7. ASSUME NEW b \in Blocks(t), b[1] \in p .. end PROVE b = <<k, c>>
  <2>1. b = <<b[1], b[2]>> /\ \E m \in Labels : IsBlock(t, b[1], b[2], m)
    BY BlockParts, Zenon
  <2>2. PICK i, j, m : i = b[1] /\ j = b[2] /\ IsBlock(t, i, j, m)
    BY <2>1, Zenon
  <2>3. i \in 1 .. Len(t) /\ j \in 1 .. Len(t) /\ i < j
    BY <2>2 DEF IsBlock
  <2>4. t[i].kind = "begin" /\ t[j].kind = "end" /\ \A n \in i + 1 .. j : t[n].kind = "end" => n = j
    BY <1>0, <2>2, BlockEnds
  <2>5. i \in first .. last - 1
    <3>1. \A n \in p .. first - 1 : t[n].kind # "begin"
      BY DEF IsCut
    <3> QED BY <1>0, <1>6, <1>7, <2>2, <2>4, <3>1
  <2>6. last <= j
    <3>1. \A n \in first .. last - 1 : t[n].kind # "end"
      BY DEF IsCut
    <3> QED BY <1>0, <2>3, <2>4, <2>5, <3>1
  <2>7. j = c
    <3>1. c \in i + 1 .. j
      BY <1>0, <1>5, <2>3, <2>5, <2>6
    <3> QED BY <1>3, <2>4, <3>1
  <2>8. IsBlock(t, i, c, m)
    BY <2>2, <2>7
  <2>9. i = k
    BY <1>1, <2>8, SameEnd
  <2> QED BY <2>1, <2>2, <2>7, <2>9, Zenon
<1> QED BY <1>7

\* The certificate blocks that begin before p.
Before(t, p) == {b \in CertificateBlocks(t) : b[1] < p}

\* Where blocks begin and end.
LEMMA BlockTypes ==
  ASSUME NEW t, Len(t) \in Nat, NEW b \in Blocks(t)
  PROVE  b[1] \in 1 .. Len(t) /\ b[2] \in 1 .. Len(t) /\ b[1] < b[2] /\ t[b[1]].kind = "begin" /\ t[b[2]].kind = "end"
<1>1. PICK i, j, m : i = b[1] /\ j = b[2] /\ IsBlock(t, i, j, m)
  BY BlockParts, Zenon
<1>2. i \in 1 .. Len(t) /\ j \in 1 .. Len(t) /\ i < j
  BY <1>1 DEF IsBlock
<1>3. t[i].kind = "begin" /\ t[j].kind = "end"
  BY <1>1, BlockEnds
<1> QED BY <1>1, <1>2, <1>3

\* So the search goes on behind the blocks that have been returned.
LEMMA BeforeNext ==
  ASSUME NEW t, IsText(t), Len(t) \in Nat, LineFeedsOnly(t),
         NEW p, NEW first, NEW last, NEW end, IsCut(t, p, first, last, end),
         NEW k \in first .. end, NEW c, NEW l, NEW bod, IsRead(t, k, c, l, bod), c <= end, c < end => IsLineEnd(t[c + 1])
  PROVE  /\ Before(t, end + 1) = Before(t, p) \cup (IF l = CERTIFICATE THEN {<<k, c>>} ELSE {})
         /\ \A a \in Before(t, p) : a[1] \in Int /\ a[1] < k
<1>0. /\ p \in Nat \ {0} /\ first \in p .. Len(t) /\ end \in 0 .. Len(t) /\ p <= k /\ k <= end
      /\ k \in Nat /\ end \in Nat
  BY DEF IsCut
<1>1. \A b \in Blocks(t) : b[1] \in p .. end => b = <<k, c>>
  BY CutHasOneBlock
<1>2. <<k, c>> \in Blocks(t) /\ t[k].value = l
  <2>1. IsBlock(t, k, c, l)
    BY DEF IsRead
  <2> QED BY <2>1, BlockMade, BlockEnds
<1>3. <<k, c>>[1] = k
  OBVIOUS
<1>4. <<k, c>> \in CertificateBlocks(t) <=> l = CERTIFICATE
  BY <1>2, <1>3, Zenon DEF CertificateBlocks
<1>5. ASSUME NEW b PROVE b \in Before(t, end + 1) <=> b \in Before(t, p) \/ (b = <<k, c>> /\ l = CERTIFICATE)
  <2>1. ASSUME b \in Before(t, end + 1) PROVE b \in Before(t, p) \/ (b = <<k, c>> /\ l = CERTIFICATE)
    <3>1. b \in CertificateBlocks(t) /\ b \in Blocks(t) /\ b[1] < end + 1
      BY <2>1 DEF Before, CertificateBlocks
    <3>2. PICK i : i = b[1] /\ i \in 1 .. Len(t)
      BY <3>1, BlockTypes
    <3>3. CASE i < p
      BY <3>1, <3>2, <3>3 DEF Before
    <3>4. CASE ~(i < p)
      <4>1. i \in p .. end
        BY <1>0, <3>1, <3>2, <3>4
      <4>2. b = <<k, c>>
        BY <1>1, <3>1, <3>2, <4>1, Zenon
      <4> QED BY <1>4, <3>1, <4>2, Zenon
    <3> QED BY <3>3, <3>4
  <2>2. ASSUME b \in Before(t, p) PROVE b \in Before(t, end + 1)
    <3>1. b \in CertificateBlocks(t) /\ b \in Blocks(t) /\ b[1] < p
      BY <2>2 DEF Before, CertificateBlocks
    <3>2. b[1] \in 1 .. Len(t)
      BY <3>1, BlockTypes
    <3>3. b[1] < end + 1
      BY <1>0, <3>1, <3>2
    <3> QED BY <3>1, <3>3 DEF Before
  <2>3. ASSUME b = <<k, c>>, l = CERTIFICATE PROVE b \in Before(t, end + 1)
    <3>1. b \in CertificateBlocks(t)
      BY <1>4, <2>3, Zenon
    <3>2. b[1] < end + 1
      BY <1>0, <1>3, <2>3
    <3> QED BY <3>1, <3>2 DEF Before
  <2> QED BY <2>1, <2>2, <2>3
<1>6. Before(t, end + 1) = Before(t, p) \cup (IF l = CERTIFICATE THEN {<<k, c>>} ELSE {})
  <2>1. CASE l = CERTIFICATE
    BY <1>5, <2>1, Zenon
  <2>2. CASE l # CERTIFICATE
    BY <1>5, <2>2, Zenon
  <2> QED BY <2>1, <2>2
<1>7. ASSUME NEW a \in Before(t, p) PROVE a[1] \in Int /\ a[1] < k
  <2>1. a \in Blocks(t) /\ a[1] < p
    BY DEF Before, CertificateBlocks
  <2>2. a[1] \in 1 .. Len(t)
    BY <2>1, BlockTypes
  <2> QED BY <1>0, <2>1, <2>2
<1> QED BY <1>6, <1>7

-----------------------------------------------------------------------------
(* The inductive invariant.                                                  *)

\* The bodies of the blocks of a text.
Bodies(t) == {BodyOf(t, b) : b \in Blocks(t)}

\* The types of the variables; those that only the reader of lines uses are in Scan.
PemTypeOK ==
  /\ text \in Texts /\ form \in {"str", "bytes"} /\ searchFrom \in Nat \ {0} /\ result \in Seq(Bodies(text))
  /\ call \in {"decode_pem", "from_pem", "load_pem_bundle"}
  /\ status \in {"running", "returned", "raised"}

\* Where the slice of the present call of decode_pem begins.
From == IF call = "load_pem_bundle" THEN Start ELSE 1

\* In a call of decode_pem: what it is given and what it has read.
Reading ==
  /\ IsSlice(text, From, blockEnd) /\ Scan(text, From, blockEnd, cursor, label, body)
  /\ IF call = "load_pem_bundle" THEN IsCut(text, searchFrom, Start, EndMark, blockEnd)
     ELSE blockEnd = Len(text) /\ result = <<>>

\* What holds while the call runs.
Running ==
  /\ IF blockEnd = NoBlock THEN call = "load_pem_bundle" ELSE Reading
  /\ call = "load_pem_bundle" /\ LineFeedsOnly(text) => Returned(text, result, Before(text, searchFrom))
  /\ call = "from_pem" => \A j, k \in Begins(text) : j = k
  /\ Converts => IsAscii(text)

\* The invariant: what has been read, and what was to be shown.
PemIInv ==
  /\ PemTypeOK
  /\ status = "running" => Running
  /\ LoadsEveryBlock /\ RejectsOnlyMalformed /\ DecodesFirstBlock

\* What the next line says.
LineRead(e) ==
  /\ e = LineEnd /\ IsLine(text, blockEnd, cursor, e)
  /\ Len(Line) = e - cursor /\ \A k \in cursor .. e - 1 : Line[k - cursor + 1] = text[k]
  /\ IsMarkerLine(Line, "begin") <=> BeginsAt(text, cursor, e)
  /\ IsMarkerLine(Line, "end") <=> EndsAt(text, cursor, e)
  /\ HasLabel(Line) <=> LabelAt(text, cursor, e)
  /\ e = cursor + 1 => Line[1] = text[cursor]
  /\ IsBase64(Line) <=> Base64At(text, cursor, e)
  /\ Line = <<>> <=> cursor = e

\* The state of the reader determines its next line.
LEMMA ReadsLine ==
  ASSUME InBlock, Reading
  PROVE  \E e \in Nat : LineRead(e)
<1>1. IsSlice(text, From, blockEnd) /\ cursor \in Nat /\ From <= cursor /\ cursor <= blockEnd
  BY DEF Reading, Scan, InBlock
<1>2. From \in Nat \ {0} /\ blockEnd \in Nat
  BY <1>1 DEF IsSlice
<1>3. cursor \in 1 .. blockEnd /\ IsSlice(text, 1, blockEnd)
  BY <1>1, <1>2 DEF IsSlice
<1>4. /\ IsTextOf(Line, text, cursor, LineEnd) /\ IsLine(text, blockEnd, cursor, LineEnd)
      /\ Len(Line) = 0 <=> Line = <<>>
  BY <1>3, LineIs
<1>5. PICK e : e = LineEnd
  OBVIOUS
<1>6. PICK line : line = Line
  OBVIOUS
<1>7. IsTextOf(line, text, cursor, e) /\ IsLine(text, blockEnd, cursor, e) /\ (Len(line) = 0 <=> line = <<>>)
  BY <1>4, <1>5, <1>6, Zenon
<1>8. e \in Nat /\ cursor \in Nat /\ cursor <= e
  BY <1>1, <1>2, <1>7 DEF IsLine
<1>9. /\ IsMarkerLine(line, "begin") <=> BeginsAt(text, cursor, e)
      /\ IsMarkerLine(line, "end") <=> EndsAt(text, cursor, e)
      /\ HasLabel(line) <=> LabelAt(text, cursor, e)
      /\ e = cursor + 1 => line[1] = text[cursor]
      /\ IsBase64(line) <=> Base64At(text, cursor, e)
      /\ line = <<>> <=> cursor = e
  BY <1>7, <1>8, LineSays
<1>10. Len(line) = e - cursor /\ \A k \in cursor .. e - 1 : line[k - cursor + 1] = text[k]
  BY <1>7, Zenon DEF IsTextOf
<1>11. LineRead(e)
  BY <1>5, <1>6, <1>7, <1>9, <1>10, Zenon DEF LineRead
<1> QED BY <1>8, <1>11

\* The steps of the reader that stay inside of the slice keep Reading.
LEMMA SameSlice ==
  ASSUME Reading, UNCHANGED <<text, form, call, searchFrom, blockEnd, result>>,
         Scan(text, From, blockEnd, cursor', label', body')
  PROVE  Reading'
<1>1. From' = From
  BY DEF From, Start
<1>2. Start' = Start
  BY DEF Start
<1>3. EndMark' = EndMark
  BY <1>2, Zenon DEF EndMark
<1> QED BY <1>1, <1>2, <1>3, Zenon DEF Reading

\* Such a step keeps the rest of the invariant,
LEMMA RunningKept ==
  ASSUME Running, UNCHANGED <<text, form, call, searchFrom, blockEnd, result>>, blockEnd # NoBlock => Reading'
  PROVE  Running'
<1>1. Converts' = Converts
  BY Zenon DEF Converts
<1> QED BY <1>1 DEF Running

\* and says nothing about a call that has ended.
LEMMA RunningOnly ==
  ASSUME PemTypeOK, UNCHANGED <<text, form, call, searchFrom, result, status>>, status = "running", Running'
  PROVE  PemIInv'
<1>1. PemTypeOK'
  BY Zenon DEF PemTypeOK
<1>2. status' = "running"
  OBVIOUS
<1>3. LoadsEveryBlock' /\ RejectsOnlyMalformed' /\ DecodesFirstBlock'
  BY <1>2 DEF LoadsEveryBlock, RejectsOnlyMalformed, DecodesFirstBlock
<1> QED BY <1>1, <1>3, Zenon DEF PemIInv

\* A BEGIN line opens the armor.
LEMMA BeginLineKeeps ==
  ASSUME PemIInv, BeginLine
  PROVE  PemIInv'
<1>1. InBlock /\ label = NoLabel /\ IsMarkerLine(Line, "begin") /\ HasLabel(Line)
      /\ label' = Line[1].value /\ cursor' = LineEnd + 1
      /\ UNCHANGED <<text, form, call, searchFrom, blockEnd, body, result, status>>
  BY DEF BeginLine
<1>2. Running /\ Reading /\ status = "running" /\ PemTypeOK
  BY <1>1 DEF PemIInv, Running, InBlock
<1>3. PICK e \in Nat : LineRead(e)
  BY <1>1, <1>2, ReadsLine
<1>4. BeginsAt(text, cursor, e) /\ LabelAt(text, cursor, e) /\ IsLine(text, blockEnd, cursor, e)
  BY <1>1, <1>3, Zenon DEF LineRead
<1>5. cursor' = e + 1 /\ label' = text[cursor].value
  <2>1. e = cursor + 1
    BY <1>4 DEF LabelAt
  <2> QED BY <1>1, <1>3, <2>1, Zenon DEF LineRead
<1>6. cursor <= blockEnd /\ IsSlice(text, From, blockEnd) /\ Scan(text, From, blockEnd, cursor, NoLabel, body)
  BY <1>1, <1>2, Zenon DEF InBlock, Reading
<1>7. Scan(text, From, blockEnd, e + 1, text[cursor].value, body)
  BY <1>4, <1>6, ScanOpens, Zenon
<1>8. Reading'
  <2>1. Scan(text, From, blockEnd, cursor', label', body')
    BY <1>1, <1>5, <1>7, Zenon
  <2> QED BY <1>1, <1>2, <2>1, SameSlice, Zenon
<1>9. Running'
  BY <1>1, <1>2, <1>8, RunningKept, Zenon
<1> QED BY <1>1, <1>2, <1>9, RunningOnly, Zenon

\* A blank line adds nothing to the body.
LEMMA EmptyLineFills ==
  ASSUME NEW t, NEW first, NEW end, IsSlice(t, first, end), NEW c, c <= end, NEW l, l # NoLabel,
         NEW bod, Scan(t, first, end, c, l, bod), IsLine(t, end, c, c)
  PROVE  Scan(t, first, end, c + 1, l, bod)
<1>0. c \in Nat /\ end \in Nat /\ first \in Nat \ {0} /\ Len(t) \in Nat /\ end <= Len(t)
  BY DEF Scan, IsSlice
<1> DEFINE V == {t[k].value : k \in 1 .. Len(t)}
<1>1. PICK k \in first .. end : InArmor(t, first, end, c, l, bod, k)
  BY DEF Scan
<1>2. k + 2 <= c /\ bod = ChunksFrom(t, k)[c - 1] /\ t[k].kind = "begin"
  BY <1>0, <1>1 DEF InArmor, OpensFirst, Opens
<1>3. bod \in Seq(V)
  <2>1. \A n \in 1 .. Len(t) : t[n].value \in V
    OBVIOUS
  <2>. HIDE DEF V
  <2>2. k \in 1 .. Len(t) /\ t[k].kind # "base64"
    BY <1>0, <1>2
  <2>3. PICK n : n = c - 1 /\ n \in k .. Len(t)
    BY <1>0, <1>2
  <2>4. ChunksFrom(t, k)[n] \in Seq(V)
    BY <1>0, <2>1, <2>2, <2>3, ChunksType, Zenon
  <2> QED BY <1>2, <2>3, <2>4, Zenon
<1>4. PICK line : line = <<>>
  OBVIOUS
<1>5. Len(line) = c - c /\ Chunks(line) = <<>>
  BY <1>0, <1>4 DEF Chunks
<1>6. \A n \in c .. c - 1 : line[n - c + 1] = t[n] /\ t[n].kind = "base64"
  BY <1>0
<1>7. bod = bod \o Chunks(line)
  BY <1>3, <1>5
<1> QED BY <1>5, <1>6, <1>7, ScanFills, Zenon

\* A line outside the armor, or a blank one in it, is passed over.
LEMMA SkipLineKeeps ==
  ASSUME PemIInv, SkipLine
  PROVE  PemIInv'
<1>1. /\ InBlock /\ IF label = NoLabel THEN ~IsMarkerLine(Line, "begin") ELSE Line = <<>>
      /\ cursor' = LineEnd + 1
      /\ UNCHANGED <<text, form, call, searchFrom, blockEnd, label, body, result, status>>
  BY DEF SkipLine
<1>2. Running /\ Reading /\ status = "running" /\ PemTypeOK
  BY <1>1 DEF PemIInv, Running, InBlock
<1>3. PICK e \in Nat : LineRead(e)
  BY <1>1, <1>2, ReadsLine
<1>4. cursor' = e + 1 /\ IsLine(text, blockEnd, cursor, e)
  BY <1>1, <1>3, Zenon DEF LineRead
<1>5. cursor <= blockEnd /\ IsSlice(text, From, blockEnd) /\ Scan(text, From, blockEnd, cursor, label, body)
  BY <1>1, <1>2, Zenon DEF InBlock, Reading
<1>6. Scan(text, From, blockEnd, e + 1, label, body)
  <2>1. CASE label = NoLabel
    <3>1. ~BeginsAt(text, cursor, e)
      BY <1>1, <1>3, <2>1, Zenon DEF LineRead
    <3>2. Scan(text, From, blockEnd, cursor, NoLabel, body)
      BY <1>5, <2>1, Zenon
    <3>3. Scan(text, From, blockEnd, e + 1, NoLabel, body)
      BY <1>4, <1>5, <3>1, <3>2, ScanSkips, Zenon
    <3> QED BY <2>1, <3>3, Zenon
  <2>2. CASE label # NoLabel
    <3>1. e = cursor
      BY <1>1, <1>3, <2>2, Zenon DEF LineRead
    <3>2. IsLine(text, blockEnd, cursor, cursor)
      BY <1>4, <3>1, Zenon
    <3>3. Scan(text, From, blockEnd, cursor + 1, label, body)
      BY <1>5, <2>2, <3>2, EmptyLineFills, Zenon
    <3> QED BY <3>1, <3>3, Zenon
  <2> QED BY <2>1, <2>2
<1>7. Reading'
  <2>1. Scan(text, From, blockEnd, cursor', label', body')
    BY <1>1, <1>4, <1>6, Zenon
  <2> QED BY <1>1, <1>2, <2>1, SameSlice, Zenon
<1>8. Running'
  BY <1>1, <1>2, <1>7, RunningKept, Zenon
<1> QED BY <1>1, <1>2, <1>8, RunningOnly, Zenon

\* A line of base64 goes into the body.
LEMMA BodyLineKeeps ==
  ASSUME PemIInv, BodyLine
  PROVE  PemIInv'
<1>1. /\ InBlock /\ label # NoLabel /\ IsBase64(Line)
      /\ body' = body \o Chunks(Line) /\ cursor' = LineEnd + 1
      /\ UNCHANGED <<text, form, call, searchFrom, blockEnd, label, result, status>>
  BY DEF BodyLine
<1>2. Running /\ Reading /\ status = "running" /\ PemTypeOK
  BY <1>1 DEF PemIInv, Running, InBlock
<1>3. PICK e \in Nat : LineRead(e)
  BY <1>1, <1>2, ReadsLine
<1>4. cursor' = e + 1 /\ IsLine(text, blockEnd, cursor, e) /\ Base64At(text, cursor, e)
      /\ Len(Line) = e - cursor /\ \A k \in cursor .. e - 1 : Line[k - cursor + 1] = text[k]
  BY <1>1, <1>3, Zenon DEF LineRead
<1>5. cursor <= blockEnd /\ IsSlice(text, From, blockEnd) /\ Scan(text, From, blockEnd, cursor, label, body)
  BY <1>1, <1>2, Zenon DEF InBlock, Reading
<1>6. \A k \in cursor .. e - 1 : Line[k - cursor + 1] = text[k] /\ text[k].kind = "base64"
  BY <1>4, Zenon DEF Base64At
<1>7. Scan(text, From, blockEnd, e + 1, label, body')
  BY <1>1, <1>4, <1>5, <1>6, ScanFills, Zenon
<1>8. Reading'
  <2>1. Scan(text, From, blockEnd, cursor', label', body')
    BY <1>1, <1>4, <1>7, Zenon
  <2> QED BY <1>1, <1>2, <2>1, SameSlice, Zenon
<1>9. Running'
  BY <1>1, <1>2, <1>8, RunningKept, Zenon
<1> QED BY <1>1, <1>2, <1>9, RunningOnly, Zenon

\* A new slice starts with nothing read.
LEMMA FindBlockKeeps ==
  ASSUME PemIInv, FindBlock
  PROVE  PemIInv'
<1>1. /\ status = "running" /\ blockEnd = NoBlock /\ Start # 0 /\ EndMark # 0
      /\ blockEnd' = IF NewLine = 0 THEN Len(text) ELSE NewLine
      /\ cursor' = Start /\ label' = NoLabel /\ body' = <<>>
      /\ UNCHANGED <<text, form, call, searchFrom, result, status>>
  BY DEF FindBlock, CutAt
<1>2. Running /\ call = "load_pem_bundle" /\ PemTypeOK
  BY <1>1 DEF PemIInv, Running
<1>3. IsText(text) /\ Len(text) \in Nat /\ searchFrom \in Nat \ {0}
  BY <1>2, TextsAreTexts DEF PemTypeOK
<1>4. IsCut(text, searchFrom, Start, EndMark, blockEnd')
  BY <1>1, <1>3, CutIs
<1>5. PICK s, n : s = Start /\ n = blockEnd'
  OBVIOUS
<1>6. IsSlice(text, s, n)
  BY <1>3, <1>4, <1>5 DEF IsCut, IsSlice
<1>7. Scan(text, s, n, s, NoLabel, <<>>)
  BY <1>6, ScanBegins
<1>8. From' = Start /\ Start' = Start
  BY <1>1, <1>2 DEF From, Start
<1>9. EndMark' = EndMark
  BY <1>1, <1>8, Zenon DEF EndMark
<1>10. Reading'
  <2>1. IsSlice(text', From', blockEnd') /\ Scan(text', From', blockEnd', cursor', label', body')
    BY <1>1, <1>5, <1>6, <1>7, <1>8, Zenon
  <2>2. IsCut(text', searchFrom', Start', EndMark', blockEnd') /\ call' = "load_pem_bundle"
    BY <1>1, <1>2, <1>4, <1>8, <1>9, Zenon
  <2> QED BY <2>1, <2>2, Zenon DEF Reading
<1>11. blockEnd' # NoBlock
  BY <1>5, <1>6 DEF IsSlice, NoBlock
<1>12. Running'
  <2>1. call' = "load_pem_bundle" /\ LineFeedsOnly(text') => Returned(text', result', Before(text', searchFrom'))
    BY <1>1, <1>2, Zenon DEF Running
  <2>2. call' # "from_pem"
    BY <1>1, <1>2
  <2>3. Converts' => IsAscii(text')
    BY <1>1, <1>2, Zenon DEF Running, Converts
  <2> QED BY <1>10, <1>11, <2>1, <2>2, <2>3, Zenon DEF Running
<1> QED BY <1>1, <1>2, <1>12, RunningOnly, Zenon

-----------------------------------------------------------------------------
(* The ends of a call.                                                       *)

\* What the three properties say of a call that has ended.
LEMMA EndsWell ==
  ASSUME PemTypeOK, Converts => IsAscii(text), UNCHANGED <<text, form, call, searchFrom>>, result' \in Seq(Bodies(text)),
         status' \in {"returned", "raised"},
         status' = "returned" /\ call # "decode_pem" /\ LineFeedsOnly(text)
           => Returned(text, result', CertificateBlocks(text)),
         status' = "raised" /\ call = "load_pem_bundle"
           => ~(LineFeedsOnly(text) /\ WellFormed(text) /\ Loadable(text)),
         status' = "raised" /\ call = "from_pem" => ~(WellFormed(text) /\ Loadable(text) /\ Single(text)),
         status' = "raised" /\ call = "decode_pem" => FirstBlock(text) = {},
         status' = "returned" /\ call = "decode_pem"
           => /\ FirstBlock(text) # {} /\ Returned(text, result', FirstBlock(text))
              /\ \A b \in FirstBlock(text) : label' = text[b[1]].value
  PROVE  PemIInv'
<1>1. PemTypeOK'
  BY Zenon DEF PemTypeOK
<1>2. LoadsEveryBlock'
  BY DEF LoadsEveryBlock
<1>3. DecodesFirstBlock'
  <2>1. call = "decode_pem" /\ form = "bytes" => IsAscii(text)
    BY Zenon DEF Converts
  <2>2. text' = text /\ call' = call /\ form' = form
    OBVIOUS
  <2> QED BY <2>1, <2>2 DEF DecodesFirstBlock
<1>4. RejectsOnlyMalformed'
  <2>1. CASE call = "load_pem_bundle"
    BY <2>1 DEF RejectsOnlyMalformed
  <2>2. CASE call = "from_pem"
    BY <2>2 DEF RejectsOnlyMalformed
  <2>3. CASE call = "decode_pem"
    BY <2>3 DEF RejectsOnlyMalformed
  <2> QED BY <2>1, <2>2, <2>3 DEF PemTypeOK
<1>5. status' # "running"
  OBVIOUS
<1> QED BY <1>1, <1>2, <1>3, <1>4, <1>5, Zenon DEF PemIInv

\* The slice of a good block in a text whose lines end in "\n" is ASCII.
LEMMA GoodIsAscii ==
  ASSUME NEW t, IsText(t), Len(t) \in Nat, LineFeedsOnly(t), WellFormed(t),
         NEW p, NEW i, NEW last, NEW end, IsCut(t, p, i, last, end)
  PROVE  AsciiIn(t, i, end)
<1>1. /\ i \in 1 .. Len(t) /\ last \in i + 1 .. Len(t) /\ end \in last .. Len(t)
      /\ t[i].kind = "begin" /\ t[last].kind = "end" /\ \A k \in i .. last - 1 : t[k].kind # "end"
      /\ \A k \in last .. end - 1 : t[k] # LF
  BY DEF IsCut
<1>2. PICK b \in Blocks(t) : b[1] = i /\ GoodBlock(t, b)
  <2>1. i \in Begins(t)
    BY <1>1 DEF Begins
  <2> QED BY <2>1 DEF WellFormed
<1>3. PICK j, l : j = b[2] /\ b = <<i, j>> /\ l \in Labels /\ IsBlock(t, i, j, l)
  BY <1>2, BlockParts, Zenon
<1>4. j = last
  <2>1. t[j].kind = "end" /\ \A k \in i + 1 .. j : t[k].kind = "end" => k = j
    BY <1>1, <1>3, BlockEnds
  <2>2. j \in 1 .. Len(t) /\ i < j
    BY <1>3 DEF IsBlock
  <2>3. last <= j
    BY <1>1, <2>1, <2>2
  <2>4. last \in i + 1 .. j
    BY <1>1, <2>2, <2>3
  <2> QED BY <1>1, <2>1, <2>4
<1>5. ASSUME NEW k \in 1 .. Len(t), IsLineEnd(t[k]) PROVE t[k] = LF
  <2>1. t[k] # CR /\ t[k] # NEL
    BY DEF LineFeedsOnly
  <2>2. t[k] = LF \/ t[k] = CR \/ t[k] = NEL
    BY <1>5, Kinds DEF IsLineEnd
  <2> QED BY <2>1, <2>2
<1>6. end = last \/ end = last + 1
  <2> SUFFICES ASSUME end # last, end # last + 1 PROVE FALSE
    OBVIOUS
  <2>1. last + 1 \in last .. end - 1 /\ last + 1 \in 1 .. Len(t) /\ last < Len(t)
    BY <1>1
  <2>2. IsLineEnd(t[last + 1])
    BY <1>2, <1>3, <1>4, <2>1 DEF GoodBlock, Alone
  <2> QED BY <1>1, <1>5, <2>1, <2>2
<1>7. ASSUME NEW k \in i .. end PROVE t[k].kind \in {"begin", "end", "base64", "LF"}
  <2>0. k \in 1 .. Len(t)
    BY <1>1
  <2>1. CASE k = i \/ k = last
    BY <1>1, <2>1
  <2>2. CASE k \in i + 1 .. last - 1
    <3>1. t[k].kind = "base64" \/ IsLineEnd(t[k])
      BY <1>3, <1>4, <2>2 DEF IsBlock, Filler
    <3> QED BY <1>5, <2>0, <3>1, Markers
  <2>3. CASE k = last + 1
    <3>1. last < Len(t)
      BY <1>1, <2>0, <2>3
    <3>2. IsLineEnd(t[k])
      BY <1>2, <1>3, <1>4, <2>3, <3>1 DEF GoodBlock, Alone
    <3> QED BY <1>5, <2>0, <3>2, Markers
  <2> QED BY <1>1, <1>6, <2>1, <2>2, <2>3
<1>8. Foreign.kind = "foreign" /\ NEL.kind = "NEL"
  BY DEF Foreign, NEL, Token
<1> QED BY <1>7, <1>8 DEF AsciiIn

\* In a well-formed bundle whose lines end in "\n" no slice has text that is not ASCII.
LEMMA ForeignBlockKeeps ==
  ASSUME PemIInv, ForeignBlock
  PROVE  PemIInv'
<1>1. /\ status = "running" /\ blockEnd = NoBlock /\ Start # 0 /\ EndMark # 0 /\ ~AsciiIn(text, Start, CutAt)
      /\ status' = "raised" /\ UNCHANGED <<text, form, call, searchFrom, result>>
  BY DEF ForeignBlock, Raise
<1>2. Running /\ call = "load_pem_bundle" /\ PemTypeOK
  BY <1>1 DEF PemIInv, Running
<1>3. IsText(text) /\ Len(text) \in Nat /\ searchFrom \in Nat \ {0}
  BY <1>2, TextsAreTexts DEF PemTypeOK
<1>4. PICK end : end = CutAt
  OBVIOUS
<1>5. IsCut(text, searchFrom, Start, EndMark, end)
  BY <1>1, <1>3, <1>4, CutIs DEF CutAt
<1>6. ~(LineFeedsOnly(text) /\ WellFormed(text) /\ Loadable(text))
  BY <1>1, <1>3, <1>4, <1>5, GoodIsAscii, Zenon
<1>7. result' \in Seq(Bodies(text)) /\ (Converts => IsAscii(text))
  BY <1>1, <1>2, Zenon DEF PemTypeOK, Running
<1>8. status' \in {"returned", "raised"} /\ status' # "returned" /\ call # "from_pem" /\ call # "decode_pem"
  BY <1>1, <1>2
<1> QED BY <1>1, <1>2, <1>6, <1>7, <1>8, EndsWell, Zenon

\* Where no BEGIN is left, all certificate blocks have been returned; a BEGIN without END is malformed.
LEMMA EndOfBundleKeeps ==
  ASSUME PemIInv, EndOfBundle
  PROVE  PemIInv'
<1>1. /\ status = "running" /\ blockEnd = NoBlock /\ (Start # 0 => EndMark = 0)
      /\ status' = IF Start # 0 \/ result = <<>> THEN "raised" ELSE "returned"
      /\ UNCHANGED <<text, form, call, searchFrom, blockEnd, cursor, label, body, result>>
  BY DEF EndOfBundle
<1>2. Running /\ call = "load_pem_bundle" /\ PemTypeOK
  BY <1>1 DEF PemIInv, Running
<1>3. IsText(text) /\ Len(text) \in Nat /\ searchFrom \in Nat \ {0}
  BY <1>2, TextsAreTexts DEF PemTypeOK
<1>4. ASSUME Start = 0, LineFeedsOnly(text) PROVE Returned(text, result, CertificateBlocks(text))
  <2>1. \A k \in searchFrom .. Len(text) : text[k].kind # "begin"
    BY <1>3, <1>4, BeginIs DEF Start
  <2>2. ASSUME NEW b \in CertificateBlocks(text) PROVE b[1] < searchFrom
    <3>1. b \in Blocks(text)
      BY DEF CertificateBlocks
    <3>2. PICK i : i = b[1] /\ i \in 1 .. Len(text) /\ text[i].kind = "begin"
      BY <1>3, <3>1, BlockTypes
    <3> QED BY <1>3, <2>1, <3>2
  <2>3. Before(text, searchFrom) = CertificateBlocks(text)
    BY <2>2, Zenon DEF Before
  <2> QED BY <1>2, <1>4, <2>3, Zenon DEF Running
<1>5. ASSUME Start # 0, WellFormed(text) PROVE FALSE
  <2>1. PICK s \in Nat \ {0} : s = Start /\ s \in 1 .. Len(text) /\ text[s].kind = "begin"
    BY <1>3, <1>5, BeginIs DEF Start
  <2>2. s \in Begins(text)
    BY <2>1 DEF Begins
  <2>3. PICK b \in Blocks(text) : b[1] = s
    BY <1>5, <2>2 DEF WellFormed
  <2>4. PICK j : j = b[2] /\ j \in 1 .. Len(text) /\ s < j /\ text[j].kind = "end"
    BY <1>3, <2>3, BlockTypes
  <2>5. \A k \in s .. Len(text) : text[k].kind # "end"
    <3>1. EndFrom(text, s) = 0
      BY <1>1, <1>5, <2>1 DEF EndMark
    <3> QED BY <1>3, <3>1, EndIs
  <2> QED BY <2>1, <2>4, <2>5
<1>6. ASSUME Start = 0, result = <<>>, LineFeedsOnly(text) PROVE ~Loadable(text)
  <2>1. CertificateBlocks(text) = {}
    BY <1>4, <1>6, NothingReturned, Zenon
  <2> QED BY <2>1, Zenon DEF Loadable
<1>7. result' = result /\ result \in Seq(Bodies(text))
  BY <1>1, <1>2 DEF PemTypeOK
<1>8. status' = "returned" => Start = 0 /\ result # <<>>
  BY <1>1
<1>9. status' = "raised" => Start # 0 \/ result = <<>>
  BY <1>1
<1>10. status' \in {"returned", "raised"}
  BY <1>1
<1>11. UNCHANGED <<text, form, call, searchFrom>>
  BY <1>1
<1>12. status' = "raised" => ~(LineFeedsOnly(text) /\ WellFormed(text) /\ Loadable(text))
  BY <1>5, <1>6, <1>9, Zenon
<1>13. status' = "returned" /\ LineFeedsOnly(text) => Returned(text, result', CertificateBlocks(text))
  BY <1>4, <1>7, <1>8, Zenon
<1>14. call # "decode_pem" /\ call # "from_pem"
  BY <1>2
<1>15. Converts => IsAscii(text)
  BY <1>2, Zenon DEF Running
<1> QED BY <1>2, <1>7, <1>10, <1>11, <1>12, <1>13, <1>14, <1>15, EndsWell, Zenon

\* A good block that the slice opens with, and that the caller takes, is no reason to raise.
LEMMA GoodIsTaken ==
  ASSUME PemTypeOK, status = "running", blockEnd # NoBlock, Reading, BadLine \/ EndOfBlock,
         NEW i, NEW j, NEW l, IsBlock(text, i, j, l), Alone(text, i), Alone(text, j),
         BodyDecodes(BodyOf(text, <<i, j>>)), j <= blockEnd, OpensFirst(text, From, blockEnd, i),
         call = "decode_pem" \/ (l = CERTIFICATE => BodyOf(text, <<i, j>>) \in Certificates),
         call = "from_pem" => l = CERTIFICATE
  PROVE  FALSE
<1>1. IsSlice(text, From, blockEnd) /\ Scan(text, From, blockEnd, cursor, label, body)
  BY DEF Reading
<1>2. cursor <= blockEnd /\ cursor \in Nat /\ blockEnd \in Nat
  <2>1. cursor <= blockEnd
    BY <1>1, GoodIsNotMissed
  <2> QED BY <1>1, <2>1 DEF IsSlice, Scan
<1>3. /\ InBlock
      /\ IF label = NoLabel
         THEN IsMarkerLine(Line, "begin") /\ ~HasLabel(Line)
         ELSE Line # <<>> /\ ~IsBase64(Line) /\ ~(EndMatches /\ (Accepted \/ Ignored))
  <2>1. ~EndOfBlock
    BY <1>2 DEF EndOfBlock
  <2> QED BY <2>1 DEF BadLine
<1>4. PICK e \in Nat : LineRead(e)
  BY <1>3, ReadsLine
<1>5. IsLine(text, blockEnd, cursor, e)
  BY <1>4, Zenon DEF LineRead
<1>6. CASE label = NoLabel
  <2>1. BeginsAt(text, cursor, e) /\ ~LabelAt(text, cursor, e)
    BY <1>3, <1>4, <1>6, Zenon DEF LineRead
  <2>2. Scan(text, From, blockEnd, cursor, NoLabel, body)
    BY <1>1, <1>6, Zenon
  <2>3. LabelAt(text, cursor, e)
    BY <1>1, <1>2, <1>5, <2>1, <2>2, GoodBegins, Zenon
  <2> QED BY <2>1, <2>3
<1>7. CASE label # NoLabel
  <2>1. cursor # e /\ ~Base64At(text, cursor, e)
    BY <1>3, <1>4, <1>7, Zenon DEF LineRead
  <2>2. /\ EndsAt(text, cursor, e) /\ LabelAt(text, cursor, e)
        /\ text[cursor].value = label /\ label = l /\ body = BodyOf(text, <<i, j>>)
    <3>1. IsGoodEnd(text, cursor, e, label, body, i, j, l)
      BY <1>1, <1>2, <1>5, <1>7, <2>1, GoodEnds, Zenon
    <3> QED BY <3>1, Zenon DEF IsGoodEnd
  <2>3. IsMarkerLine(Line, "end") /\ HasLabel(Line) /\ Line[1].value = label
    <3>1. e = cursor + 1
      BY <2>2 DEF LabelAt
    <3> QED BY <1>4, <2>2, <3>1, Zenon DEF LineRead
  <2>4. EndMatches
    BY <2>2, <2>3, Zenon DEF EndMatches
  <2>5. Accepted \/ Ignored
    BY <2>2 DEF Accepted, Ignored, PemTypeOK
  <2> QED BY <1>3, <1>7, <2>4, <2>5
<1> QED BY <1>6, <1>7

\* In a whole text, Opens is what the property calls an opening.
LEMMA OpeningsAre ==
  ASSUME NEW t, Len(t) \in Nat, NEW k
  PROVE  k \in Openings(t) <=> Opens(t, 1, Len(t), k)
<1>1. ASSUME k \in 1 .. Len(t), NEW e \in k .. Len(t)
      PROVE  (e = Len(t) \/ IsLineEnd(t[e + 1])) <=> (e < Len(t) => IsLineEnd(t[e + 1]))
  BY <1>1
<1>2. k \in 1 .. Len(t) => ((k = 1 \/ IsLineEnd(t[k - 1])) <=> (k > 1 => IsLineEnd(t[k - 1])))
  OBVIOUS
<1>3. k \in Openings(t) <=>
        /\ k \in 1 .. Len(t) /\ t[k].kind = "begin" /\ (k > 1 => IsLineEnd(t[k - 1]))
        /\ \E e \in k .. Len(t) : /\ IsMarker(t[e]) /\ (e < Len(t) => IsLineEnd(t[e + 1]))
                                  /\ \A i \in k .. e : ~IsLineEnd(t[i])
  BY Zenon DEF Openings, Begins
<1>4. Opens(t, 1, Len(t), k) <=>
        /\ k \in 1 .. Len(t) /\ t[k].kind = "begin" /\ (k = 1 \/ IsLineEnd(t[k - 1]))
        /\ \E e \in k .. Len(t) : /\ IsMarker(t[e]) /\ (e = Len(t) \/ IsLineEnd(t[e + 1]))
                                  /\ \A i \in k .. e : ~IsLineEnd(t[i])
  BY Zenon DEF Opens
<1> QED BY <1>1, <1>2, <1>3, <1>4, Zenon

\* A BEGIN alone on its line opens a slice that starts there, or behind the line before.
LEMMA AloneOpens ==
  ASSUME NEW t, NEW first, NEW end, IsSlice(t, first, end), NEW i, NEW j, NEW l, IsBlock(t, i, j, l),
         first <= i, j <= end, Alone(t, i)
  PROVE  (i = first \/ i > 1) => Opens(t, first, end, i)
<1>0. i \in 1 .. Len(t) /\ j \in 1 .. Len(t) /\ i < j /\ end \in Nat /\ first \in Nat /\ end <= Len(t) /\ Len(t) \in Nat
  BY DEF IsBlock, IsSlice
<1>1. t[i].kind = "begin"
  BY <1>0, BlockEnds
<1>2. IsLineEnd(t[i + 1]) /\ (i > 1 => IsLineEnd(t[i - 1]))
  BY <1>0 DEF Alone
<1>3. i \in i .. end /\ i \in first .. end
  BY <1>0
<1>4. IsMarker(t[i]) /\ ~IsLineEnd(t[i])
  BY <1>1 DEF IsMarker, IsLineEnd
<1>5. \A n \in i .. i : ~IsLineEnd(t[n])
  BY <1>0, <1>4
<1> QED BY <1>1, <1>2, <1>3, <1>4, <1>5, Zenon DEF Opens

\* In a well-formed bundle the slice opens with a good block, so that decode_pem does not raise.
LEMMA BundleRaises ==
  ASSUME PemTypeOK, status = "running", blockEnd # NoBlock, Reading, BadLine \/ EndOfBlock, call = "load_pem_bundle"
  PROVE  ~(LineFeedsOnly(text) /\ WellFormed(text) /\ Loadable(text))
<1> SUFFICES ASSUME WellFormed(text), Loadable(text) PROVE FALSE
  OBVIOUS
<1>0. IsText(text) /\ Len(text) \in Nat
  BY TextsAreTexts DEF PemTypeOK
<1>1. IsSlice(text, From, blockEnd) /\ IsCut(text, searchFrom, Start, EndMark, blockEnd) /\ From = Start
  BY Zenon DEF Reading, From
<1>2. PICK i, last : i = Start /\ last = EndMark
  OBVIOUS
<1>3. /\ i \in 1 .. Len(text) /\ last \in i + 1 .. Len(text) /\ blockEnd \in last .. Len(text)
      /\ text[i].kind = "begin" /\ text[last].kind = "end" /\ \A k \in i .. last - 1 : text[k].kind # "end"
  BY <1>0, <1>1, <1>2 DEF IsCut
<1>4. PICK b \in Blocks(text) : b[1] = i /\ GoodBlock(text, b)
  <2>1. i \in Begins(text)
    BY <1>3 DEF Begins
  <2> QED BY <2>1 DEF WellFormed
<1>5. PICK j, l : j = b[2] /\ b = <<i, j>> /\ l \in Labels /\ IsBlock(text, i, j, l)
  BY <1>4, BlockParts, Zenon
<1>6. Alone(text, i) /\ Alone(text, j) /\ BodyDecodes(BodyOf(text, <<i, j>>))
  BY <1>4, <1>5, Zenon DEF GoodBlock
<1>7. j = last
  <2>1. text[j].kind = "end" /\ \A k \in i + 1 .. j : text[k].kind = "end" => k = j
    BY <1>0, <1>5, BlockEnds
  <2>2. j \in 1 .. Len(text) /\ i < j
    BY <1>5 DEF IsBlock
  <2>3. last <= j
    BY <1>3, <2>1, <2>2
  <2>4. last \in i + 1 .. j
    BY <1>3, <2>2, <2>3
  <2> QED BY <1>3, <2>1, <2>4
<1>8. j <= blockEnd /\ i <= i
  BY <1>3, <1>7
<1>9. Opens(text, i, blockEnd, i)
  BY <1>1, <1>2, <1>5, <1>6, <1>8, AloneOpens
<1>10. OpensFirst(text, i, blockEnd, i)
  <2>1. \A k \in i .. i - 1 : ~Opens(text, i, blockEnd, k)
    BY <1>3
  <2> QED BY <1>9, <2>1, Zenon DEF OpensFirst
<1>11. l = CERTIFICATE => BodyOf(text, <<i, j>>) \in Certificates
  <2> SUFFICES ASSUME l = CERTIFICATE PROVE BodyOf(text, <<i, j>>) \in Certificates
    OBVIOUS
  <2>1. text[i].value = CERTIFICATE
    BY <1>0, <1>5, BlockEnds
  <2>2. b \in CertificateBlocks(text)
    BY <1>4, <2>1, Zenon DEF CertificateBlocks
  <2> QED BY <1>5, <2>2, Zenon DEF Loadable
<1>12. OpensFirst(text, From, blockEnd, i)
  BY <1>1, <1>2, <1>10, Zenon
<1>13. call # "from_pem"
  OBVIOUS
<1> QED BY <1>5, <1>6, <1>8, <1>11, <1>12, <1>13, GoodIsTaken, Zenon

\* In a well-formed text with one BEGIN that block is the first one.
LEMMA FromPemRaises ==
  ASSUME PemTypeOK, status = "running", blockEnd # NoBlock, Reading, BadLine \/ EndOfBlock, call = "from_pem"
  PROVE  ~(WellFormed(text) /\ Loadable(text) /\ Single(text))
<1> SUFFICES ASSUME WellFormed(text), Loadable(text), Single(text) PROVE FALSE
  OBVIOUS
<1>0. IsText(text) /\ Len(text) \in Nat
  BY TextsAreTexts DEF PemTypeOK
<1>1. IsSlice(text, 1, blockEnd) /\ From = 1 /\ blockEnd = Len(text)
  BY DEF Reading, From
<1>2. PICK a \in CertificateBlocks(text) : TRUE
  BY DEF Loadable
<1>3. PICK i : i = a[1] /\ i \in 1 .. Len(text) /\ text[i].kind = "begin" /\ text[i].value = CERTIFICATE
  BY <1>0, BlockTypes DEF CertificateBlocks
<1>4. i \in Begins(text)
  BY <1>3 DEF Begins
<1>5. PICK b \in Blocks(text) : b[1] = i /\ GoodBlock(text, b)
  BY <1>4 DEF WellFormed
<1>6. PICK j, l : j = b[2] /\ b = <<i, j>> /\ l \in Labels /\ IsBlock(text, i, j, l)
  BY <1>5, BlockParts, Zenon
<1>7. Alone(text, i) /\ Alone(text, j) /\ BodyDecodes(BodyOf(text, <<i, j>>))
  BY <1>5, <1>6, Zenon DEF GoodBlock
<1>8. l = CERTIFICATE
  BY <1>0, <1>3, <1>6, BlockEnds
<1>9. BodyOf(text, <<i, j>>) \in Certificates
  <2>1. b \in CertificateBlocks(text)
    BY <1>3, <1>5, Zenon DEF CertificateBlocks
  <2> QED BY <1>6, <2>1, Zenon DEF Loadable
<1>10. j <= blockEnd /\ 1 <= i /\ (i = 1 \/ i > 1)
  BY <1>0, <1>1, <1>3, <1>6 DEF IsBlock
<1>11. Opens(text, 1, blockEnd, i)
  BY <1>1, <1>6, <1>7, <1>10, AloneOpens
<1>12. ASSUME NEW k \in 1 .. i - 1 PROVE ~Opens(text, 1, blockEnd, k)
  <2>1. k # i /\ k \in 1 .. Len(text)
    BY <1>0, <1>3
  <2>2. k \notin Begins(text)
    BY <1>4, <2>1 DEF Single
  <2> QED BY <2>1, <2>2 DEF Opens, Begins
<1>13. OpensFirst(text, From, blockEnd, i)
  BY <1>1, <1>11, <1>12, Zenon DEF OpensFirst
<1> QED BY <1>6, <1>7, <1>8, <1>9, <1>10, <1>13, GoodIsTaken, Zenon

\* If the first opening is that of a good block, decode_pem does not raise.
LEMMA DecodePemRaises ==
  ASSUME PemTypeOK, status = "running", blockEnd # NoBlock, Reading, BadLine \/ EndOfBlock, call = "decode_pem"
  PROVE  FirstBlock(text) = {}
<1> SUFFICES ASSUME NEW b \in FirstBlock(text) PROVE FALSE
  OBVIOUS
<1>0. IsText(text) /\ Len(text) \in Nat
  BY TextsAreTexts DEF PemTypeOK
<1>1. IsSlice(text, 1, blockEnd) /\ From = 1 /\ blockEnd = Len(text)
  BY DEF Reading, From
<1>2. /\ b \in Blocks(text) /\ GoodBlock(text, b) /\ b[1] \in Openings(text)
      /\ \A k \in Openings(text) : b[1] <= k
  BY DEF FirstBlock
<1>3. PICK i, j, l : i = b[1] /\ j = b[2] /\ b = <<i, j>> /\ l \in Labels /\ IsBlock(text, i, j, l)
  BY <1>2, BlockParts, Zenon
<1>4. Alone(text, i) /\ Alone(text, j) /\ BodyDecodes(BodyOf(text, <<i, j>>))
  BY <1>2, <1>3, Zenon DEF GoodBlock
<1>5. Opens(text, 1, blockEnd, i)
  BY <1>0, <1>1, <1>2, <1>3, OpeningsAre
<1>6. ASSUME NEW k \in 1 .. i - 1 PROVE ~Opens(text, 1, blockEnd, k)
  <2>1. ~(i <= k)
    BY <1>3 DEF IsBlock
  <2>2. k \notin Openings(text)
    BY <1>2, <1>3, <2>1, Zenon
  <2> QED BY <1>0, <1>1, <2>2, OpeningsAre
<1>7. OpensFirst(text, From, blockEnd, i)
  BY <1>1, <1>5, <1>6, Zenon DEF OpensFirst
<1>8. j <= blockEnd
  BY <1>0, <1>1, <1>3 DEF IsBlock
<1>9. call # "from_pem"
  OBVIOUS
<1> QED BY <1>3, <1>4, <1>7, <1>8, <1>9, GoodIsTaken, Zenon

\* A call raises only where it should.
LEMMA RaiseKeeps ==
  ASSUME PemIInv, BadLine \/ EndOfBlock
  PROVE  PemIInv'
<1>1. /\ status = "running" /\ blockEnd # NoBlock /\ status' = "raised"
      /\ UNCHANGED <<text, form, call, searchFrom, blockEnd, cursor, label, body, result>>
  BY DEF BadLine, EndOfBlock, InBlock, Raise
<1>2. Reading /\ PemTypeOK
  BY <1>1 DEF PemIInv, Running
<1>3. call = "load_pem_bundle" => ~(LineFeedsOnly(text) /\ WellFormed(text) /\ Loadable(text))
  BY <1>1, <1>2, BundleRaises, Zenon
<1>4. call = "from_pem" => ~(WellFormed(text) /\ Loadable(text) /\ Single(text))
  BY <1>1, <1>2, FromPemRaises, Zenon
<1>5. call = "decode_pem" => FirstBlock(text) = {}
  BY <1>1, <1>2, DecodePemRaises, Zenon
<1>6. result' \in Seq(Bodies(text)) /\ UNCHANGED <<text, form, call, searchFrom>>
  BY <1>1, <1>2, Zenon DEF PemTypeOK
<1>7. status' \in {"returned", "raised"} /\ status' # "returned"
  BY <1>1
<1>8. Converts => IsAscii(text)
  BY <1>1, Zenon DEF PemIInv, Running
<1> QED BY <1>2, <1>3, <1>4, <1>5, <1>6, <1>7, <1>8, EndsWell, Zenon

\* The block that an END line has ended.
EndsBlock(k) ==
  /\ OpensFirst(text, From, blockEnd, k) /\ IsRead(text, k, cursor, label, body)
  /\ (cursor < blockEnd => IsLineEnd(text[cursor + 1])) /\ cursor <= blockEnd
  /\ BodyDecodes(body)

\* An END line that the code accepts ends a block that began in the slice.
LEMMA EndLineEnds ==
  ASSUME Reading, InBlock, label # NoLabel, EndMatches
  PROVE  \E k \in From .. blockEnd : EndsBlock(k)
<1>1. PICK e \in Nat : LineRead(e)
  BY ReadsLine
<1>2. EndsAt(text, cursor, e) /\ LabelAt(text, cursor, e) /\ IsLine(text, blockEnd, cursor, e)
  BY <1>1, Zenon DEF LineRead, EndMatches
<1>3. e = cursor + 1 /\ text[cursor].kind = "end"
  BY <1>2 DEF EndsAt, LabelAt
<1>4. text[cursor].value = label
  BY <1>1, <1>3, Zenon DEF LineRead, EndMatches
<1>5. IsSlice(text, From, blockEnd) /\ Scan(text, From, blockEnd, cursor, label, body) /\ cursor <= blockEnd
  BY DEF Reading, InBlock
<1>6. PICK k \in From .. blockEnd : OpensFirst(text, From, blockEnd, k) /\ IsRead(text, k, cursor, label, body)
  BY <1>3, <1>4, <1>5, ScanEnds
<1>7. cursor < blockEnd => IsLineEnd(text[cursor + 1])
  <2>1. cursor \in Nat /\ blockEnd \in Nat
    BY <1>5 DEF IsSlice, Scan
  <2> QED BY <1>2, <1>3, <2>1 DEF IsLine
<1>8. BodyDecodes(body)
  BY DEF EndMatches
<1> QED BY <1>5, <1>6, <1>7, <1>8 DEF EndsBlock

\* One block returned.
LEMMA ReturnedOne ==
  ASSUME NEW t, NEW b, b[1] \in Int, NEW V, BodyOf(t, b) \in V,
         NEW new, new = Append(<<>>, BodyOf(t, b))
  PROVE  Returned(t, new, {b})
<1>1. <<>> \in Seq(V)
  OBVIOUS
<1>2. Returned(t, <<>>, {})
  BY ReturnedNothing
<1>3. {b} = {} \cup {b}
  OBVIOUS
<1>4. \A a \in {} : a[1] \in Int /\ a[1] < b[1]
  OBVIOUS
<1> QED BY <1>1, <1>2, <1>3, <1>4, ReturnedMore, Zenon

\* The end of a block: the bundle has one certificate more, or the call returns the block.
LEMMA EndLineKeeps ==
  ASSUME PemIInv, EndLine
  PROVE  PemIInv'
<1>1. /\ InBlock /\ label # NoLabel /\ EndMatches /\ (Accepted \/ Ignored)
      /\ result' = IF Ignored THEN result ELSE Append(result, body)
      /\ IF call = "load_pem_bundle"
         THEN searchFrom' = blockEnd + 1 /\ blockEnd' = NoBlock /\ UNCHANGED status
         ELSE status' = "returned" /\ UNCHANGED <<searchFrom, blockEnd>>
      /\ UNCHANGED <<text, form, call, cursor, label, body>>
  BY DEF EndLine
<1>2. Running /\ Reading /\ status = "running" /\ PemTypeOK
  BY <1>1 DEF PemIInv, Running, InBlock
<1>3. IsText(text) /\ Len(text) \in Nat /\ result \in Seq(Bodies(text))
  BY <1>2, TextsAreTexts DEF PemTypeOK
<1>4. PICK k \in From .. blockEnd : EndsBlock(k)
  BY <1>1, <1>2, EndLineEnds
<1>5. PICK b : b = <<k, cursor>>
  OBVIOUS
<1>6. /\ b \in Blocks(text) /\ BodyOf(text, b) = body /\ b[1] = k /\ b[2] = cursor
      /\ IsBlock(text, k, cursor, label) /\ text[k].value = label
  <2>1. IsBlock(text, k, cursor, label) /\ BodyOf(text, <<k, cursor>>) = body
    BY <1>4, Zenon DEF EndsBlock, IsRead
  <2>2. <<k, cursor>> \in Blocks(text) /\ text[k].value = label
    BY <1>3, <2>1, BlockMade, BlockEnds
  <2>3. <<k, cursor>>[1] = k /\ <<k, cursor>>[2] = cursor
    OBVIOUS
  <2> QED BY <1>5, <2>1, <2>2, <2>3, Zenon
<1>7. body \in Bodies(text)
  BY <1>6, Zenon DEF Bodies
<1>8. k \in 1 .. Len(text) /\ cursor \in 1 .. Len(text) /\ k < cursor
  BY <1>6 DEF IsBlock
<1>9. b \in CertificateBlocks(text) <=> label = CERTIFICATE
  BY <1>6, Zenon DEF CertificateBlocks
<1>10. result' \in Seq(Bodies(text))
  BY <1>1, <1>3, <1>7
<1>11. CASE call = "load_pem_bundle"
  <2>1. searchFrom' = blockEnd + 1 /\ blockEnd' = NoBlock /\ status' = "running"
        /\ call' = call /\ text' = text /\ form' = form
    BY <1>1, <1>2, <1>11
  <2>2. IsSlice(text, Start, blockEnd) /\ IsCut(text, searchFrom, Start, EndMark, blockEnd) /\ From = Start
    BY <1>2, <1>11, Zenon DEF Reading, From
  <2>3. PemTypeOK'
    <3>1. blockEnd + 1 \in Nat \ {0}
      BY <2>2 DEF IsSlice
    <3> QED BY <1>2, <1>10, <2>1, <3>1, Zenon DEF PemTypeOK
  <2>4. ASSUME LineFeedsOnly(text) PROVE Returned(text, result', Before(text, blockEnd + 1))
    <3>1. k \in Start .. blockEnd
      BY <1>4, <2>2
    <3>2. IsRead(text, k, cursor, label, body) /\ cursor <= blockEnd /\ (cursor < blockEnd => IsLineEnd(text[cursor + 1]))
      BY <1>4, Zenon DEF EndsBlock
    <3>3. PICK s, last, end : s = Start /\ last = EndMark /\ end = blockEnd
      OBVIOUS
    <3>4. /\ Before(text, blockEnd + 1)
               = Before(text, searchFrom) \cup (IF label = CERTIFICATE THEN {<<k, cursor>>} ELSE {})
          /\ \A a \in Before(text, searchFrom) : a[1] \in Int /\ a[1] < k
      BY <1>3, <2>2, <2>4, <3>1, <3>2, BeforeNext
    <3>5. Returned(text, result, Before(text, searchFrom))
      BY <1>2, <1>11, <2>4 DEF Running
    <3>6. CASE label = CERTIFICATE
      <4>1. ~Ignored
        BY <3>6 DEF Ignored
      <4>2. result' = Append(result, BodyOf(text, b))
        BY <1>1, <1>6, <4>1
      <4>3. b[1] \in Int /\ \A a \in Before(text, searchFrom) : a[1] \in Int /\ a[1] < b[1]
        BY <1>6, <1>8, <3>4
      <4>4. Before(text, blockEnd + 1) = Before(text, searchFrom) \cup {b}
        BY <1>5, <3>4, <3>6
      <4>5. BodyOf(text, b) \in Bodies(text)
        BY <1>6, <1>7
      <4> QED BY <1>3, <3>5, <4>2, <4>3, <4>4, <4>5, ReturnedMore, Zenon
    <3>7. CASE label # CERTIFICATE
      <4>1. Ignored
        BY <1>11, <3>7 DEF Ignored
      <4>2. result' = result
        BY <1>1, <4>1
      <4>3. Before(text, blockEnd + 1) = Before(text, searchFrom)
        BY <3>4, <3>7
      <4> QED BY <3>5, <4>2, <4>3, Zenon
    <3> QED BY <3>6, <3>7
  <2>5. Running'
    <3>1. call' = "load_pem_bundle" /\ call' # "from_pem"
      BY <1>11, <2>1
    <3>2. LineFeedsOnly(text') => Returned(text', result', Before(text', searchFrom'))
      BY <2>1, <2>4, Zenon
    <3>3. Converts' => IsAscii(text')
      BY <1>1, <1>2, Zenon DEF Running, Converts
    <3> QED BY <2>1, <3>1, <3>2, <3>3, Zenon DEF Running
  <2>6. LoadsEveryBlock' /\ RejectsOnlyMalformed' /\ DecodesFirstBlock'
    BY <2>1 DEF LoadsEveryBlock, RejectsOnlyMalformed, DecodesFirstBlock
  <2> QED BY <2>3, <2>5, <2>6, Zenon DEF PemIInv
<1>12. CASE call # "load_pem_bundle"
  <2>1. status' = "returned" /\ UNCHANGED <<text, form, call, searchFrom>> /\ label' = label
    BY <1>1, <1>12
  <2>2. result' = Append(<<>>, BodyOf(text, b))
    <3>1. ~Ignored
      BY <1>12 DEF Ignored
    <3>2. result = <<>>
      BY <1>2, <1>12, Zenon DEF Reading
    <3> QED BY <1>1, <1>6, <3>1, <3>2, Zenon
  <2>3. Returned(text, result', {b})
    <3>1. b[1] \in Int /\ BodyOf(text, b) \in Bodies(text)
      BY <1>6, <1>7, <1>8
    <3> QED BY <2>2, <3>1, ReturnedOne, Zenon
  <2>4. From = 1 /\ blockEnd = Len(text)
    BY <1>2, <1>12, Zenon DEF Reading, From
  <2>5. ASSUME NEW a \in Blocks(text), a[1] = k PROVE a = b
    <3>1. PICK j, l : a = <<k, j>> /\ l \in Labels /\ IsBlock(text, k, j, l)
      BY <2>5, BlockParts, Zenon
    <3>2. j = cursor
      BY <1>3, <1>6, <3>1, SameBegin
    <3> QED BY <1>5, <3>1, <3>2
  <2>6. ASSUME call = "from_pem" PROVE {b} = CertificateBlocks(text)
    <3>1. label = CERTIFICATE
      BY <1>1, <2>6 DEF Accepted, Ignored
    <3>2. ASSUME NEW a \in CertificateBlocks(text) PROVE a = b
      <4>1. a \in Blocks(text)
        BY DEF CertificateBlocks
      <4>2. PICK i : i = a[1] /\ i \in 1 .. Len(text) /\ text[i].kind = "begin"
        BY <1>3, <4>1, BlockTypes
      <4>3. i \in Begins(text) /\ k \in Begins(text)
        BY <1>3, <1>6, <1>8, <4>2, BlockEnds DEF Begins
      <4>4. i = k
        BY <1>2, <2>6, <4>3, Zenon DEF Running
      <4> QED BY <2>5, <4>1, <4>2, <4>4, Zenon
    <3> QED BY <1>9, <3>1, <3>2
  <2>7. ASSUME call = "decode_pem" PROVE {b} = FirstBlock(text)
    <3>1. OpensFirst(text, 1, Len(text), k)
      BY <1>4, <2>4, Zenon DEF EndsBlock
    <3>2. k \in Openings(text)
      BY <1>3, <3>1, OpeningsAre DEF OpensFirst
    <3>3. ASSUME NEW n \in Openings(text) PROVE k <= n
      <4>1. Opens(text, 1, Len(text), n) /\ n \in 1 .. Len(text)
        BY <1>3, OpeningsAre DEF Opens
      <4>2. ~(n \in 1 .. k - 1)
        BY <3>1, <4>1 DEF OpensFirst
      <4> QED BY <1>3, <1>8, <4>1, <4>2
    <3>4. GoodBlock(text, b)
      <4>1. IsLineEnd(text[k + 1]) /\ IsLineEnd(text[cursor - 1]) /\ BodyDecodes(BodyOf(text, b))
        BY <1>4, <1>6, Zenon DEF EndsBlock, IsRead
      <4>2. k > 1 => IsLineEnd(text[k - 1])
        BY <1>8, <3>1 DEF OpensFirst, Opens
      <4>3. cursor < Len(text) => IsLineEnd(text[cursor + 1])
        BY <1>4, <2>4, Zenon DEF EndsBlock
      <4>4. Alone(text, k) /\ Alone(text, cursor)
        BY <4>1, <4>2, <4>3, Zenon DEF Alone
      <4> QED BY <1>6, <4>1, <4>4, Zenon DEF GoodBlock
    <3>5. b \in FirstBlock(text)
      BY <1>6, <3>2, <3>3, <3>4, Zenon DEF FirstBlock
    <3>6. ASSUME NEW a \in FirstBlock(text) PROVE a = b
      <4>1. a \in Blocks(text) /\ a[1] \in Openings(text) /\ a[1] <= k
        BY <3>2 DEF FirstBlock
      <4>2. a[1] \in 1 .. Len(text)
        BY <1>3, <4>1, BlockTypes
      <4>3. k <= a[1]
        BY <3>3, <4>1
      <4>4. a[1] = k
        BY <1>8, <4>1, <4>2, <4>3
      <4> QED BY <2>5, <4>1, <4>4
    <3> QED BY <3>5, <3>6
  <2>8. call \in {"decode_pem", "from_pem"} /\ status' # "raised"
    BY <1>2, <1>12, <2>1 DEF PemTypeOK
  <2>9. call = "decode_pem" => /\ FirstBlock(text) # {} /\ Returned(text, result', FirstBlock(text))
                               /\ \A a \in FirstBlock(text) : label' = text[a[1]].value
    <3> SUFFICES ASSUME call = "decode_pem"
                 PROVE  /\ FirstBlock(text) # {} /\ Returned(text, result', FirstBlock(text))
                        /\ \A a \in FirstBlock(text) : label' = text[a[1]].value
      OBVIOUS
    <3>1. {b} = FirstBlock(text)
      BY <2>7
    <3>2. Returned(text, result', FirstBlock(text))
      BY <2>3, <3>1, Zenon
    <3>3. \A a \in FirstBlock(text) : a = b
      BY <3>1
    <3>4. label' = text[b[1]].value
      BY <1>6, <2>1, Zenon
    <3> QED BY <3>1, <3>2, <3>3, <3>4, Zenon
  <2>10. call # "decode_pem" => Returned(text, result', CertificateBlocks(text))
    BY <2>3, <2>6, <2>8, Zenon
  <2>11. status' \in {"returned", "raised"}
    BY <2>1
  <2>12. Converts => IsAscii(text)
    BY <1>2, Zenon DEF Running
  <2> QED BY <1>2, <1>10, <2>1, <2>8, <2>9, <2>10, <2>11, <2>12, EndsWell, Zenon
<1> QED BY <1>11, <1>12

\* The invariant holds at the start, also of a call that raises at once,
LEMMA InitReads ==
  ASSUME PemInit
  PROVE  PemIInv
<1>1. /\ text \in Texts /\ form \in {"str", "bytes"}
      /\ call \in {"decode_pem", "from_pem", "load_pem_bundle"}
      /\ searchFrom = 1 /\ cursor = 1
      /\ blockEnd = IF call = "load_pem_bundle" THEN NoBlock ELSE Len(text)
      /\ label = NoLabel /\ body = <<>> /\ result = <<>>
      /\ status = IF \/ call = "from_pem" /\ (\E j, k \in Begins(text) : j # k)
                     \/ Converts /\ ~IsAscii(text)
                  THEN "raised" ELSE "running"
  BY DEF PemInit
<1>2. IsText(text) /\ Len(text) \in Nat
  BY <1>1, TextsAreTexts
<1>3. PemTypeOK
  <2>1. status \in {"running", "returned", "raised"} /\ 1 \in Nat \ {0}
    BY <1>1
  <2>2. <<>> \in Seq(Bodies(text))
    OBVIOUS
  <2> QED BY <1>1, <2>1, <2>2, Zenon DEF PemTypeOK
<1>4. /\ call = "from_pem" /\ status = "running" => \A j, k \in Begins(text) : j = k
      /\ status = "running" => (Converts => IsAscii(text))
      /\ status \in {"running", "raised"}
  BY <1>1
<1>5. CASE call = "load_pem_bundle"
  <2>1. Before(text, 1) = {}
    <3> SUFFICES ASSUME NEW b \in Before(text, 1) PROVE FALSE
      OBVIOUS
    <3>1. b \in Blocks(text) /\ b[1] < 1
      BY DEF Before, CertificateBlocks
    <3>2. b[1] \in 1 .. Len(text)
      BY <1>2, <3>1, BlockTypes
    <3> QED BY <1>2, <3>1, <3>2
  <2>2. Returned(text, result, Before(text, searchFrom))
    BY <1>1, <2>1, ReturnedNothing, Zenon
  <2>3. blockEnd = NoBlock /\ call # "from_pem" /\ call # "decode_pem"
    BY <1>1, <1>5
  <2>4. status = "running" => Running
    BY <1>4, <1>5, <2>2, <2>3, Zenon DEF Running
  <2>5. status = "raised" => ~(Converts => IsAscii(text))
    BY <1>1, <2>3
  <2>6. LoadsEveryBlock /\ DecodesFirstBlock
    BY <1>4, <2>3 DEF LoadsEveryBlock, DecodesFirstBlock
  <2>7. RejectsOnlyMalformed
    BY <2>5 DEF RejectsOnlyMalformed
  <2> QED BY <1>3, <2>4, <2>6, <2>7, Zenon DEF PemIInv
<1>6. CASE call # "load_pem_bundle"
  <2>1. blockEnd = Len(text) /\ blockEnd # NoBlock /\ From = 1
    BY <1>1, <1>2, <1>6 DEF NoBlock, From
  <2>2. Reading
    <3>1. IsSlice(text, 1, Len(text))
      BY <1>2 DEF IsSlice
    <3>2. Scan(text, 1, Len(text), 1, NoLabel, <<>>)
      BY <3>1, ScanBegins
    <3> QED BY <1>1, <1>6, <2>1, <3>1, <3>2, Zenon DEF Reading
  <2>3. status = "running" => Running
    BY <1>4, <1>6, <2>1, <2>2, Zenon DEF Running
  <2>4. /\ status # "returned"
        /\ status = "raised" => \/ call = "from_pem" /\ (\E j, k \in Begins(text) : j # k)
                                \/ Converts /\ ~IsAscii(text)
    BY <1>1
  <2>5. LoadsEveryBlock
    BY <2>4 DEF LoadsEveryBlock
  <2>6. DecodesFirstBlock
    <3>1. status = "raised" /\ call = "decode_pem" => form = "bytes" /\ ~IsAscii(text)
      BY <1>3, <2>4 DEF Converts, PemTypeOK
    <3> QED BY <2>4, <3>1, <1>4 DEF DecodesFirstBlock
  <2>7. RejectsOnlyMalformed
    <3>1. status = "raised" /\ (Converts => IsAscii(text)) => call = "from_pem" /\ ~Single(text)
      BY <2>4, Zenon DEF Single
    <3> QED BY <2>4, <3>1 DEF RejectsOnlyMalformed
  <2> QED BY <1>3, <2>3, <2>5, <2>6, <2>7, Zenon DEF PemIInv
<1> QED BY <1>5, <1>6

\* and when nothing happens.
LEMMA PemStutters ==
  ASSUME PemIInv, UNCHANGED pemVars
  PROVE  PemIInv'
<1>1. UNCHANGED <<text, form, call, searchFrom, blockEnd, cursor, label, body, result, status>>
  BY Zenon DEF pemVars
<1>2. From' = From /\ Start' = Start
  BY <1>1 DEF From, Start
<1>3. EndMark' = EndMark
  BY <1>1, <1>2, Zenon DEF EndMark
<1>4. PemTypeOK'
  BY <1>1, Zenon DEF PemIInv, PemTypeOK
<1>5. Reading => Reading'
  BY <1>1, <1>2, <1>3, Zenon DEF Reading
<1>8. Converts' = Converts
  BY <1>1, Zenon DEF Converts
<1>6. Running => Running'
  BY <1>1, <1>5, <1>8, Zenon DEF Running
<1>7. LoadsEveryBlock' /\ DecodesFirstBlock' /\ RejectsOnlyMalformed'
  BY <1>1, <1>8 DEF PemIInv, LoadsEveryBlock, DecodesFirstBlock, RejectsOnlyMalformed
<1> QED BY <1>1, <1>4, <1>6, <1>7, Zenon DEF PemIInv

\* The invariant is one: at every line the reader knows exactly the block that is open, and the
\* bundle has the certificates of all blocks before the position of the next search.
THEOREM PemReads == PemSpec => []PemIInv
<1>1. PemInit => PemIInv
  BY InitReads
<1>2. PemIInv /\ [PemNext]_pemVars => PemIInv'
  BY FindBlockKeeps, ForeignBlockKeeps, EndOfBundleKeeps, BeginLineKeeps, SkipLineKeeps, BodyLineKeeps, EndLineKeeps,
     RaiseKeeps, PemStutters, Zenon DEF PemNext
<1> QED BY <1>1, <1>2, PTL DEF PemSpec

\* load_pem_bundle and from_pem return the certificate blocks of the text, each once and in order
\* (x509.py:1126, 644-647), for every text.
THEOREM BlocksLoaded == PemSpec => []LoadsEveryBlock
<1>1. PemIInv => LoadsEveryBlock
  BY DEF PemIInv
<1> QED BY <1>1, PemReads, PTL

\* No call raises because of text outside the blocks, blank lines or blocks of other labels
\* (pem.py:17-18, x509.py:1128), for every text that is ASCII or that the call reads as it
\* is given (pem.py:61-67, x509.py:1131-1135).
THEOREM RejectionsAreDue == PemSpec => []RejectsOnlyMalformed
<1>1. PemIInv => RejectsOnlyMalformed
  BY DEF PemIInv
<1> QED BY <1>1, PemReads, PTL

\* decode_pem returns the first block of the text, and raises exactly if that is not good
\* (pem.py:16-19) or the text is bytes that are not all ASCII (pem.py:61-67), for every text.
THEOREM FirstBlockDecoded == PemSpec => []DecodesFirstBlock
<1>1. PemIInv => DecodesFirstBlock
  BY DEF PemIInv
<1> QED BY <1>1, PemReads, PTL
=============================================================================
