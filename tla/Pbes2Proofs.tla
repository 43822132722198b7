----------------------------- MODULE Pbes2Proofs ------------------------------
(***************************************************************************)
(* Proofs about password-encrypted private keys, for every cipher that is  *)
(* a permutation of the blocks under each key, every key derivation, all   *)
(* block sizes, messages and envelopes.                                    *)
(***************************************************************************)
EXTENDS Pbes2, SequenceTheorems, TLAPS

-----------------------------------------------------------------------------
(* Places in blocks of l octets.                                             *)

\* Octet j of block i lies within the first n blocks.
LEMMA InBlocks ==
  ASSUME NEW l \in Nat \ {0}, NEW n \in Nat, NEW i \in 1 .. n, NEW j \in 1 .. l
  PROVE  /\ l * (i - 1) \in Nat /\ l * n \in Nat
         /\ l * (i - 1) + l = l * i /\ l * i <= l * n
         /\ l * (i - 1) + j \in 1 .. l * n
<1>1. l * (i - 1) \in Nat /\ l * n \in Nat /\ l * (i - 1) + l = l * i
  OBVIOUS
<1>2. l * i <= l * n
  <2>1. l * n = l * i + l * (n - i) /\ l * (n - i) \in Nat /\ l * i \in Nat
    OBVIOUS
  <2> QED BY <2>1
<1>3. l * (i - 1) + j \in 1 .. l * n
  <2> DEFINE x == l * (i - 1)
             y == l * n
  <2>1. x \in Nat /\ y \in Nat /\ x + l <= y
    BY <1>1, <1>2
  <2>. HIDE DEF x, y
  <2>2. x + j \in 1 .. y
    BY <2>1
  <2> QED BY <2>2 DEF x, y
<1> QED BY <1>1, <1>2, <1>3

\* Among n blocks, those after q begin with block q + 1.
LEMMA NextInBlocks ==
  ASSUME NEW l \in Nat \ {0}, NEW n \in Nat, NEW q \in Nat, l * q < l * n
  PROVE  q + 1 \in 1 .. n
<1> SUFFICES ASSUME q >= n PROVE FALSE
  OBVIOUS
<1>1. l * q = l * n + l * (q - n) /\ l * (q - n) \in Nat /\ l * n \in Nat
  OBVIOUS
<1> QED BY <1>1

\* The numbers of blocks differ when the numbers of octets do.
LEMMA SameBlocks ==
  ASSUME NEW l \in Nat \ {0}, NEW n \in Nat, NEW q \in Nat, l * q = l * n
  PROVE  q = n
<1>1. CASE q < n
  <2>1. l * n = l * q + l * (n - q) /\ n - q \in Nat \ {0}
    BY <1>1
  <2>2. l * (n - q) > 0
    BY <2>1
  <2> QED BY <2>1, <2>2
<1>2. CASE q > n
  <2>1. l * q = l * n + l * (q - n) /\ q - n \in Nat \ {0}
    BY <1>2
  <2>2. l * (q - n) > 0
    BY <2>1
  <2> QED BY <2>1, <2>2
<1> QED BY <1>1, <1>2

\* Quotient and remainder are the only ones.
LEMMA DivisionUnique ==
  ASSUME NEW l \in Nat \ {0}, NEW n \in Nat, NEW r \in 0 .. l - 1
  PROVE  (l * n + r) % l = r /\ (l * n + r) \div l = n
<1> DEFINE y == l * n + r
           e == y \div l
           t == y % l
<1>1. y \in Nat /\ e \in Nat /\ t \in 0 .. l - 1 /\ y = l * e + t /\ y = l * n + r
  OBVIOUS
<1>. HIDE DEF y, e, t
<1> DEFINE z == e - n
<1>2. z \in Int /\ l * z = r - t
  BY <1>1
<1>3. l * z < l /\ l * z > - l
  BY <1>1, <1>2
<1>. HIDE DEF z
<1>4. z < 1 /\ z > -1
  BY <1>2, <1>3
<1>5. z = 0
  BY <1>2, <1>4
<1>6. e = n /\ t = r
  BY <1>1, <1>2, <1>5 DEF z
<1> QED BY <1>6 DEF y, e, t

\* Every place is in a block.
LEMMA PlaceInBlock ==
  ASSUME NEW l \in Nat \ {0}, NEW n \in Nat, NEW x \in 1 .. l * n
  PROVE  \E i \in 1 .. n, j \in 1 .. l : x = l * (i - 1) + j
<1> DEFINE q == (x - 1) \div l
           t == (x - 1) % l
<1>1. q \in Nat /\ t \in 0 .. l - 1 /\ x - 1 = l * q + t /\ l * q \in Nat /\ l * n \in Nat
  OBVIOUS
<1>. HIDE DEF q, t
<1>2. l * q < l * n
  <2> DEFINE u == l * q
             v == l * n
  <2>1. u \in Nat /\ v \in Nat /\ x - 1 = u + t /\ x \in 1 .. v
    BY <1>1
  <2>. HIDE DEF u, v
  <2>2. u < v
    BY <1>1, <2>1
  <2> QED BY <2>2 DEF u, v
<1>3. q + 1 \in 1 .. n
  BY <1>1, <1>2, NextInBlocks
<1>4. (q + 1) - 1 = q /\ t + 1 \in 1 .. l /\ x = l * q + (t + 1)
  BY <1>1
<1> QED BY <1>3, <1>4

-----------------------------------------------------------------------------
(* Blocks of a sequence.                                                     *)

Blk(s, i) == [j \in 1 .. BlockSize |-> s[BlockSize * (i - 1) + j]]

\* The sequence s has n blocks.
InBlks(s, n) == s \in Seq(Octet) /\ n \in Nat /\ Len(s) = BlockSize * n

LEMMA BlockSizeType == BlockSize \in Nat \ {0}
BY BlockSizeAssumption

LEMMA BlkType ==
  ASSUME NEW s, NEW n, InBlks(s, n), NEW i \in 1 .. n
  PROVE  /\ Blk(s, i) \in Blocks
         /\ SubSeq(s, (i - 1) * BlockSize + 1, i * BlockSize) = Blk(s, i)
<1>1. PICK l \in Nat \ {0} : l = BlockSize
  BY BlockSizeType
<1>2. s \in Seq(Octet) /\ n \in Nat /\ Len(s) = l * n
  BY <1>1 DEF InBlks
<1>3. \A j \in 1 .. l : l * (i - 1) + j \in 1 .. Len(s)
  BY <1>2, InBlocks
<1>4. \A j \in 1 .. l : s[l * (i - 1) + j] \in Octet
  BY <1>2, <1>3, ElementOfSeq
<1>5. Blk(s, i) \in Blocks
  BY <1>1, <1>4 DEF Blk, Blocks
<1> DEFINE x == l * (i - 1)
           b == SubSeq(s, x + 1, x + l)
<1>6. x \in Nat /\ (i - 1) * l = x /\ i * l = x + l
  BY <1>2
<1>7. \A k \in x + 1 .. x + l : s[k] \in Octet
  <2>1. \A j \in 1 .. l : s[x + j] \in Octet
    BY <1>4
  <2>. HIDE DEF x
  <2> TAKE k \in x + 1 .. x + l
  <2>2. k - x \in 1 .. l /\ x + (k - x) = k
    BY <1>6
  <2> QED BY <2>1, <2>2
<1>8. /\ b \in Seq(Octet)
      /\ Len(b) = IF x + 1 <= x + l THEN (x + l) - (x + 1) + 1 ELSE 0
      /\ \A j \in 1 .. (x + l) - (x + 1) + 1 : b[j] = s[x + 1 + j - 1]
  <2>1. x + 1 \in Int /\ x + l \in Int
    BY <1>6
  <2>. HIDE DEF x
  <2> QED BY <1>7, <2>1, SubSeqProperties
<1>9. Len(b) = l /\ \A j \in 1 .. l : b[j] = s[x + j]
  <2>. HIDE DEF x, b
  <2>1. (x + l) - (x + 1) + 1 = l /\ x + 1 <= x + l
    BY <1>6
  <2>2. \A j \in 1 .. l : x + 1 + j - 1 = x + j
    BY <1>6
  <2> QED BY <1>8, <2>1, <2>2
<1>10. b \in [1 .. l -> Octet]
  BY <1>8, <1>9, LenProperties
<1>11. b = [j \in 1 .. l |-> s[x + j]]
  <2>. HIDE DEF b, x
  <2> QED BY <1>9, <1>10
<1>12. b = Blk(s, i)
  BY <1>1, <1>11 DEF Blk
<1> QED BY <1>1, <1>5, <1>6, <1>12

\* A block more.
LEMMA BlkAppended ==
  ASSUME NEW s, NEW n, InBlks(s, n), NEW b \in Blocks
  PROVE  /\ InBlks(s \o b, n + 1)
         /\ Blk(s \o b, n + 1) = b
         /\ \A i \in 1 .. n : Blk(s \o b, i) = Blk(s, i)
<1>1. PICK l \in Nat \ {0} : l = BlockSize
  BY BlockSizeType
<1>2. s \in Seq(Octet) /\ n \in Nat /\ Len(s) = l * n
  BY <1>1 DEF InBlks
<1>3. b \in [1 .. l -> Octet] /\ b \in Seq(Octet) /\ Len(b) = l
  <2>1. b \in [1 .. l -> Octet]
    BY <1>1 DEF Blocks
  <2>2. b \in Seq(Octet)
    BY <2>1, SeqDef
  <2> QED BY <2>1, <2>2, LenProperties
<1> DEFINE c == s \o b
           x == l * n
<1>4. c \in Seq(Octet) /\ Len(c) = x + l
      /\ \A k \in 1 .. x + l : c[k] = IF k <= x THEN s[k] ELSE b[k - x]
  <2>1. /\ s \o b \in Seq(Octet) /\ Len(s \o b) = Len(s) + Len(b)
        /\ \A k \in 1 .. Len(s) + Len(b) :
             (s \o b)[k] = IF k <= Len(s) THEN s[k] ELSE b[k - Len(s)]
    BY <1>2, <1>3, ConcatProperties
  <2>2. Len(s) = x /\ Len(b) = l
    BY <1>2, <1>3
  <2>. HIDE DEF x
  <2> QED BY <2>1, <2>2
<1>5. x \in Nat /\ l * (n + 1) = x + l /\ l * ((n + 1) - 1) = x
  BY <1>2
<1>6. InBlks(c, n + 1)
  BY <1>1, <1>2, <1>4, <1>5 DEF InBlks
<1>7. \A j \in 1 .. l : c[x + j] = b[j]
  <2>. HIDE DEF c, x
  <2> TAKE j \in 1 .. l
  <2>1. x + j \in 1 .. x + l /\ ~(x + j <= x) /\ (x + j) - x = j
    BY <1>5
  <2> QED BY <1>4, <2>1
<1>8. Blk(c, n + 1) = b
  <2>1. [j \in 1 .. l |-> c[x + j]] = [j \in 1 .. l |-> b[j]]
    BY <1>7
  <2>2. b = [j \in 1 .. l |-> b[j]]
    BY <1>3
  <2>3. Blk(c, n + 1) = [j \in 1 .. l |-> c[x + j]]
    BY <1>1, <1>5 DEF Blk
  <2>. HIDE DEF c, x
  <2> QED BY <2>1, <2>2, <2>3
<1>9. ASSUME NEW i \in 1 .. n PROVE Blk(c, i) = Blk(s, i)
  <2>1. \A j \in 1 .. l : l * (i - 1) + j \in 1 .. x
    BY <1>2, InBlocks
  <2>2. \A k \in 1 .. x : c[k] = s[k]
    <3>. HIDE DEF c, x
    <3> TAKE k \in 1 .. x
    <3>1. k \in 1 .. x + l /\ k <= x
      BY <1>5
    <3> QED BY <1>4, <3>1
  <2>3. \A j \in 1 .. l : c[l * (i - 1) + j] = s[l * (i - 1) + j]
    BY <2>1, <2>2
  <2>. HIDE DEF c
  <2> QED BY <1>1, <2>3 DEF Blk
<1> QED BY <1>6, <1>8, <1>9

\* Sequences of equal blocks are equal.
LEMMA EqualBlocks ==
  ASSUME NEW s, NEW t, NEW n, InBlks(s, n), InBlks(t, n),
         \A i \in 1 .. n : Blk(s, i) = Blk(t, i)
  PROVE  s = t
<1>1. PICK l \in Nat \ {0} : l = BlockSize
  BY BlockSizeType
<1>2. s \in Seq(Octet) /\ t \in Seq(Octet) /\ n \in Nat /\ Len(s) = l * n /\ Len(t) = l * n
  BY <1>1 DEF InBlks
<1>3. ASSUME NEW x \in 1 .. Len(s) PROVE s[x] = t[x]
  <2>1. PICK i \in 1 .. n, j \in 1 .. l : x = l * (i - 1) + j
    <3>1. n \in Nat /\ x \in 1 .. l * n
      BY <1>2
    <3> QED BY <3>1, PlaceInBlock
  <2>2. Blk(s, i)[j] = s[x] /\ Blk(t, i)[j] = t[x]
    BY <1>1, <2>1 DEF Blk
  <2> QED BY <2>2
<1> QED BY <1>2, <1>3, SeqEqual

\* The octets d are those of s that come after q blocks.
After(s, q, d) ==
  /\ d \in Seq(Octet) /\ Len(s) = BlockSize * q + Len(d)
  /\ \A x \in 1 .. Len(d) : d[x] = s[BlockSize * q + x]

LEMMA AfterNone ==
  ASSUME NEW s \in Seq(Octet)
  PROVE  After(s, 0, s)
<1>1. BlockSize * 0 = 0 /\ Len(s) \in Nat
  BY BlockSizeType, LenProperties
<1> QED BY <1>1 DEF After

LEMMA AfterAll ==
  ASSUME NEW s, NEW n, InBlks(s, n), NEW q \in Nat, After(s, q, <<>>)
  PROVE  q = n
<1>1. Len(s) = BlockSize * q + 0 /\ Len(s) = BlockSize * n /\ n \in Nat
  BY EmptySeq DEF InBlks, After
<1>2. BlockSize * q = BlockSize * n
  BY <1>1, BlockSizeType
<1> QED BY <1>1, <1>2, BlockSizeType, SameBlocks

\* The next block is block q + 1.
LEMMA AfterNext ==
  ASSUME NEW s, NEW n, InBlks(s, n), NEW q \in Nat, NEW d, After(s, q, d), d # <<>>
  PROVE  /\ q + 1 \in 1 .. n
         /\ SubSeq(d, 1, BlockSize) = Blk(s, q + 1)
         /\ After(s, q + 1, SubSeq(d, BlockSize + 1, Len(d)))
<1>1. PICK l \in Nat \ {0} : l = BlockSize
  BY BlockSizeType
<1> DEFINE x == l * q
           m == Len(d)
           b == SubSeq(d, 1, l)
           r == SubSeq(d, l + 1, m)
<1>2. /\ s \in Seq(Octet) /\ n \in Nat /\ Len(s) = l * n
      /\ d \in Seq(Octet) /\ Len(s) = x + m
      /\ \A k \in 1 .. m : d[k] = s[x + k]
  BY <1>1 DEF InBlks, After
<1>3. m \in Nat \ {0} /\ x \in Nat /\ l * n \in Nat
  BY <1>2, EmptySeq
<1>4. q + 1 \in 1 .. n
  <2>1. l * q < l * n
    <3>. HIDE DEF m
    <3>1. x < x + m
      BY <1>3
    <3> QED BY <1>2, <3>1
  <2> QED BY <1>2, <2>1, NextInBlocks
<1>5. x + l = l * (q + 1) /\ l * ((q + 1) - 1) = x /\ x + l <= x + m
  <2>1. l * ((q + 1) - 1) + l = l * (q + 1) /\ l * (q + 1) <= l * n
    BY <1>2, <1>4, InBlocks
  <2>2. l * ((q + 1) - 1) = x
    OBVIOUS
  <2> QED BY <1>2, <2>1, <2>2
<1>. HIDE DEF x, m
<1>6. l <= m
  BY <1>3, <1>5
<1>7. \A k \in 1 .. m : d[k] \in Octet
  BY <1>2, ElementOfSeq DEF m
<1>8. b \in Seq(Octet) /\ Len(b) = l /\ \A j \in 1 .. l : b[j] = d[j]
  <2>1. \A k \in 1 .. l : d[k] \in Octet
    BY <1>3, <1>6, <1>7
  <2>2. /\ b \in Seq(Octet) /\ Len(b) = IF 1 <= l THEN l - 1 + 1 ELSE 0
        /\ \A j \in 1 .. l - 1 + 1 : b[j] = d[1 + j - 1]
    BY <2>1, SubSeqProperties
  <2>. HIDE DEF b
  <2> QED BY <2>2
<1>9. /\ r \in Seq(Octet) /\ Len(r) = m - l
      /\ \A j \in 1 .. m - l : r[j] = d[l + j]
  <2>1. \A k \in l + 1 .. m : d[k] \in Octet
    BY <1>3, <1>7
  <2>2. /\ r \in Seq(Octet) /\ Len(r) = IF l + 1 <= m THEN m - (l + 1) + 1 ELSE 0
        /\ \A j \in 1 .. m - (l + 1) + 1 : r[j] = d[l + 1 + j - 1]
    BY <1>3, <2>1, SubSeqProperties
  <2>. HIDE DEF r
  <2>3. m - (l + 1) + 1 = m - l /\ \A j \in 1 .. m - l : l + 1 + j - 1 = l + j
    BY <1>3
  <2>4. Len(r) = m - l
    BY <1>3, <1>6, <2>2
  <2> QED BY <2>2, <2>3, <2>4
<1>. HIDE DEF b, r
<1>10. b = Blk(s, q + 1)
  <2>1. b \in [1 .. l -> Octet]
    BY <1>8, LenProperties
  <2>2. \A j \in 1 .. l : b[j] = s[x + j]
    <3> TAKE j \in 1 .. l
    <3>1. j \in 1 .. m
      BY <1>3, <1>6
    <3> QED BY <1>2, <1>8, <3>1
  <2>3. b = [j \in 1 .. l |-> s[x + j]]
    BY <2>1, <2>2
  <2> QED BY <1>1, <1>5, <2>3 DEF Blk
<1>11. After(s, q + 1, r)
  <2>1. Len(s) = (x + l) + (m - l)
    BY <1>2, <1>3
  <2>2. \A j \in 1 .. m - l : r[j] = s[(x + l) + j]
    <3> TAKE j \in 1 .. m - l
    <3>1. l + j \in 1 .. m /\ x + (l + j) = (x + l) + j
      BY <1>3, <1>6
    <3> QED BY <1>2, <1>9, <3>1
  <2> QED BY <1>1, <1>5, <1>9, <2>1, <2>2 DEF After
<1> QED BY <1>1, <1>4, <1>10, <1>11 DEF b, r, m

-----------------------------------------------------------------------------
(* PKCS#7.                                                                   *)

PadLen(s) == BlockSize - (Len(s) % BlockSize)

\* Padding appends the number of octets that is missing, at least one of them.
LEMMA PadProperties ==
  ASSUME NEW s \in Seq(Octet)
  PROVE  /\ Len(s) \in Nat /\ PadLen(s) \in 1 .. BlockSize
         /\ Pad(s) \in Seq(Octet) /\ Len(Pad(s)) = Len(s) + PadLen(s)
         /\ \A i \in 1 .. Len(s) : Pad(s)[i] = s[i]
         /\ \A i \in Len(s) + 1 .. Len(s) + PadLen(s) : Pad(s)[i] = PadLen(s)
         /\ \E n \in Nat \ {0} : InBlks(Pad(s), n)
<1>1. PICK l \in Nat \ {0} : l = BlockSize
  BY BlockSizeType
<1> DEFINE v == PadLen(s)
           z == [i \in 1 .. v |-> v]
           m == Len(s)
<1>2. m \in Nat
  BY LenProperties
<1>3. PICK q \in Nat : v \in 1 .. l /\ m + v = l * (q + 1)
  <2> DEFINE t == m % l
             u == m \div l
  <2>1. t \in 0 .. l - 1 /\ u \in Nat /\ m = l * u + t /\ v = l - t
    BY <1>1, <1>2 DEF PadLen
  <2>. HIDE DEF t, u, v, m
  <2>2. m + v = l * (u + 1) /\ v \in 1 .. l
    BY <2>1
  <2> QED BY <2>1, <2>2
<1>. HIDE DEF v
<1>4. z \in Seq(Octet) /\ Len(z) = v /\ \A i \in 1 .. v : z[i] = v
  <2>1. v \in Octet
    BY <1>1, <1>3, BlockSizeAssumption
  <2>2. z \in [1 .. v -> Octet]
    BY <2>1
  <2>3. z \in Seq(Octet)
    BY <1>3, <2>2, SeqDef
  <2> QED BY <1>3, <2>2, <2>3, LenProperties
<1>5. Pad(s) = s \o z
  BY DEF Pad, PadLen, v
<1>. HIDE DEF z
<1> DEFINE p == s \o z
<1>6. /\ p \in Seq(Octet) /\ Len(p) = m + Len(z)
      /\ \A i \in 1 .. m + Len(z) : p[i] = IF i <= m THEN s[i] ELSE z[i - m]
  BY <1>4, ConcatProperties
<1>. HIDE DEF p, m
<1>7. Len(p) = m + v /\ \A i \in 1 .. m + v : p[i] = IF i <= m THEN s[i] ELSE z[i - m]
  BY <1>4, <1>6
<1>8. \A i \in 1 .. m : p[i] = s[i]
  BY <1>2, <1>3, <1>7
<1>9. \A i \in m + 1 .. m + v : p[i] = v
  <2> TAKE i \in m + 1 .. m + v
  <2>1. i \in 1 .. m + v /\ ~(i <= m) /\ i - m \in 1 .. v
    BY <1>2, <1>3
  <2> QED BY <1>4, <1>7, <2>1
<1>10. InBlks(p, q + 1) /\ q + 1 \in Nat \ {0}
  BY <1>1, <1>3, <1>6, <1>7 DEF InBlks
<1> QED BY <1>1, <1>2, <1>3, <1>5, <1>6, <1>7, <1>8, <1>9, <1>10 DEF p, m, v

\* What has been padded is taken for padded, and comes back.
LEMMA UnpadPad ==
  ASSUME NEW s \in Seq(Octet)
  PROVE  PaddingOK(Pad(s)) /\ Unpadded(Pad(s)) = s
<1> DEFINE p == Pad(s)
           v == PadLen(s)
           m == Len(s)
<1>1. PICK l \in Nat \ {0} : l = BlockSize
  BY BlockSizeType
<1>2. /\ m \in Nat /\ v \in 1 .. l /\ p \in Seq(Octet) /\ Len(p) = m + v
      /\ \A i \in 1 .. m : p[i] = s[i]
      /\ \A i \in m + 1 .. m + v : p[i] = v
  BY <1>1, PadProperties
<1>. HIDE DEF p, v, m
<1>3. Last(p) = v
  <2>1. m + v \in m + 1 .. m + v
    BY <1>2
  <2> QED BY <1>2, <2>1 DEF Last
<1>4. \A i \in 0 .. l - 1 : i >= l - v => p[Len(p) - l + i + 1] = v
  <2> SUFFICES ASSUME NEW i \in 0 .. l - 1, i >= l - v PROVE p[Len(p) - l + i + 1] = v
    OBVIOUS
  <2>1. Len(p) - l + i + 1 \in m + 1 .. m + v
    BY <1>2
  <2> QED BY <1>2, <2>1
<1>5. PaddingOK(p)
  BY <1>1, <1>2, <1>3, <1>4 DEF PaddingOK
<1>6. Unpadded(p) = SubSeq(p, 1, m)
  <2>1. Len(p) - v = m
    BY <1>2
  <2> QED BY <1>3, <2>1 DEF Unpadded
<1>7. SubSeq(p, 1, m) = s
  <2> DEFINE u == SubSeq(p, 1, m)
  <2>1. \A i \in 1 .. m : p[i] \in Octet
    BY <1>2, ElementOfSeq DEF m
  <2>2. /\ u \in Seq(Octet) /\ Len(u) = IF 1 <= m THEN m - 1 + 1 ELSE 0
        /\ \A i \in 1 .. m - 1 + 1 : u[i] = p[1 + i - 1]
    BY <1>2, <2>1, SubSeqProperties
  <2>. HIDE DEF u
  <2>3. Len(u) = Len(s) /\ \A i \in 1 .. Len(u) : u[i] = s[i]
    BY <1>2, <2>2 DEF m
  <2>4. u = s
    BY <2>2, <2>3, SeqEqual
  <2> QED BY <2>4 DEF u
<1> QED BY <1>5, <1>6, <1>7 DEF p

\* What is taken for padded is the padding of what comes back.
LEMMA PadUnpad ==
  ASSUME NEW s, NEW n \in Nat \ {0}, InBlks(s, n), PaddingOK(s)
  PROVE  Unpadded(s) \in Seq(Octet) /\ Pad(Unpadded(s)) = s
<1> DEFINE v == Last(s)
           u == Unpadded(s)
           m == Len(s) - v
<1>1. PICK l \in Nat \ {0} : l = BlockSize
  BY BlockSizeType
<1>2. /\ s \in Seq(Octet) /\ Len(s) = l * n /\ Len(s) \in Nat /\ v \in 1 .. l
      /\ \A i \in 0 .. l - 1 : i >= l - v => s[Len(s) - l + i + 1] = v
  BY <1>1, LenProperties DEF InBlks, PaddingOK
<1>. HIDE DEF v
<1>3. m = l * (n - 1) + (l - v) /\ l * (n - 1) \in Nat /\ l - v \in 0 .. l - 1
  <2>1. l * n = l * (n - 1) + l /\ l * (n - 1) \in Nat
    OBVIOUS
  <2> QED BY <1>2, <2>1
<1>4. m \in Nat /\ m <= Len(s)
  BY <1>2, <1>3
<1>5. m % l = l - v
  <2>1. n - 1 \in Nat
    OBVIOUS
  <2>2. (l * (n - 1) + (l - v)) % l = l - v
    BY <1>3, <2>1, DivisionUnique
  <2>. HIDE DEF m
  <2> QED BY <1>3, <2>2
<1>. HIDE DEF m
<1>6. u \in Seq(Octet) /\ Len(u) = m /\ \A i \in 1 .. m : u[i] = s[i]
  <2> DEFINE w == SubSeq(s, 1, m)
  <2>1. \A i \in 1 .. m : s[i] \in Octet
    BY <1>2, <1>4, ElementOfSeq
  <2>2. /\ w \in Seq(Octet) /\ Len(w) = IF 1 <= m THEN m - 1 + 1 ELSE 0
        /\ \A i \in 1 .. m - 1 + 1 : w[i] = s[1 + i - 1]
    BY <1>4, <2>1, SubSeqProperties
  <2>3. u = w
    BY DEF Unpadded, m, v
  <2>. HIDE DEF w, u
  <2> QED BY <1>4, <2>2, <2>3
<1>. HIDE DEF u
<1>7. PadLen(u) = v
  BY <1>1, <1>2, <1>5, <1>6 DEF PadLen
<1>8. /\ Pad(u) \in Seq(Octet) /\ Len(Pad(u)) = m + v
      /\ \A i \in 1 .. m : Pad(u)[i] = u[i]
      /\ \A i \in m + 1 .. m + v : Pad(u)[i] = v
  BY <1>6, <1>7, PadProperties
<1>9. Len(s) = m + v
  BY <1>2 DEF m
<1>10. ASSUME NEW i \in 1 .. Len(s) PROVE Pad(u)[i] = s[i]
  <2>1. CASE i \in 1 .. m
    BY <1>6, <1>8, <2>1
  <2>2. CASE i \in m + 1 .. m + v
    <3> DEFINE k == i - Len(s) + l - 1
    <3>1. k \in 0 .. l - 1 /\ k >= l - v /\ Len(s) - l + k + 1 = i
      BY <1>2, <1>4, <1>9, <2>2
    <3>. HIDE DEF k
    <3>2. s[i] = v
      BY <1>2, <3>1
    <3> QED BY <1>8, <2>2, <3>2
  <2> QED BY <1>4, <1>2, <1>9, <2>1, <2>2
<1>11. Pad(u) = s
  BY <1>2, <1>8, <1>9, <1>10, SeqEqual
<1> QED BY <1>6, <1>11 DEF u

-----------------------------------------------------------------------------
(* CBC.                                                                      *)

\* What block i is chained with.
Prior(iv, c, i) == IF i = 1 THEN iv ELSE Blk(c, i - 1)

\* The first q blocks of c are the encryption of those of p, and ...
Encrypted(k, iv, p, c, q) ==
  \A i \in 1 .. q : Blk(c, i) = EncryptBlock(k, XorBlock(Blk(p, i), Prior(iv, c, i)))

\* ... the first q blocks of p are the decryption of those of c.
Recovered(k, iv, p, c, q) ==
  \A i \in 1 .. q : Blk(p, i) = XorBlock(DecryptBlock(k, Blk(c, i)), Prior(iv, c, i))

LEMMA XorProperties ==
  ASSUME NEW a \in Blocks, NEW b \in Blocks
  PROVE  XorBlock(a, b) \in Blocks /\ XorBlock(XorBlock(a, b), b) = a
<1>1. \A i \in 1 .. BlockSize : a[i] \in Octet /\ b[i] \in Octet
  BY DEF Blocks
<1>2. XorBlock(a, b) \in Blocks
  BY <1>1, XorAssumption DEF XorBlock, Blocks
<1>3. \A i \in 1 .. BlockSize : XorBlock(XorBlock(a, b), b)[i] = a[i]
  BY <1>1, XorAssumption DEF XorBlock
<1>4. XorBlock(XorBlock(a, b), b) = [i \in 1 .. BlockSize |-> XorBlock(XorBlock(a, b), b)[i]]
  BY DEF XorBlock
<1>5. a = [i \in 1 .. BlockSize |-> a[i]]
  BY DEF Blocks
<1> QED BY <1>2, <1>3, <1>4, <1>5

\* What a block is chained with is a block.
LEMMA PriorType ==
  ASSUME NEW iv \in Blocks, NEW c, NEW n, InBlks(c, n), NEW i \in 1 .. n
  PROVE  Prior(iv, c, i) \in Blocks
<1>1. CASE i = 1
  BY <1>1 DEF Prior
<1>2. CASE i # 1
  <2>1. i - 1 \in 1 .. n
    BY <1>2 DEF InBlks
  <2> QED BY <1>2, <2>1, BlkType DEF Prior
<1> QED BY <1>1, <1>2

\* Decryption is the inverse of encryption.
LEMMA CbcInverse ==
  ASSUME NEW k \in Keys, NEW iv \in Blocks, NEW p, NEW c, NEW n, InBlks(p, n), InBlks(c, n)
  PROVE  Encrypted(k, iv, p, c, n) <=> Recovered(k, iv, p, c, n)
<1>1. ASSUME NEW i \in 1 .. n
      PROVE  Blk(c, i) = EncryptBlock(k, XorBlock(Blk(p, i), Prior(iv, c, i)))
               <=> Blk(p, i) = XorBlock(DecryptBlock(k, Blk(c, i)), Prior(iv, c, i))
  <2>1. Blk(p, i) \in Blocks /\ Blk(c, i) \in Blocks
    BY BlkType
  <2>2. Prior(iv, c, i) \in Blocks
    BY PriorType
  <2> DEFINE a == Blk(p, i)
             b == Blk(c, i)
             x == Prior(iv, c, i)
  <2>3. a \in Blocks /\ b \in Blocks /\ x \in Blocks
    BY <2>1, <2>2
  <2>. HIDE DEF a, b, x
  <2>4. XorBlock(a, x) \in Blocks /\ XorBlock(XorBlock(a, x), x) = a
    BY <2>3, XorProperties
  <2>5. DecryptBlock(k, b) \in Blocks /\ EncryptBlock(k, DecryptBlock(k, b)) = b
    BY <2>3, CipherAssumption
  <2>6. XorBlock(XorBlock(DecryptBlock(k, b), x), x) = DecryptBlock(k, b)
    BY <2>3, <2>5, XorProperties
  <2>7. DecryptBlock(k, EncryptBlock(k, XorBlock(a, x))) = XorBlock(a, x)
    BY <2>4, CipherAssumption
  <2>8. b = EncryptBlock(k, XorBlock(a, x)) <=> a = XorBlock(DecryptBlock(k, b), x)
    BY <2>4, <2>5, <2>6, <2>7
  <2> QED BY <2>8 DEF a, b, x
<1> QED BY <1>1 DEF Encrypted, Recovered

\* The specification of an encryption, by blocks.
LEMMA EncryptionBlocks ==
  ASSUME NEW e, NEW k, NEW m, NEW n, InBlks(Pad(m), n), InBlks(e.ct, n)
  PROVE  IsEncryption(e, k, m) <=> Encrypted(k, e.iv, Pad(m), e.ct, n)
<1> DEFINE p == Pad(m)
           B(s, i) == SubSeq(s, (i - 1) * BlockSize + 1, i * BlockSize)
           C(i) == IF i = 0 THEN e.iv ELSE B(e.ct, i)
<1>1. n \in Nat /\ Len(p) = BlockSize * n /\ Len(e.ct) = BlockSize * n
  BY DEF InBlks
<1>2. Len(p) \div BlockSize = n
  <2>1. 0 \in 0 .. BlockSize - 1 /\ BlockSize * n + 0 = BlockSize * n
    BY <1>1, BlockSizeType
  <2>2. (BlockSize * n + 0) \div BlockSize = n
    BY <1>1, <2>1, BlockSizeType, DivisionUnique
  <2>. HIDE DEF p
  <2> QED BY <1>1, <2>1, <2>2
<1>3. IsEncryption(e, k, m) <=>
        \A i \in 1 .. n : C(i) = EncryptBlock(k, XorBlock(B(p, i), C(i - 1)))
  <2>1. IsEncryption(e, k, m) <=>
          /\ Len(p) = Len(e.ct)
          /\ \A i \in 1 .. Len(p) \div BlockSize :
               C(i) = EncryptBlock(k, XorBlock(B(p, i), C(i - 1)))
    BY DEF IsEncryption
  <2>. HIDE DEF p, C, B
  <2> QED BY <1>1, <1>2, <2>1
<1>4. ASSUME NEW i \in 1 .. n
      PROVE  C(i) = Blk(e.ct, i) /\ B(p, i) = Blk(p, i) /\ C(i - 1) = Prior(e.iv, e.ct, i)
  <2>1. B(e.ct, i) = Blk(e.ct, i) /\ B(p, i) = Blk(p, i)
    BY BlkType
  <2>2. C(i) = Blk(e.ct, i)
    <3>1. i # 0
      BY <1>1
    <3>. HIDE DEF B
    <3> QED BY <2>1, <3>1
  <2>3. C(i - 1) = Prior(e.iv, e.ct, i)
    <3>1. CASE i = 1
      BY <3>1 DEF Prior
    <3>2. CASE i # 1
      <4>1. i - 1 \in 1 .. n /\ i - 1 # 0
        BY <1>1, <3>2
      <4>2. B(e.ct, i - 1) = Blk(e.ct, i - 1)
        BY <4>1, BlkType
      <4>. HIDE DEF B
      <4> QED BY <3>2, <4>1, <4>2 DEF Prior
    <3> QED BY <3>1, <3>2
  <2> QED BY <2>1, <2>2, <2>3
<1>. HIDE DEF C, B
<1>5. (\A i \in 1 .. n : C(i) = EncryptBlock(k, XorBlock(B(p, i), C(i - 1))))
        <=> Encrypted(k, e.iv, p, e.ct, n)
  BY <1>4 DEF Encrypted
<1> QED BY <1>3, <1>5

\* The next block of an encryption, and ...
LEMMA EncryptedNext ==
  ASSUME NEW k, NEW iv, NEW p, NEW c, NEW q, InBlks(c, q), Encrypted(k, iv, p, c, q),
         NEW b \in Blocks, b = EncryptBlock(k, XorBlock(Blk(p, q + 1), Prior(iv, c, q + 1)))
  PROVE  Encrypted(k, iv, p, c \o b, q + 1) /\ Prior(iv, c \o b, (q + 1) + 1) = b
<1> DEFINE d == c \o b
<1>1. q \in Nat /\ Blk(d, q + 1) = b /\ \A i \in 1 .. q : Blk(d, i) = Blk(c, i)
  <2>1. q \in Nat
    BY DEF InBlks
  <2> QED BY <2>1, BlkAppended
<1>. HIDE DEF d
<1>2. \A i \in 1 .. q + 1 : Prior(iv, d, i) = Prior(iv, c, i)
  <2> TAKE i \in 1 .. q + 1
  <2>1. i # 1 => i - 1 \in 1 .. q
    BY <1>1
  <2> QED BY <1>1, <2>1 DEF Prior
<1>3. \A i \in 1 .. q + 1 : i \in 1 .. q \/ i = q + 1
  BY <1>1
<1>4. Encrypted(k, iv, p, d, q + 1)
  BY <1>1, <1>2, <1>3 DEF Encrypted
<1>5. Prior(iv, d, (q + 1) + 1) = b
  <2>1. (q + 1) + 1 # 1 /\ ((q + 1) + 1) - 1 = q + 1
    BY <1>1
  <2> QED BY <1>1, <2>1 DEF Prior
<1> QED BY <1>4, <1>5 DEF d

\* ... of a decryption.
LEMMA RecoveredNext ==
  ASSUME NEW k, NEW iv, NEW p, NEW c, NEW q, InBlks(p, q), Recovered(k, iv, p, c, q),
         NEW b \in Blocks, b = XorBlock(DecryptBlock(k, Blk(c, q + 1)), Prior(iv, c, q + 1))
  PROVE  Recovered(k, iv, p \o b, c, q + 1) /\ Prior(iv, c, (q + 1) + 1) = Blk(c, q + 1)
<1> DEFINE d == p \o b
<1>1. q \in Nat /\ Blk(d, q + 1) = b /\ \A i \in 1 .. q : Blk(d, i) = Blk(p, i)
  <2>1. q \in Nat
    BY DEF InBlks
  <2> QED BY <2>1, BlkAppended
<1>. HIDE DEF d
<1>2. \A i \in 1 .. q + 1 : i \in 1 .. q \/ i = q + 1
  BY <1>1
<1>3. Recovered(k, iv, d, c, q + 1)
  BY <1>1, <1>2 DEF Recovered
<1>4. (q + 1) + 1 # 1 /\ ((q + 1) + 1) - 1 = q + 1
  BY <1>1
<1> QED BY <1>3, <1>4 DEF d, Prior

\* What the first block that comes is chained with.
LEMMA PriorNext ==
  ASSUME NEW iv \in Blocks, NEW c, NEW q, InBlks(c, q)
  PROVE  Prior(iv, c, q + 1) \in Blocks
<1>1. CASE q = 0
  BY <1>1 DEF Prior
<1>2. CASE q # 0
  <2>1. q \in 1 .. q /\ q + 1 # 1 /\ (q + 1) - 1 = q
    BY <1>2 DEF InBlks
  <2> QED BY <2>1, BlkType DEF Prior
<1> QED BY <1>1, <1>2

LEMMA NoBlocks == InBlks(<<>>, 0)
<1>1. BlockSize * 0 = 0
  BY BlockSizeType
<1> QED BY <1>1, EmptySeq DEF InBlks

-----------------------------------------------------------------------------
(* The parameters of an envelope.                                            *)

NothingRead == [keylen |-> {}, hash |-> "sha1"]

\* f is what has been read after each of the extras.
Reads(f, e) ==
  f = [n \in 0 .. Len(e.extras) |->
         IF n = 0 THEN NothingRead ELSE ReadExtra(f[n - 1], e.extras[n])]

\* The loop over the extras of an envelope that may be opened.
LEMMA ReadExtrasUnfolded ==
  ASSUME NEW e, Len(e.extras) \in 0 .. 2
  PROVE  /\ Len(e.extras) = 0 => ReadExtras(e) = NothingRead
         /\ Len(e.extras) = 1 => ReadExtras(e) = ReadExtra(NothingRead, e.extras[1])
         /\ Len(e.extras) = 2 =>
              ReadExtras(e) = ReadExtra(ReadExtra(NothingRead, e.extras[1]), e.extras[2])
<1>1. PICK m \in 0 .. 2 : m = Len(e.extras)
  OBVIOUS
<1> DEFINE r0 == NothingRead
           r1 == ReadExtra(r0, e.extras[1])
           r2 == ReadExtra(r1, e.extras[2])
           f == [n \in 0 .. m |-> IF n = 0 THEN r0 ELSE IF n = 1 THEN r1 ELSE r2]
<1>2. Reads(f, e)
  <2>1. ASSUME NEW n \in 0 .. m
        PROVE  f[n] = IF n = 0 THEN r0 ELSE ReadExtra(f[n - 1], e.extras[n])
    <3>1. CASE n = 0
      BY <3>1
    <3>2. CASE n = 1
      <4>1. f[n] = r1 /\ n - 1 = 0 /\ 0 \in 0 .. m /\ f[0] = r0
        BY <3>2
      <4>. HIDE DEF f, r0
      <4> QED BY <3>2, <4>1
    <3>3. CASE n = 2
      <4>1. f[n] = r2 /\ n - 1 = 1 /\ 1 \in 0 .. m /\ f[1] = r1
        BY <3>3
      <4>. HIDE DEF f, r1
      <4> QED BY <3>3, <4>1
    <3> QED BY <3>1, <3>2, <3>3
  <2>2. f = [n \in 0 .. m |-> f[n]]
    OBVIOUS
  <2>. HIDE DEF f
  <2> QED BY <1>1, <2>1, <2>2 DEF Reads
<1>3. PICK g : Reads(g, e) /\ ReadExtras(e) = g[Len(e.extras)]
  <2> DEFINE g == CHOOSE h : Reads(h, e)
  <2>1. Reads(g, e)
    BY <1>2
  <2>2. ReadExtras(e) = g[Len(e.extras)]
    BY DEF ReadExtras, Reads, NothingRead
  <2>. HIDE DEF g
  <2> QED BY <2>1, <2>2
<1>4. \A n \in 0 .. m : g[n] = IF n = 0 THEN r0 ELSE ReadExtra(g[n - 1], e.extras[n])
  BY <1>1, <1>3 DEF Reads
<1>. HIDE DEF r0, r1, r2
<1>5. g[0] = r0
  BY <1>1, <1>4
<1>6. m >= 1 => g[1] = r1
  <2>1. m >= 1 => 1 \in 0 .. m /\ 1 - 1 = 0
    BY <1>1
  <2> QED BY <1>4, <1>5, <2>1 DEF r1
<1>7. m = 2 => g[2] = r2
  <2>1. m = 2 => 2 \in 0 .. m /\ 2 - 1 = 1
    BY <1>1
  <2> QED BY <1>4, <1>6, <2>1 DEF r2
<1>8. ReadExtras(e) = g[m]
  BY <1>1, <1>3
<1>9. /\ m = 0 => ReadExtras(e) = r0
      /\ m = 1 => ReadExtras(e) = r1
      /\ m = 2 => ReadExtras(e) = r2
  BY <1>5, <1>6, <1>7, <1>8
<1> QED BY <1>1, <1>9 DEF r0, r1, r2

\* What one of the extras changes.
LEMMA ReadExtraChanges ==
  ASSUME NEW k, NEW h, NEW x
  PROVE  /\ Integer(x) => ReadExtra([keylen |-> k, hash |-> h], x)
                            = [keylen |-> {x.value}, hash |-> h]
         /\ Prf(x) => ReadExtra([keylen |-> k, hash |-> h], x)
                        = [keylen |-> k, hash |-> x.name]
         /\ ~(Integer(x) /\ Prf(x))
<1>1. ~(Integer(x) /\ Prf(x))
  BY DEF Integer, Prf
<1>. HIDE DEF Integer, Prf
<1>2. Integer(x) => ReadExtra([keylen |-> k, hash |-> h], x) = [keylen |-> {x.value}, hash |-> h]
  BY <1>1 DEF ReadExtra
<1>3. Prf(x) => ReadExtra([keylen |-> k, hash |-> h], x) = [keylen |-> k, hash |-> x.name]
  BY <1>1 DEF ReadExtra
<1> QED BY <1>1, <1>2, <1>3

\* What the loop reads is the hash of the envelope, and a key length that is there.
LEMMA ReadExtrasCorrect ==
  ASSUME NEW e, Len(e.extras) \in 0 .. 2,
         \A i \in 1 .. Len(e.extras) : Integer(e.extras[i]) \/ Prf(e.extras[i])
  PROVE  /\ HashOf(e, HashName(e))
         /\ \A n \in ReadExtras(e).keylen :
              \E i \in 1 .. Len(e.extras) : Integer(e.extras[i]) /\ e.extras[i].value = n
<1>1. PICK m \in 0 .. 2 : m = Len(e.extras)
  OBVIOUS
<1>2. PICK x, y : x = e.extras[1] /\ y = e.extras[2]
  OBVIOUS
<1>3. /\ \A k, h, z : Integer(z) =>
           ReadExtra([keylen |-> k, hash |-> h], z) = [keylen |-> {z.value}, hash |-> h]
      /\ \A k, h, z : Prf(z) =>
           ReadExtra([keylen |-> k, hash |-> h], z) = [keylen |-> k, hash |-> z.name]
      /\ \A z : ~(Integer(z) /\ Prf(z))
  BY ReadExtraChanges
<1>7. \A k, h, z : Integer(z) =>
        ReadExtra([keylen |-> k, hash |-> h], z) = [keylen |-> {z.value}, hash |-> h]
  BY <1>3
<1>8. \A k, h, z : Prf(z) =>
        ReadExtra([keylen |-> k, hash |-> h], z) = [keylen |-> k, hash |-> z.name]
  BY <1>3
<1>4. CASE m = 0
  <2>1. ReadExtras(e) = [keylen |-> {}, hash |-> "sha1"]
    BY <1>1, <1>4, ReadExtrasUnfolded DEF NothingRead
  <2> QED BY <1>1, <1>4, <2>1 DEF HashOf, HashName
<1>5. CASE m = 1
  <2>1. ReadExtras(e) = ReadExtra([keylen |-> {}, hash |-> "sha1"], x)
    BY <1>1, <1>2, <1>5, ReadExtrasUnfolded DEF NothingRead
  <2>2. 1 \in 1 .. m /\ \A i \in 1 .. m : i = 1
    BY <1>5
  <2>3. \A j \in 1 + 1 .. m : FALSE
    BY <1>5
  <2>4. CASE Integer(x)
    <3>1. /\ ReadExtra([keylen |-> {}, hash |-> "sha1"], x)
               = [keylen |-> {x.value}, hash |-> "sha1"]
          /\ ~Prf(x)
      BY <2>4, <1>3, ZenonT(60)
    <3> QED BY <1>1, <1>2, <2>1, <2>2, <2>4, <3>1 DEF HashOf, HashName
  <2>5. CASE Prf(x)
    <3>1. ReadExtras(e) = [keylen |-> {}, hash |-> x.name]
      BY <2>1, <2>5, <1>3, ZenonT(60)
    <3> QED BY <1>1, <1>2, <2>2, <2>3, <2>5, <3>1 DEF HashOf, HashName
  <2> QED BY <1>1, <1>2, <2>2, <2>4, <2>5
<1>6. CASE m = 2
  <2>1. ReadExtras(e) = ReadExtra(ReadExtra([keylen |-> {}, hash |-> "sha1"], x), y)
    BY <1>1, <1>2, <1>6, ReadExtrasUnfolded DEF NothingRead
  <2>2. 1 \in 1 .. m /\ 2 \in 1 .. m /\ \A i \in 1 .. m : i = 1 \/ i = 2
    BY <1>6
  <2>3. /\ \A j \in 1 + 1 .. m : j = 2
        /\ \A j \in 2 + 1 .. m : FALSE
    BY <1>6
  <2>4. CASE Integer(x) /\ Integer(y)
    <3>1. /\ ReadExtra([keylen |-> {}, hash |-> "sha1"], x) = [keylen |-> {x.value}, hash |-> "sha1"]
          /\ ~(Integer(x) /\ Prf(x)) /\ ~(Integer(y) /\ Prf(y))
      BY <2>4, <1>3, ZenonT(60)
    <3>2. ReadExtra([keylen |-> {x.value}, hash |-> "sha1"], y) = [keylen |-> {y.value}, hash |-> "sha1"]
      BY <2>4, <1>7, ZenonT(60)
    <3>3. ReadExtras(e) = [keylen |-> {y.value}, hash |-> "sha1"]
      BY <2>1, <3>1, <3>2
    <3> QED BY <1>1, <1>2, <2>2, <2>4, <3>1, <3>3 DEF HashOf, HashName
  <2>5. CASE Integer(x) /\ Prf(y)
    <3>1. /\ ReadExtra([keylen |-> {}, hash |-> "sha1"], x) = [keylen |-> {x.value}, hash |-> "sha1"]
          /\ ~(Integer(x) /\ Prf(x)) /\ ~(Integer(y) /\ Prf(y))
      BY <2>5, <1>3, ZenonT(60)
    <3>2. ReadExtra([keylen |-> {x.value}, hash |-> "sha1"], y) = [keylen |-> {x.value}, hash |-> y.name]
      BY <2>5, <1>8, ZenonT(60)
    <3>3. ReadExtras(e) = [keylen |-> {x.value}, hash |-> y.name]
      BY <2>1, <3>1, <3>2
    <3> QED BY <1>1, <1>2, <2>2, <2>3, <2>5, <3>1, <3>3 DEF HashOf, HashName
  <2>6. CASE Prf(x) /\ Integer(y)
    <3>1. /\ ReadExtra([keylen |-> {}, hash |-> "sha1"], x) = [keylen |-> {}, hash |-> x.name]
          /\ ~(Integer(x) /\ Prf(x)) /\ ~(Integer(y) /\ Prf(y))
      BY <2>6, <1>3, ZenonT(60)
    <3>2. ReadExtra([keylen |-> {}, hash |-> x.name], y) = [keylen |-> {y.value}, hash |-> x.name]
      BY <2>6, <1>7, ZenonT(60)
    <3>3. ReadExtras(e) = [keylen |-> {y.value}, hash |-> x.name]
      BY <2>1, <3>1, <3>2
    <3> QED BY <1>1, <1>2, <2>2, <2>3, <2>6, <3>1, <3>3 DEF HashOf, HashName
  <2>7. CASE Prf(x) /\ Prf(y)
    <3>1. /\ ReadExtra([keylen |-> {}, hash |-> "sha1"], x) = [keylen |-> {}, hash |-> x.name]
          /\ ~(Integer(x) /\ Prf(x)) /\ ~(Integer(y) /\ Prf(y))
      BY <2>7, <1>3, ZenonT(60)
    <3>2. ReadExtra([keylen |-> {}, hash |-> x.name], y) = [keylen |-> {}, hash |-> y.name]
      BY <2>7, <1>8, ZenonT(60)
    <3>3. ReadExtras(e) = [keylen |-> {}, hash |-> y.name]
      BY <2>1, <3>1, <3>2
    <3> QED BY <1>1, <1>2, <2>2, <2>3, <2>7, <3>1, <3>3 DEF HashOf, HashName
  <2> QED BY <1>1, <1>2, <2>2, <2>4, <2>5, <2>6, <2>7
<1> QED BY <1>4, <1>5, <1>6

\* An envelope has one hash.
LEMMA HashOfUnique ==
  ASSUME NEW e, Len(e.extras) \in Nat, NEW g, NEW h, HashOf(e, g), HashOf(e, h)
  PROVE  g = h
<1>1. CASE \E i \in 1 .. Len(e.extras) : Prf(e.extras[i])
  <2>1. PICK i \in 1 .. Len(e.extras) :
          /\ Prf(e.extras[i]) /\ e.extras[i].name = g
          /\ \A j \in i + 1 .. Len(e.extras) : ~Prf(e.extras[j])
    BY <1>1 DEF HashOf
  <2>2. PICK k \in 1 .. Len(e.extras) :
          /\ Prf(e.extras[k]) /\ e.extras[k].name = h
          /\ \A j \in k + 1 .. Len(e.extras) : ~Prf(e.extras[j])
    BY <1>1 DEF HashOf
  <2>3. ~(i < k) /\ ~(k < i)
    <3>1. i < k => k \in i + 1 .. Len(e.extras)
      OBVIOUS
    <3>2. k < i => i \in k + 1 .. Len(e.extras)
      OBVIOUS
    <3> QED BY <2>1, <2>2, <3>1, <3>2
  <2>4. i = k
    BY <2>3
  <2> QED BY <2>1, <2>2, <2>4
<1>2. CASE \A i \in 1 .. Len(e.extras) : ~Prf(e.extras[i])
  BY <1>2 DEF HashOf
<1> QED BY <1>1, <1>2

-----------------------------------------------------------------------------
(* Envelopes and what they hold.                                             *)

AllSalts == Salts \cup {e.salt : e \in {x \in Envelopes : x.scheme = "pbes2"}}

\* The fields that pbes2_decrypt uses have their types.
EnvelopeType(e) ==
  e.iv \in Seq(Octet) /\ e.ct \in Seq(Octet) /\ Len(e.extras) \in Nat /\ e.salt \in AllSalts

\* m is enclosed in an envelope under a password, a PrivateKeyInfo or not.
Encloses(e, password, m) ==
  \E h \in Prfs :
    /\ HashOf(e, h)
    /\ IsEncryption(e, Pbkdf2(password, e.salt, e.iterations, KeySize(e), h), m)

LEMMA HoldsEncloses ==
  ASSUME NEW e, NEW p, NEW m
  PROVE  Holds(e, p, m) <=> IsPrivateKeyInfo(m) /\ Encloses(e, p, m)
BY DEF Holds, Encloses

OpenKey(e, password) == Pbkdf2(password, e.salt, e.iterations, KeySize(e), HashName(e))

\* What passes the checks has blocks to decrypt, a hash, and a key under every password.
LEMMA EnvelopeOKProperties ==
  ASSUME NEW e, EnvelopeOK(e), EnvelopeType(e), NEW p \in Passwords
  PROVE  /\ e.iv \in Blocks /\ \E n \in Nat \ {0} : InBlks(e.ct, n)
         /\ HashName(e) \in Prfs /\ HashOf(e, HashName(e))
         /\ OpenKey(e, p) \in Keys
<1>1. PICK l \in Nat \ {0} : l = BlockSize
  BY BlockSizeType
<1>2. /\ e.iv \in Seq(Octet) /\ Len(e.iv) = l /\ e.ct \in Seq(Octet) /\ Len(e.ct) > 0
      /\ Len(e.ct) % l = 0 /\ Len(e.extras) \in Nat /\ Len(e.extras) <= 2
      /\ \A i \in 1 .. Len(e.extras) :
           Integer(e.extras[i]) \/ (Prf(e.extras[i]) /\ e.extras[i].name \in Prfs)
      /\ e.iterations \in 1 .. MaxIterations /\ e.cipher \in DOMAIN CipherKeyLen
      /\ e.salt \in AllSalts
  BY <1>1 DEF EnvelopeOK, EnvelopeType, KdfOK, CipherOK
<1>3. e.iv \in Blocks
  BY <1>1, <1>2, LenProperties DEF Blocks
<1>4. \E n \in Nat \ {0} : InBlks(e.ct, n)
  <2> DEFINE m == Len(e.ct)
             q == m \div l
  <2>1. m \in Nat \ {0}
    BY <1>2, LenProperties
  <2>2. m % l = 0
    BY <1>2
  <2>. HIDE DEF m
  <2>3. q \in Nat /\ m = l * q + (m % l)
    BY <2>1
  <2>. HIDE DEF q
  <2>4. m = l * q /\ q # 0
    BY <2>1, <2>2, <2>3
  <2> QED BY <1>1, <1>2, <2>3, <2>4 DEF InBlks, m
<1>5. HashOf(e, HashName(e))
  <2>1. Len(e.extras) \in 0 .. 2
    <3> DEFINE m == Len(e.extras)
    <3>1. m \in Nat /\ m <= 2
      BY <1>2
    <3>. HIDE DEF m
    <3>2. m \in 0 .. 2
      BY <3>1
    <3> QED BY <3>2 DEF m
  <2> QED BY <1>2, <2>1, ReadExtrasCorrect
<1>6. HashName(e) \in Prfs
  <2>1. "sha1" \in Prfs
    BY DEF Prfs
  <2>. HIDE DEF Prfs
  <2>2. \A i \in 1 .. Len(e.extras) : Prf(e.extras[i]) => e.extras[i].name \in Prfs
    BY <1>2 DEF Integer, Prf
  <2> QED BY <1>5, <2>1, <2>2 DEF HashOf
<1>7. OpenKey(e, p) \in Keys
  BY <1>2, <1>6, KeyAssumption DEF OpenKey, KeySize, AllSalts
<1> QED BY <1>3, <1>4, <1>5, <1>6, <1>7

LEMMA PairConcat ==
  ASSUME NEW a, NEW b
  PROVE  <<a>> \o <<b>> = <<a, b>>
<1> DEFINE S == {a, b}
<1>1. <<a>> \in Seq(S) /\ <<b>> \in Seq(S) /\ <<a, b>> \in Seq(S)
  OBVIOUS
<1>. HIDE DEF S
<1>2. /\ <<a>> \o <<b>> \in Seq(S) /\ Len(<<a>> \o <<b>>) = Len(<<a>>) + Len(<<b>>)
      /\ \A i \in 1 .. Len(<<a>>) + Len(<<b>>) :
           (<<a>> \o <<b>>)[i] = IF i <= Len(<<a>>) THEN <<a>>[i] ELSE <<b>>[i - Len(<<a>>)]
  BY <1>1, ConcatProperties
<1>3. /\ Len(<<a>>) = 1 /\ Len(<<b>>) = 1 /\ Len(<<a, b>>) = 2
      /\ <<a>>[1] = a /\ <<b>>[1] = b /\ <<a, b>>[1] = a /\ <<a, b>>[2] = b
  OBVIOUS
<1>4. (<<a>> \o <<b>>)[1] = a /\ (<<a>> \o <<b>>)[2] = b
  BY <1>2, <1>3
<1>5. \A i \in 1 .. 2 : i = 1 \/ i = 2
  OBVIOUS
<1>6. Len(<<a>> \o <<b>>) = 2
  BY <1>2, <1>3
<1>7. \A i \in 1 .. Len(<<a>> \o <<b>>) : (<<a>> \o <<b>>)[i] = <<a, b>>[i]
  BY <1>3, <1>4, <1>5, <1>6
<1> QED BY <1>1, <1>2, <1>3, <1>6, <1>7, SeqEqual

\* A conforming envelope that encloses something passes the checks.
LEMMA ConformingOK ==
  ASSUME NEW e, Conforming(e), EnvelopeType(e), NEW n \in Nat \ {0}, InBlks(e.ct, n)
  PROVE  EnvelopeOK(e)
<1>1. PICK l \in Nat \ {0} : l = BlockSize
  BY BlockSizeType
<1> DEFINE i == [kind |-> "integer", value |-> KeySize(e)]
           P(h) == [kind |-> "prf", name |-> h]
<1>2. \/ e.extras = <<>> \/ e.extras = <<i>>
      \/ \E h \in Prfs : e.extras = <<P(h)>> \/ e.extras = <<i, P(h)>>
  <2>1. e.extras \in {<<>>, <<i>>} \cup {<<P(h)>> : h \in Prfs}
                       \cup {<<i>> \o p : p \in {<<P(h)>> : h \in Prfs}}
    BY DEF Conforming
  <2>2. \A h : <<i>> \o <<P(h)>> = <<i, P(h)>>
    BY PairConcat
  <2>. HIDE DEF i, P
  <2> QED BY <2>1, <2>2
<1> DEFINE Proper ==
      /\ Len(e.extras) \in 0 .. 2
      /\ \A j \in 1 .. Len(e.extras) :
           \/ Integer(e.extras[j]) /\ ~Prf(e.extras[j]) /\ e.extras[j].value = KeySize(e)
           \/ Prf(e.extras[j]) /\ ~Integer(e.extras[j]) /\ e.extras[j].name \in Prfs
<1>3. Proper
  <2>1. Integer(i) /\ ~Prf(i) /\ i.value = KeySize(e)
    BY DEF Integer, Prf
  <2>2. \A h : Prf(P(h)) /\ ~Integer(P(h)) /\ P(h).name = h
    BY DEF Integer, Prf
  <2>. HIDE DEF i, P
  <2>3. CASE e.extras = <<>>
    BY <2>3
  <2>4. CASE e.extras = <<i>>
    <3>1. Len(e.extras) = 1 /\ e.extras[1] = i
      BY <2>4
    <3> QED BY <2>1, <3>1
  <2>5. ASSUME NEW h \in Prfs, e.extras = <<P(h)>>
        PROVE  Proper
    <3>1. Len(e.extras) = 1 /\ e.extras[1] = P(h)
      BY <2>5
    <3> QED BY <2>2, <3>1
  <2>6. ASSUME NEW h \in Prfs, e.extras = <<i, P(h)>>
        PROVE  Proper
    <3>1. Len(e.extras) = 2 /\ e.extras[1] = i /\ e.extras[2] = P(h)
      BY <2>6
    <3>2. \A j \in 1 .. 2 : j = 1 \/ j = 2
      OBVIOUS
    <3> QED BY <2>1, <2>2, <3>1, <3>2
  <2> QED BY <1>2, <2>3, <2>4, <2>5, <2>6
<1>4. \A k \in ReadExtras(e).keylen : k = KeySize(e)
  BY <1>3, ReadExtrasCorrect
<1>5. KdfOK(e) /\ CipherOK(e) /\ e.scheme = "pbes2"
  BY <1>3 DEF Conforming, KdfOK, CipherOK
<1>6. Len(e.ct) > 0 /\ Len(e.ct) % BlockSize = 0
  <2>1. Len(e.ct) = l * n + 0 /\ 0 \in 0 .. l - 1
    BY <1>1 DEF InBlks
  <2>2. (l * n + 0) % l = 0
    BY <2>1, DivisionUnique
  <2>3. l * n > 0
    OBVIOUS
  <2> QED BY <1>1, <2>1, <2>2, <2>3
<1> QED BY <1>4, <1>5, <1>6 DEF EnvelopeOK

\* s is all that the ciphertext of e is decrypted to under a password.
Opens(e, password, s) ==
  \E n \in Nat \ {0} :
    InBlks(e.ct, n) /\ InBlks(s, n) /\ Recovered(OpenKey(e, password), e.iv, s, e.ct, n)

\* What is decrypted and padded is enclosed, and ...
LEMMA OpensSound ==
  ASSUME NEW e, EnvelopeOK(e), EnvelopeType(e), NEW p \in Passwords,
         NEW s, Opens(e, p, s), PaddingOK(s)
  PROVE  Encloses(e, p, Unpadded(s))
<1>1. PICK n \in Nat \ {0} :
        InBlks(e.ct, n) /\ InBlks(s, n) /\ Recovered(OpenKey(e, p), e.iv, s, e.ct, n)
  BY DEF Opens
<1>2. /\ e.iv \in Blocks /\ HashName(e) \in Prfs /\ HashOf(e, HashName(e))
      /\ OpenKey(e, p) \in Keys
  BY EnvelopeOKProperties
<1>3. Pad(Unpadded(s)) = s
  BY <1>1, PadUnpad
<1>4. Encrypted(OpenKey(e, p), e.iv, s, e.ct, n)
  BY <1>1, <1>2, CbcInverse
<1>5. IsEncryption(e, OpenKey(e, p), Unpadded(s))
  BY <1>1, <1>3, <1>4, EncryptionBlocks
<1> QED BY <1>2, <1>5 DEF Encloses, OpenKey

\* ... what is enclosed is what is decrypted, padded.
LEMMA OpensComplete ==
  ASSUME NEW e, EnvelopeOK(e), EnvelopeType(e), NEW p \in Passwords,
         NEW s, Opens(e, p, s), NEW m \in Seq(Octet), Encloses(e, p, m)
  PROVE  s = Pad(m)
<1>1. PICK n \in Nat \ {0} :
        InBlks(e.ct, n) /\ InBlks(s, n) /\ Recovered(OpenKey(e, p), e.iv, s, e.ct, n)
  BY DEF Opens
<1>2. e.iv \in Blocks /\ HashOf(e, HashName(e)) /\ OpenKey(e, p) \in Keys
  BY EnvelopeOKProperties
<1>3. IsEncryption(e, OpenKey(e, p), m)
  <2>1. PICK h \in Prfs :
          /\ HashOf(e, h)
          /\ IsEncryption(e, Pbkdf2(p, e.salt, e.iterations, KeySize(e), h), m)
    BY DEF Encloses
  <2>2. h = HashName(e)
    BY <1>2, <2>1, HashOfUnique DEF EnvelopeType
  <2> QED BY <2>1, <2>2 DEF OpenKey
<1>4. InBlks(Pad(m), n)
  <2>1. Len(Pad(m)) = Len(e.ct)
    BY <1>3 DEF IsEncryption
  <2>2. Pad(m) \in Seq(Octet)
    BY PadProperties
  <2> QED BY <1>1, <2>1, <2>2 DEF InBlks
<1>5. Encrypted(OpenKey(e, p), e.iv, Pad(m), e.ct, n)
  BY <1>1, <1>3, <1>4, EncryptionBlocks
<1>6. Recovered(OpenKey(e, p), e.iv, Pad(m), e.ct, n)
  BY <1>1, <1>2, <1>4, <1>5, CbcInverse
<1>7. \A i \in 1 .. n : Blk(s, i) = Blk(Pad(m), i)
  BY <1>1, <1>6 DEF Recovered
<1> QED BY <1>1, <1>4, <1>7, EqualBlocks

\* What is enclosed has blocks.
LEMMA EnclosesBlocks ==
  ASSUME NEW e, EnvelopeType(e), NEW p, NEW m \in Seq(Octet), Encloses(e, p, m)
  PROVE  \E n \in Nat \ {0} : InBlks(e.ct, n)
<1>1. Len(Pad(m)) = Len(e.ct)
  BY DEF Encloses, IsEncryption
<1>2. PICK n \in Nat \ {0} : InBlks(Pad(m), n)
  BY PadProperties
<1> QED BY <1>1, <1>2 DEF InBlks, EnvelopeType

-----------------------------------------------------------------------------
(* The inductive invariant.                                                  *)

Control ==
  /\ stage \in {"idle", "check", "cbc", "unpadded"}
  /\ (call = NoCall /\ stage = "idle") \/ call.op \in {"encrypt", "decrypt"}
  /\ stage = "unpadded" => call.op = "decrypt"

\* A decryption gets what has been sealed, or, when nothing has, one of the envelopes.
Arguments ==
  /\ call.op = "encrypt" => call.info \in Infos /\ call.password \in Passwords
  /\ call.op = "decrypt" =>
       /\ call.password \in Passwords
       /\ IF sealed # NoCall THEN call.envelope = sealed.envelope
          ELSE call.envelope \in Envelopes

\* What an encryption returns is an envelope that encloses its message.
SealedProper(s) ==
  /\ s.info \in Infos /\ s.password \in Passwords
  /\ EnvelopeType(s.envelope) /\ Conforming(s.envelope)
  /\ Encloses(s.envelope, s.password, s.info)

Sealed == sealed # NoCall /\ ~(stage = "cbc" /\ call.op = "encrypt") => SealedProper(sealed)

\* An encryption has enciphered the first blocks of the padded message, and ...
Sealing ==
  stage = "cbc" /\ call.op = "encrypt" =>
    \E salt \in Salts, iv \in IVs, q \in Nat :
      /\ EncryptOK
      /\ sealed = [info |-> call.info, password |-> call.password,
                   envelope |-> EncryptEnvelope(salt, iv)]
      /\ key = Pbkdf2(call.password, salt, call.iterations, KeyLen, call.hash)
      /\ InBlks(out, q) /\ After(Pad(call.info), q, data) /\ prev = Prior(iv, out, q + 1)
      /\ Encrypted(key, iv, Pad(call.info), out, q)

\* ... a decryption has deciphered the first blocks of the ciphertext.
Opening ==
  stage = "cbc" /\ call.op = "decrypt" =>
    LET e == call.envelope IN
    /\ EnvelopeOK(e) /\ key = OpenKey(e, call.password)
    /\ \E q \in Nat :
         /\ InBlks(out, q) /\ After(e.ct, q, data) /\ prev = Prior(e.iv, e.ct, q + 1)
         /\ Recovered(key, e.iv, out, e.ct, q)

\* What has lost its padding is, with it, all that the ciphertext is decrypted to.
Opened ==
  stage = "unpadded" =>
    /\ EnvelopeOK(call.envelope) /\ out \in Seq(Octet)
    /\ Opens(call.envelope, call.password, Pad(out))

\* Nothing is written before the loop.
Empty == stage = "check" => out = <<>>

\* The arguments and what each stage has done with them; and what is promised.
IInv ==
  /\ Control /\ Empty /\ Arguments /\ Sealed /\ Sealing /\ Opening /\ Opened
  /\ ReturnsOnlyWhatIsHeld /\ FailsOnlyWhenNothingIsHeld /\ RoundTrip

LEMMA InitIInv == Pbes2Init => IInv
<1>. SUFFICES ASSUME Pbes2Init PROVE IInv
  OBVIOUS
<1>1. call = NoCall /\ call.op = "none" /\ stage = "idle" /\ sealed = NoCall
  BY DEF Pbes2Init, NoCall
<1> QED BY <1>1 DEF IInv, Control, Empty, Arguments, Sealed, Sealing, Opening, Opened, Decrypted,
                    ReturnsOnlyWhatIsHeld, FailsOnlyWhenNothingIsHeld, RoundTrip

\* The fields of an envelope have their types as soon as it is one.
LEMMA DecryptType ==
  ASSUME IInv, call.op = "decrypt", call.envelope.scheme = "pbes2"
  PROVE  EnvelopeType(call.envelope)
<1>1. CASE sealed # NoCall
  BY <1>1 DEF IInv, Arguments, Sealed, SealedProper
<1>2. CASE sealed = NoCall
  <2>1. call.envelope \in Envelopes
    BY <1>2 DEF IInv, Arguments
  <2>2. /\ call.envelope.iv \in Seq(Octet) /\ call.envelope.ct \in Seq(Octet)
        /\ call.envelope.extras \in
             Seq({call.envelope.extras[i] : i \in DOMAIN call.envelope.extras})
    BY <2>1, InputAssumption
  <2>3. call.envelope.salt \in AllSalts
    BY <2>1 DEF AllSalts
  <2>4. Len(call.envelope.extras) \in Nat
    BY <2>2, LenProperties
  <2> QED BY <2>2, <2>3, <2>4 DEF EnvelopeType
<1> QED BY <1>1, <1>2

LEMMA InfoType ==
  ASSUME NEW m \in Infos
  PROVE  m \in Seq(Octet)
BY InputAssumption

\* What has been sealed is enclosed in the envelope that is decrypted.
LEMMA SealedEnclosed ==
  ASSUME IInv, call.op = "decrypt", sealed # NoCall, call.password = sealed.password
  PROVE  /\ Conforming(call.envelope) /\ EnvelopeType(call.envelope)
         /\ Encloses(call.envelope, call.password, sealed.info)
         /\ sealed.info \in Infos
BY DEF IInv, Arguments, Sealed, SealedProper

\* Nothing changes but the stage, which begins.
LEMMA CallIInv ==
  ASSUME IInv, NEW a, Call(a), stage = "idle", call'.op \in {"encrypt", "decrypt"}, Arguments'
  PROVE  IInv'
<1>1. stage' = "check" /\ sealed' = sealed /\ out' = <<>>
  BY DEF Call
<1>2. Control' /\ Empty' /\ Sealing' /\ Opening' /\ Opened'
  BY <1>1 DEF Control, Empty, Sealing, Opening, Opened
<1>3. Sealed'
  BY <1>1 DEF IInv, Sealed
<1>4. ~Decrypted'
  BY <1>1 DEF Decrypted
<1> QED BY <1>2, <1>3, <1>4
        DEF IInv, ReturnsOnlyWhatIsHeld, FailsOnlyWhenNothingIsHeld, RoundTrip

LEMMA CallEncryptIInv == IInv /\ CallEncrypt => IInv'
<1>. SUFFICES ASSUME IInv, CallEncrypt PROVE IInv'
  OBVIOUS
<1>1. call = NoCall /\ stage = "idle"
  BY DEF CallEncrypt, IInv, Control, NoCall
<1>2. PICK m \in Infos, p \in Passwords, i \in Iterations, h \in Prfs :
        Call([op |-> "encrypt", info |-> m, password |-> p, iterations |-> i, hash |-> h])
  BY DEF CallEncrypt
<1>3. call' = [op |-> "encrypt", info |-> m, password |-> p, iterations |-> i, hash |-> h]
  BY <1>2 DEF Call
<1>4. call'.op = "encrypt" /\ Arguments'
  BY <1>3 DEF Arguments
<1> QED BY <1>1, <1>2, <1>4, CallIInv

LEMMA CallDecryptIInv == IInv /\ CallDecrypt => IInv'
<1>. SUFFICES ASSUME IInv, CallDecrypt PROVE IInv'
  OBVIOUS
<1>1. PICK p \in Passwords,
           e \in IF sealed # NoCall THEN {sealed.envelope}
                 ELSE IF call = NoCall THEN Envelopes ELSE {} :
        Call([op |-> "decrypt", password |-> p, envelope |-> e])
  BY DEF CallDecrypt
<1>2. call' = [op |-> "decrypt", password |-> p, envelope |-> e] /\ sealed' = sealed
  BY <1>1 DEF Call
<1>3. call'.op = "decrypt" /\ call'.password = p /\ call'.envelope = e
  BY <1>2
<1>4. Arguments'
  <2>1. IF sealed' # NoCall THEN e = sealed'.envelope ELSE e \in Envelopes
    BY <1>2
  <2> QED BY <1>3, <2>1 DEF Arguments
<1> QED BY <1>1, <1>3, <1>4, CallIInv DEF CallDecrypt

LEMMA RejectEncryptIInv == IInv /\ RejectEncrypt => IInv'
<1>. SUFFICES ASSUME IInv, RejectEncrypt PROVE IInv'
  OBVIOUS
<1>1. /\ stage = "check" /\ call.op = "encrypt" /\ stage' = "idle" /\ UNCHANGED <<call, sealed>>
  BY DEF RejectEncrypt, Fail
<1>2. Control' /\ Empty' /\ Arguments' /\ Sealed' /\ Sealing' /\ Opening' /\ Opened'
  BY <1>1 DEF IInv, Control, Empty, Arguments, Sealed, Sealing, Opening, Opened
<1>3. ~Decrypted'
  BY <1>1 DEF Decrypted
<1> QED BY <1>2, <1>3
        DEF IInv, ReturnsOnlyWhatIsHeld, FailsOnlyWhenNothingIsHeld, RoundTrip

\* A decryption may fail where nothing is held.
LEMMA RejectDecryptIInv ==
  ASSUME IInv, call.op = "decrypt", RejectDecrypt,
         Conforming(call.envelope) =>
           \A m \in Infos : ~Holds(call.envelope, call.password, m)
  PROVE  IInv'
<1>1. stage' = "idle" /\ outcome' = "InvalidKey" /\ UNCHANGED <<call, sealed>>
  BY DEF RejectDecrypt, Fail
<1>2. Control' /\ Empty' /\ Arguments' /\ Sealed' /\ Sealing' /\ Opening' /\ Opened'
  BY <1>1 DEF IInv, Control, Empty, Arguments, Sealed, Sealing, Opening, Opened
<1>3. ReturnsOnlyWhatIsHeld' /\ FailsOnlyWhenNothingIsHeld'
  BY <1>1 DEF ReturnsOnlyWhatIsHeld, FailsOnlyWhenNothingIsHeld
<1>4. RoundTrip'
  <2> SUFFICES ASSUME sealed # NoCall, call.password = sealed.password
               PROVE  ~IsPrivateKeyInfo(sealed.info)
    BY <1>1 DEF RoundTrip
  <2>1. /\ Conforming(call.envelope) /\ sealed.info \in Infos
        /\ Encloses(call.envelope, call.password, sealed.info)
    BY SealedEnclosed
  <2>2. ~Holds(call.envelope, call.password, sealed.info)
    BY <2>1
  <2> QED BY <2>1, <2>2, HoldsEncloses
<1> QED BY <1>2, <1>3, <1>4 DEF IInv

LEMMA RejectEnvelopeIInv == IInv /\ RejectEnvelope => IInv'
<1>. SUFFICES ASSUME IInv, RejectEnvelope PROVE IInv'
  OBVIOUS
<1>1. call.op = "decrypt" /\ ~EnvelopeOK(call.envelope) /\ RejectDecrypt
  BY DEF RejectEnvelope
<1>2. ASSUME Conforming(call.envelope), NEW m \in Infos, Holds(call.envelope, call.password, m)
      PROVE  FALSE
  <2>1. EnvelopeType(call.envelope)
    BY <1>1, <1>2, DecryptType DEF Conforming
  <2>2. Encloses(call.envelope, call.password, m) /\ m \in Seq(Octet)
    BY <1>2, HoldsEncloses, InfoType
  <2>3. PICK n \in Nat \ {0} : InBlks(call.envelope.ct, n)
    BY <2>1, <2>2, EnclosesBlocks
  <2> QED BY <1>1, <1>2, <2>1, <2>3, ConformingOK
<1> QED BY <1>1, <1>2, RejectDecryptIInv

\* At its end the loop of a decryption has opened the envelope.
LEMMA OpensAtEnd ==
  ASSUME IInv, stage = "cbc", call.op = "decrypt", data = <<>>
  PROVE  /\ EnvelopeOK(call.envelope) /\ EnvelopeType(call.envelope)
         /\ call.password \in Passwords
         /\ Opens(call.envelope, call.password, out)
         /\ \E n \in Nat \ {0} : InBlks(out, n)
<1> DEFINE e == call.envelope
           p == call.password
<1>1. EnvelopeOK(e) /\ key = OpenKey(e, p) /\ p \in Passwords
  BY DEF IInv, Opening, Arguments
<1>2. EnvelopeType(e)
  BY <1>1, DecryptType DEF EnvelopeOK
<1>3. PICK q \in Nat : InBlks(out, q) /\ After(e.ct, q, data) /\ Recovered(key, e.iv, out, e.ct, q)
  BY DEF IInv, Opening
<1>4. PICK n \in Nat \ {0} : InBlks(e.ct, n)
  BY <1>1, <1>2, EnvelopeOKProperties
<1>5. q = n
  BY <1>3, <1>4, AfterAll
<1>6. Opens(e, p, out)
  BY <1>1, <1>3, <1>4, <1>5 DEF Opens
<1> QED BY <1>1, <1>2, <1>3, <1>5, <1>6

LEMMA RejectPaddingIInv == IInv /\ RejectPadding => IInv'
<1>. SUFFICES ASSUME IInv, RejectPadding PROVE IInv'
  OBVIOUS
<1>1. /\ stage = "cbc" /\ call.op = "decrypt" /\ data = <<>> /\ ~PaddingOK(out)
      /\ RejectDecrypt
  BY DEF RejectPadding
<1>2. ASSUME NEW m \in Infos, Holds(call.envelope, call.password, m) PROVE FALSE
  <2>1. Encloses(call.envelope, call.password, m) /\ m \in Seq(Octet)
    BY <1>2, HoldsEncloses, InfoType
  <2>2. out = Pad(m)
    BY <1>1, <2>1, OpensAtEnd, OpensComplete
  <2> QED BY <1>1, <2>1, <2>2, UnpadPad
<1> QED BY <1>1, <1>2, RejectDecryptIInv

\* What has lost its padding is enclosed in the envelope, and the only such message.
LEMMA OpenedProperties ==
  ASSUME IInv, stage = "unpadded"
  PROVE  /\ Encloses(call.envelope, call.password, out)
         /\ \A m \in Infos : Encloses(call.envelope, call.password, m) => m = out
<1> DEFINE e == call.envelope
           p == call.password
<1>1. call.op = "decrypt" /\ p \in Passwords /\ EnvelopeOK(e) /\ out \in Seq(Octet)
      /\ Opens(e, p, Pad(out))
  BY DEF IInv, Control, Arguments, Opened
<1>2. EnvelopeType(e)
  BY <1>1, DecryptType DEF EnvelopeOK
<1>3. PaddingOK(Pad(out)) /\ Unpadded(Pad(out)) = out
  BY <1>1, UnpadPad
<1>4. Encloses(e, p, out)
  <2>1. Encloses(e, p, Unpadded(Pad(out)))
    BY <1>1, <1>2, <1>3, OpensSound
  <2> QED BY <1>3, <2>1
<1>5. ASSUME NEW m \in Infos, Encloses(e, p, m) PROVE m = out
  <2>1. m \in Seq(Octet)
    BY InfoType
  <2>2. Pad(out) = Pad(m)
    BY <1>1, <1>2, <1>5, <2>1, OpensComplete
  <2>3. Unpadded(Pad(m)) = m
    BY <2>1, UnpadPad
  <2> QED BY <1>3, <2>2, <2>3
<1> QED BY <1>4, <1>5

LEMMA RejectInfoIInv == IInv /\ RejectInfo => IInv'
<1>. SUFFICES ASSUME IInv, RejectInfo PROVE IInv'
  OBVIOUS
<1>1. stage = "unpadded" /\ ~IsPrivateKeyInfo(out) /\ RejectDecrypt /\ call.op = "decrypt"
  BY DEF RejectInfo, IInv, Control
<1>2. \A m \in Infos : ~Holds(call.envelope, call.password, m)
  BY <1>1, OpenedProperties, HoldsEncloses
<1> QED BY <1>1, <1>2, RejectDecryptIInv

LEMMA ReturnInfoIInv == IInv /\ ReturnInfo => IInv'
<1>. SUFFICES ASSUME IInv, ReturnInfo PROVE IInv'
  OBVIOUS
<1>1. /\ stage = "unpadded" /\ IsPrivateKeyInfo(out) /\ call.op = "decrypt"
      /\ stage' = "idle" /\ outcome' = "returned" /\ UNCHANGED <<call, out, sealed>>
  BY DEF ReturnInfo, IInv, Control
<1>2. Control' /\ Empty' /\ Arguments' /\ Sealed' /\ Sealing' /\ Opening' /\ Opened'
  BY <1>1 DEF IInv, Control, Empty, Arguments, Sealed, Sealing, Opening, Opened
<1>3. Holds(call.envelope, call.password, out)
  BY <1>1, OpenedProperties, HoldsEncloses
<1>4. ReturnsOnlyWhatIsHeld' /\ FailsOnlyWhenNothingIsHeld'
  BY <1>1, <1>3 DEF ReturnsOnlyWhatIsHeld, FailsOnlyWhenNothingIsHeld
<1>5. RoundTrip'
  <2> SUFFICES ASSUME sealed # NoCall, call.password = sealed.password
               PROVE  out = sealed.info
    BY <1>1 DEF RoundTrip
  <2> QED BY <1>1, SealedEnclosed, OpenedProperties
<1> QED BY <1>2, <1>4, <1>5 DEF IInv

LEMMA UnpadIInv == IInv /\ Unpad => IInv'
<1>. SUFFICES ASSUME IInv, Unpad PROVE IInv'
  OBVIOUS
<1>1. /\ stage = "cbc" /\ call.op = "decrypt" /\ data = <<>> /\ PaddingOK(out)
      /\ stage' = "unpadded" /\ out' = Unpadded(out) /\ UNCHANGED <<call, sealed>>
  BY DEF Unpad
<1>2. Control' /\ Empty' /\ Arguments' /\ Sealed' /\ Sealing' /\ Opening'
  BY <1>1 DEF IInv, Control, Empty, Arguments, Sealed, Sealing, Opening
<1>3. /\ EnvelopeOK(call.envelope) /\ Opens(call.envelope, call.password, out)
      /\ \E n \in Nat \ {0} : InBlks(out, n)
  BY <1>1, OpensAtEnd
<1>4. Unpadded(out) \in Seq(Octet) /\ Pad(Unpadded(out)) = out
  BY <1>1, <1>3, PadUnpad
<1>5. Opened'
  BY <1>1, <1>3, <1>4 DEF Opened
<1>6. ~Decrypted'
  BY <1>1 DEF Decrypted
<1> QED BY <1>2, <1>5, <1>6
        DEF IInv, ReturnsOnlyWhatIsHeld, FailsOnlyWhenNothingIsHeld, RoundTrip

LEMMA BeginEncryptIInv == IInv /\ BeginEncrypt => IInv'
<1>. SUFFICES ASSUME IInv, BeginEncrypt PROVE IInv'
  OBVIOUS
<1>1. PICK salt \in Salts, iv \in IVs :
        /\ Begin(Pbkdf2(call.password, salt, call.iterations, KeyLen, call.hash),
                 iv, Pad(call.info))
        /\ sealed' = [info |-> call.info, password |-> call.password,
                      envelope |-> EncryptEnvelope(salt, iv)]
  BY DEF BeginEncrypt
<1>2. /\ stage = "check" /\ call.op = "encrypt" /\ EncryptOK /\ call' = call
      /\ stage' = "cbc" /\ prev' = iv /\ data' = Pad(call.info) /\ out' = out
      /\ key' = Pbkdf2(call.password, salt, call.iterations, KeyLen, call.hash)
  BY <1>1 DEF BeginEncrypt, Begin
<1>3. out = <<>>
  BY <1>2 DEF IInv, Empty
<1>4. Control' /\ Empty' /\ Arguments' /\ Sealed' /\ Opening' /\ Opened'
  BY <1>2 DEF IInv, Control, Empty, Arguments, Sealed, Opening, Opened
<1>5. Sealing'
  <2>1. InBlks(<<>>, 0)
    BY NoBlocks
  <2>2. After(Pad(call.info), 0, Pad(call.info))
    <3>1. call.info \in Seq(Octet)
      BY <1>2, InfoType DEF IInv, Arguments
    <3> QED BY <3>1, PadProperties, AfterNone
  <2>3. Prior(iv, <<>>, 0 + 1) = iv
    BY DEF Prior
  <2>4. Encrypted(key', iv, Pad(call.info), <<>>, 0)
    BY DEF Encrypted
  <2>5. EncryptOK' /\ EncryptEnvelope(salt, iv)' = EncryptEnvelope(salt, iv)
    BY <1>2 DEF EncryptOK, EncryptEnvelope
  <2>6. 0 \in Nat
    OBVIOUS
  <2> QED BY <1>1, <1>2, <1>3, <2>1, <2>2, <2>3, <2>4, <2>5, <2>6, Zenon DEF Sealing
<1>6. ~Decrypted'
  BY <1>2 DEF Decrypted
<1> QED BY <1>4, <1>5, <1>6
        DEF IInv, ReturnsOnlyWhatIsHeld, FailsOnlyWhenNothingIsHeld, RoundTrip

LEMMA BeginDecryptIInv == IInv /\ BeginDecrypt => IInv'
<1>. SUFFICES ASSUME IInv, BeginDecrypt PROVE IInv'
  OBVIOUS
<1> DEFINE e == call.envelope
<1>1. /\ stage = "check" /\ call.op = "decrypt" /\ EnvelopeOK(e) /\ call' = call
      /\ sealed' = sealed /\ stage' = "cbc" /\ prev' = e.iv /\ data' = e.ct /\ out' = out
      /\ key' = OpenKey(e, call.password)
  BY DEF BeginDecrypt, Begin, DecryptKey, OpenKey
<1>2. out = <<>>
  BY <1>1 DEF IInv, Empty
<1>3. Control' /\ Empty' /\ Arguments' /\ Sealed' /\ Sealing' /\ Opened'
  BY <1>1 DEF IInv, Control, Empty, Arguments, Sealed, Sealing, Opened
<1>4. Opening'
  <2>1. InBlks(<<>>, 0)
    BY NoBlocks
  <2>2. After(e.ct, 0, e.ct)
    <3>1. EnvelopeType(e)
      BY <1>1, DecryptType DEF EnvelopeOK
    <3> QED BY <3>1, AfterNone DEF EnvelopeType
  <2>3. Prior(e.iv, e.ct, 0 + 1) = e.iv
    BY DEF Prior
  <2>4. Recovered(key', e.iv, <<>>, e.ct, 0)
    BY DEF Recovered
  <2>5. 0 \in Nat
    OBVIOUS
  <2> QED BY <1>1, <1>2, <2>1, <2>2, <2>3, <2>4, <2>5, Zenon DEF Opening
<1>5. ~Decrypted'
  BY <1>1 DEF Decrypted
<1> QED BY <1>3, <1>4, <1>5
        DEF IInv, ReturnsOnlyWhatIsHeld, FailsOnlyWhenNothingIsHeld, RoundTrip

\* The key of an encryption is one of the cipher's.
LEMMA SealKey ==
  ASSUME NEW salt \in Salts, NEW p \in Passwords, EncryptOK
  PROVE  Pbkdf2(p, salt, call.iterations, KeyLen, call.hash) \in Keys
<1>1. /\ salt \in AllSalts /\ call.iterations \in 1 .. MaxIterations /\ call.hash \in Prfs
      /\ "aes256" \in DOMAIN CipherKeyLen /\ CipherKeyLen["aes256"] = KeyLen
  BY DEF EncryptOK, AllSalts, Prfs, CipherKeyLen, KeyLen
<1>. HIDE DEF Prfs, CipherKeyLen, KeyLen
<1>2. Pbkdf2(p, salt, call.iterations, CipherKeyLen["aes256"], call.hash) \in Keys
  BY <1>1, KeyAssumption DEF AllSalts
<1> QED BY <1>1, <1>2

LEMMA EncryptStepIInv == IInv /\ EncryptStep => IInv'
<1>. SUFFICES ASSUME IInv, EncryptStep PROVE IInv'
  OBVIOUS
<1>1. /\ stage = "cbc" /\ call.op = "encrypt" /\ data # <<>>
      /\ prev' = EncryptBlock(key, XorBlock(NextBlock, prev))
      /\ out' = out \o prev' /\ data' = Rest
      /\ call' = call /\ stage' = stage /\ key' = key /\ sealed' = sealed
  BY DEF EncryptStep
<1>2. PICK salt \in Salts, iv \in IVs, q \in Nat :
        /\ EncryptOK
        /\ sealed = [info |-> call.info, password |-> call.password,
                     envelope |-> EncryptEnvelope(salt, iv)]
        /\ key = Pbkdf2(call.password, salt, call.iterations, KeyLen, call.hash)
        /\ InBlks(out, q) /\ After(Pad(call.info), q, data) /\ prev = Prior(iv, out, q + 1)
        /\ Encrypted(key, iv, Pad(call.info), out, q)
  BY <1>1 DEF IInv, Sealing
<1>3. Control' /\ Empty' /\ Arguments' /\ Sealed' /\ Opening' /\ Opened' /\ ~Decrypted'
  BY <1>1 DEF IInv, Control, Empty, Arguments, Sealed, Opening, Opened, Decrypted
<1>4. call.info \in Seq(Octet) /\ call.password \in Passwords
  BY <1>1, InfoType DEF IInv, Arguments
<1>5. PICK n \in Nat \ {0} : InBlks(Pad(call.info), n)
  BY <1>4, PadProperties
<1>6. /\ q + 1 \in 1 .. n /\ NextBlock = Blk(Pad(call.info), q + 1)
      /\ After(Pad(call.info), q + 1, Rest)
  BY <1>1, <1>2, <1>5, AfterNext DEF NextBlock, Rest
<1>7. prev' \in Blocks
  <2>1. NextBlock \in Blocks
    BY <1>5, <1>6, BlkType
  <2>2. prev \in Blocks
    <3>1. iv \in Blocks
      BY InputAssumption
    <3> QED BY <1>2, <3>1, PriorNext
  <2>3. XorBlock(NextBlock, prev) \in Blocks
    BY <2>1, <2>2, XorProperties
  <2>4. key \in Keys
    BY <1>2, <1>4, SealKey
  <2> QED BY <1>1, <2>3, <2>4, CipherAssumption
<1>8. InBlks(out', q + 1)
  BY <1>1, <1>2, <1>7, BlkAppended
<1>9. Encrypted(key, iv, Pad(call.info), out', q + 1) /\ Prior(iv, out', (q + 1) + 1) = prev'
  <2>1. prev' = EncryptBlock(key, XorBlock(Blk(Pad(call.info), q + 1), Prior(iv, out, q + 1)))
    <3>1. prev' = EncryptBlock(key, XorBlock(NextBlock, prev))
      BY <1>1
    <3>2. NextBlock = Blk(Pad(call.info), q + 1) /\ prev = Prior(iv, out, q + 1)
      BY <1>2, <1>6
    <3> QED BY <3>1, <3>2
  <2>2. PICK b \in Blocks : b = prev'
    BY <1>7
  <2>3. out' = out \o b
    BY <1>1, <2>2
  <2>4. InBlks(out, q) /\ Encrypted(key, iv, Pad(call.info), out, q)
    BY <1>2
  <2>5. b = EncryptBlock(key, XorBlock(Blk(Pad(call.info), q + 1), Prior(iv, out, q + 1)))
    BY <2>1, <2>2
  <2>6. Encrypted(key, iv, Pad(call.info), out \o b, q + 1) /\ Prior(iv, out \o b, (q + 1) + 1) = b
    BY <2>4, <2>5, EncryptedNext
  <2> QED BY <2>2, <2>3, <2>6
<1>10. Sealing'
  <2>1. EncryptOK' /\ EncryptEnvelope(salt, iv)' = EncryptEnvelope(salt, iv)
    BY <1>1, <1>2 DEF EncryptOK, EncryptEnvelope
  <2>2. q + 1 \in Nat
    OBVIOUS
  <2> QED BY <1>1, <1>2, <1>6, <1>8, <1>9, <2>1, <2>2, Zenon DEF Sealing
<1> QED BY <1>3, <1>10
        DEF IInv, ReturnsOnlyWhatIsHeld, FailsOnlyWhenNothingIsHeld, RoundTrip

LEMMA DecryptStepIInv == IInv /\ DecryptStep => IInv'
<1>. SUFFICES ASSUME IInv, DecryptStep PROVE IInv'
  OBVIOUS
<1> DEFINE e == call.envelope
           b == XorBlock(DecryptBlock(key, NextBlock), prev)
<1>1. /\ stage = "cbc" /\ call.op = "decrypt" /\ data # <<>>
      /\ out' = out \o b /\ prev' = NextBlock /\ data' = Rest
      /\ call' = call /\ stage' = stage /\ key' = key /\ sealed' = sealed
  BY DEF DecryptStep, Chain
<1>2. /\ EnvelopeOK(e) /\ key = OpenKey(e, call.password)
      /\ \E q \in Nat :
           /\ InBlks(out, q) /\ After(e.ct, q, data) /\ prev = Prior(e.iv, e.ct, q + 1)
           /\ Recovered(key, e.iv, out, e.ct, q)
  BY <1>1 DEF IInv, Opening
<1>3. Control' /\ Empty' /\ Arguments' /\ Sealed' /\ Sealing' /\ Opened' /\ ~Decrypted'
  BY <1>1 DEF IInv, Control, Empty, Arguments, Sealed, Sealing, Opened, Decrypted
<1>4. EnvelopeType(e) /\ call.password \in Passwords
  BY <1>1, <1>2, DecryptType DEF EnvelopeOK, IInv, Arguments
<1>5. e.iv \in Blocks /\ key \in Keys /\ \E n \in Nat \ {0} : InBlks(e.ct, n)
  BY <1>2, <1>4, EnvelopeOKProperties
<1>6. PICK q \in Nat :
        /\ InBlks(out, q) /\ After(e.ct, q, data) /\ prev = Prior(e.iv, e.ct, q + 1)
        /\ Recovered(key, e.iv, out, e.ct, q)
  BY <1>2
<1>7. PICK n \in Nat \ {0} : InBlks(e.ct, n)
  BY <1>5
<1>8. q + 1 \in 1 .. n /\ NextBlock = Blk(e.ct, q + 1) /\ After(e.ct, q + 1, Rest)
  BY <1>1, <1>6, <1>7, AfterNext DEF NextBlock, Rest
<1>9. b \in Blocks
  <2>1. NextBlock \in Blocks
    BY <1>7, <1>8, BlkType
  <2>2. prev \in Blocks
    BY <1>5, <1>6, <1>7, <1>8, PriorType
  <2>3. DecryptBlock(key, NextBlock) \in Blocks
    BY <1>5, <2>1, CipherAssumption
  <2> QED BY <2>2, <2>3, XorProperties
<1>10. b = XorBlock(DecryptBlock(key, Blk(e.ct, q + 1)), Prior(e.iv, e.ct, q + 1))
  BY <1>6, <1>8
<1>. HIDE DEF b, e
<1>11. InBlks(out', q + 1)
  BY <1>1, <1>6, <1>9, BlkAppended
<1>12. Recovered(key, e.iv, out', e.ct, q + 1) /\ Prior(e.iv, e.ct, (q + 1) + 1) = prev'
  <2>1. /\ Recovered(key, e.iv, out \o b, e.ct, q + 1)
        /\ Prior(e.iv, e.ct, (q + 1) + 1) = Blk(e.ct, q + 1)
    BY <1>6, <1>9, <1>10, RecoveredNext
  <2> QED BY <1>1, <1>8, <2>1
<1>13. Opening'
  <2>1. q + 1 \in Nat
    OBVIOUS
  <2> QED BY <1>1, <1>2, <1>8, <1>11, <1>12, <2>1, Zenon DEF Opening, e
<1> QED BY <1>3, <1>13
        DEF IInv, ReturnsOnlyWhatIsHeld, FailsOnlyWhenNothingIsHeld, RoundTrip

\* The elements that an encryption writes name its key length and its hash.
LEMMA SealedExtras ==
  ASSUME NEW e, NEW h \in Prfs, e.cipher = "aes256",
         e.extras = <<[kind |-> "integer", value |-> KeyLen], [kind |-> "prf", name |-> h]>>
  PROVE  /\ KeySize(e) = KeyLen /\ e.cipher \in DOMAIN CipherKeyLen
         /\ HashOf(e, h) /\ Len(e.extras) \in Nat
         /\ e.extras \in {<<[kind |-> "integer", value |-> KeySize(e)]>> \o p :
                            p \in {<<[kind |-> "prf", name |-> g]>> : g \in Prfs}}
<1> DEFINE x == [kind |-> "integer", value |-> KeyLen]
           y == [kind |-> "prf", name |-> h]
<1>1. KeySize(e) = KeyLen /\ e.cipher \in DOMAIN CipherKeyLen
  BY DEF KeySize, CipherKeyLen, KeyLen
<1>2. Prf(y) /\ y.name = h
  BY DEF Prf
<1>3. e.extras = <<x, y>>
  OBVIOUS
<1>4. <<x>> \o <<y>> = <<x, y>>
  BY PairConcat
<1>5. e.extras \in {<<[kind |-> "integer", value |-> KeySize(e)]>> \o p :
                      p \in {<<[kind |-> "prf", name |-> g]>> : g \in Prfs}}
  BY <1>1, <1>3, <1>4
<1>. HIDE DEF x, y
<1>6. Len(e.extras) = 2 /\ e.extras[2] = y
  BY <1>3
<1>7. HashOf(e, h)
  <2>1. 2 \in 1 .. Len(e.extras) /\ \A j \in 2 + 1 .. Len(e.extras) : FALSE
    BY <1>6
  <2> QED BY <1>2, <1>6, <2>1 DEF HashOf
<1> QED BY <1>1, <1>5, <1>6, <1>7

LEMMA ReturnEnvelopeIInv == IInv /\ ReturnEnvelope => IInv'
<1>. SUFFICES ASSUME IInv, ReturnEnvelope PROVE IInv'
  OBVIOUS
<1>1. /\ stage = "cbc" /\ call.op = "encrypt" /\ data = <<>> /\ stage' = "idle"
      /\ sealed' = [sealed EXCEPT !.envelope.ct = out] /\ UNCHANGED call
  BY DEF ReturnEnvelope
<1>2. PICK salt \in Salts, iv \in IVs, q \in Nat :
        /\ EncryptOK
        /\ sealed = [info |-> call.info, password |-> call.password,
                     envelope |-> EncryptEnvelope(salt, iv)]
        /\ key = Pbkdf2(call.password, salt, call.iterations, KeyLen, call.hash)
        /\ InBlks(out, q) /\ After(Pad(call.info), q, data)
        /\ Encrypted(key, iv, Pad(call.info), out, q)
  BY <1>1 DEF IInv, Sealing
<1>3. call.info \in Infos /\ call.info \in Seq(Octet) /\ call.password \in Passwords
  BY <1>1, InfoType DEF IInv, Arguments
<1> DEFINE e == sealed'.envelope
<1>4. /\ sealed'.info = call.info /\ sealed'.password = call.password
      /\ e.scheme = "pbes2" /\ e.kdf = "pbkdf2" /\ e.salt = salt /\ e.cipher = "aes256"
      /\ e.iterations = call.iterations /\ e.iv = iv /\ e.ct = out
      /\ e.extras = <<[kind |-> "integer", value |-> KeyLen], [kind |-> "prf", name |-> call.hash]>>
  BY <1>1, <1>2 DEF EncryptEnvelope
<1>. HIDE DEF e
<1>5. call.hash \in Prfs /\ call.iterations \in 1 .. MaxIterations
  BY <1>2 DEF EncryptOK, Prfs
<1>6. /\ KeySize(e) = KeyLen /\ e.cipher \in DOMAIN CipherKeyLen
      /\ HashOf(e, call.hash) /\ Len(e.extras) \in Nat
      /\ e.extras \in {<<[kind |-> "integer", value |-> KeySize(e)]>> \o p :
                         p \in {<<[kind |-> "prf", name |-> g]>> : g \in Prfs}}
  BY <1>4, <1>5, SealedExtras
<1>7. iv \in Seq(Octet) /\ Len(iv) = BlockSize
  <2>1. iv \in [1 .. BlockSize -> Octet] /\ BlockSize \in Nat
    BY InputAssumption, BlockSizeType DEF Blocks
  <2>2. iv \in Seq(Octet)
    BY <2>1, SeqDef
  <2> QED BY <2>1, <2>2, LenProperties
<1>8. EnvelopeType(e)
  BY <1>2, <1>4, <1>6, <1>7 DEF EnvelopeType, InBlks, AllSalts
<1>9. Conforming(e)
  <2>. HIDE DEF Prfs
  <2> QED BY <1>4, <1>5, <1>6, <1>7 DEF Conforming
<1>10. Encloses(e, call.password, call.info)
  <2>1. PICK n \in Nat \ {0} : InBlks(Pad(call.info), n)
    BY <1>3, PadProperties
  <2>2. q = n
    BY <1>1, <1>2, <2>1, AfterAll
  <2>3. IsEncryption(e, key, call.info)
    <3>1. Encrypted(key, e.iv, Pad(call.info), e.ct, n) /\ InBlks(e.ct, n)
      BY <1>2, <1>4, <2>2
    <3> QED BY <2>1, <3>1, EncryptionBlocks
  <2>4. key = Pbkdf2(call.password, e.salt, e.iterations, KeySize(e), call.hash)
    BY <1>2, <1>4, <1>6
  <2> QED BY <1>5, <1>6, <2>3, <2>4 DEF Encloses
<1>11. Sealed'
  <2>1. SealedProper(sealed')
    BY <1>3, <1>4, <1>8, <1>9, <1>10 DEF SealedProper, e
  <2> QED BY <2>1 DEF Sealed
<1>12. Control' /\ Empty' /\ Arguments' /\ Sealing' /\ Opening' /\ Opened' /\ ~Decrypted'
  BY <1>1 DEF IInv, Control, Empty, Arguments, Sealing, Opening, Opened, Decrypted
<1> QED BY <1>11, <1>12
        DEF IInv, ReturnsOnlyWhatIsHeld, FailsOnlyWhenNothingIsHeld, RoundTrip

LEMMA UnchangedIInv == IInv /\ UNCHANGED pbes2Vars => IInv'
<1>. SUFFICES ASSUME IInv, UNCHANGED pbes2Vars PROVE IInv'
  OBVIOUS
<1>1. UNCHANGED <<call, stage, key, prev, data, out, outcome, sealed>>
  BY DEF pbes2Vars
<1>2. Control' /\ Empty' /\ Arguments' /\ Sealed' /\ Opened'
  BY <1>1 DEF IInv, Control, Empty, Arguments, Sealed, Opened
<1>3. Sealing'
  BY <1>1, Zenon DEF IInv, Sealing, EncryptOK, EncryptEnvelope
<1>4. Opening'
  BY <1>1, Zenon DEF IInv, Opening
<1>5. ReturnsOnlyWhatIsHeld' /\ FailsOnlyWhenNothingIsHeld' /\ RoundTrip'
  BY <1>1 DEF IInv, Decrypted, ReturnsOnlyWhatIsHeld, FailsOnlyWhenNothingIsHeld, RoundTrip
<1> QED BY <1>2, <1>3, <1>4, <1>5 DEF IInv

-----------------------------------------------------------------------------
(* The theorems.                                                             *)

\* The loops of cbc_encrypt and cbc_decrypt, the padding and the calls keep the invariant.
THEOREM InvariantCorrect == Pbes2Spec => []IInv
<1>1. Pbes2Init => IInv
  BY InitIInv
<1>2. IInv /\ [Pbes2Next]_pbes2Vars => IInv'
  <2> SUFFICES ASSUME IInv, [Pbes2Next]_pbes2Vars PROVE IInv'
    OBVIOUS
  <2>1. CASE CallEncrypt
    BY <2>1, CallEncryptIInv
  <2>2. CASE CallDecrypt
    BY <2>2, CallDecryptIInv
  <2>3. CASE RejectEncrypt
    BY <2>3, RejectEncryptIInv
  <2>4. CASE BeginEncrypt
    BY <2>4, BeginEncryptIInv
  <2>5. CASE EncryptStep
    BY <2>5, EncryptStepIInv
  <2>6. CASE ReturnEnvelope
    BY <2>6, ReturnEnvelopeIInv
  <2>7. CASE RejectEnvelope
    BY <2>7, RejectEnvelopeIInv
  <2>8. CASE BeginDecrypt
    BY <2>8, BeginDecryptIInv
  <2>9. CASE DecryptStep
    BY <2>9, DecryptStepIInv
  <2>10. CASE RejectPadding
    BY <2>10, RejectPaddingIInv
  <2>11. CASE Unpad
    BY <2>11, UnpadIInv
  <2>12. CASE RejectInfo
    BY <2>12, RejectInfoIInv
  <2>13. CASE ReturnInfo
    BY <2>13, ReturnInfoIInv
  <2>14. CASE UNCHANGED pbes2Vars
    BY <2>14, UnchangedIInv
  <2> QED BY <2>1, <2>2, <2>3, <2>4, <2>5, <2>6, <2>7, <2>8, <2>9, <2>10, <2>11, <2>12,
             <2>13, <2>14 DEF Pbes2Next, Step
<1> QED BY <1>1, <1>2, PTL DEF Pbes2Spec

\* What pbes2_decrypt returns is a PrivateKeyInfo whose encryption is the envelope.
THEOREM ReturnsOnlyWhatIsHeldCorrect == Pbes2Spec => []ReturnsOnlyWhatIsHeld
<1>1. IInv => ReturnsOnlyWhatIsHeld
  BY DEF IInv
<1> QED BY <1>1, InvariantCorrect, PTL

\* Where pbes2_decrypt raises InvalidKey, a conforming envelope holds nothing.
THEOREM FailsOnlyWhenNothingIsHeldCorrect == Pbes2Spec => []FailsOnlyWhenNothingIsHeld
<1>1. IInv => FailsOnlyWhenNothingIsHeld
  BY DEF IInv
<1> QED BY <1>1, InvariantCorrect, PTL

\* pbes2_decrypt is the inverse of pbes2_encrypt.
THEOREM RoundTripCorrect == Pbes2Spec => []RoundTrip
<1>1. IInv => RoundTrip
  BY DEF IInv
<1> QED BY <1>1, InvariantCorrect, PTL
=============================================================================
