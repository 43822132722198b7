----------------------------- MODULE StreamProofs -----------------------------
(***************************************************************************)
(* Proofs about what is made from a stream of octets.  The authenticated   *)
(* ciphers: for every block function, every size of the blocks, the counter*)
(* and the tags, and all messages.  The samplers of ML-KEM and ML-DSA: for *)
(* streams of all lengths, every step by which the prefix grows and every  *)
(* number of coefficients.                                                 *)
(***************************************************************************)
EXTENDS Aead, Xof, FiniteSetTheorems, SequenceTheorems, WellFoundedInduction, TLAPS

-----------------------------------------------------------------------------
(* The octets that are authenticated.                                        *)

PadLen(s) == (-Len(s)) % MacLen

\* Padding appends a number of octets and changes none.
LEMMA PadProperties ==
  ASSUME NEW s \in Seq(Byte)
  PROVE  /\ Pad(s) \in Seq(Byte)
         /\ PadLen(s) \in Nat
         /\ Len(Pad(s)) = Len(s) + PadLen(s)
         /\ \A i \in 1 .. Len(s) : Pad(s)[i] = s[i]
<1> DEFINE z == [k \in 1 .. PadLen(s) |-> Zero]
<1>1. Len(s) \in Nat
  BY LenProperties
<1>2. PadLen(s) \in Nat
  BY <1>1, SizeAssumption, SMT DEF PadLen
<1>3. z \in Seq(Byte) /\ Len(z) = PadLen(s)
  <2>1. z \in [1 .. PadLen(s) -> Byte]
    BY ByteAssumption
  <2>2. z \in Seq(Byte)
    BY <2>1, <1>2, SeqDef
  <2>. QED BY <2>1, <2>2, <1>2, LenProperties
<1>4. Pad(s) = s \o z
  BY DEF Pad, PadLen
<1>. HIDE DEF z
<1>5. /\ s \o z \in Seq(Byte)
      /\ Len(s \o z) = Len(s) + Len(z)
      /\ \A i \in 1 .. Len(s) + Len(z) :
           (s \o z)[i] = IF i <= Len(s) THEN s[i] ELSE z[i - Len(s)]
  BY <1>3, ConcatProperties
<1>. QED
  BY <1>1, <1>2, <1>3, <1>4, <1>5

\* Where the parts of the authenticated octets are.
LEMMA MacDataElements ==
  ASSUME NEW a \in Seq(Byte), NEW c \in Seq(Byte)
  PROVE  /\ Len(MacData(a, c)) = Len(Pad(a)) + Len(Pad(c)) + 2
         /\ MacData(a, c)[Len(Pad(a)) + Len(Pad(c)) + 1] = Len(a)
         /\ MacData(a, c)[Len(Pad(a)) + Len(Pad(c)) + 2] = Len(c)
         /\ \A i \in 1 .. Len(a) : MacData(a, c)[i] = a[i]
         /\ \A i \in 1 .. Len(c) : MacData(a, c)[Len(Pad(a)) + i] = c[i]
<1> DEFINE Item == Byte \cup Nat
           p == Pad(a)
           q == Pad(c)
           t == <<Len(a), Len(c)>>
<1>1. /\ p \in Seq(Byte) /\ q \in Seq(Byte)
      /\ Len(a) \in Nat /\ Len(c) \in Nat /\ Len(p) \in Nat /\ Len(q) \in Nat
      /\ Len(a) <= Len(p) /\ Len(c) <= Len(q)
      /\ \A i \in 1 .. Len(a) : p[i] = a[i]
      /\ \A i \in 1 .. Len(c) : q[i] = c[i]
  <2>1. Len(a) \in Nat /\ Len(c) \in Nat
    BY LenProperties
  <2>2. /\ p \in Seq(Byte) /\ PadLen(a) \in Nat /\ Len(p) = Len(a) + PadLen(a)
        /\ \A i \in 1 .. Len(a) : p[i] = a[i]
    BY PadProperties
  <2>3. /\ q \in Seq(Byte) /\ PadLen(c) \in Nat /\ Len(q) = Len(c) + PadLen(c)
        /\ \A i \in 1 .. Len(c) : q[i] = c[i]
    BY PadProperties
  <2>. HIDE DEF p, q
  <2>. QED BY <2>1, <2>2, <2>3
<1>2. p \in Seq(Item) /\ q \in Seq(Item)
  BY <1>1
<1>3. t \in Seq(Item) /\ Len(t) = 2 /\ t[1] = Len(a) /\ t[2] = Len(c)
  BY <1>1
<1>4. MacData(a, c) = (p \o q) \o t
  BY DEF MacData
<1>. HIDE DEF p, q, t, Item
<1>5. /\ p \o q \in Seq(Item)
      /\ Len(p \o q) = Len(p) + Len(q)
      /\ \A i \in 1 .. Len(p) + Len(q) :
           (p \o q)[i] = IF i <= Len(p) THEN p[i] ELSE q[i - Len(p)]
  BY <1>2, ConcatProperties
<1> DEFINE pq == p \o q
<1>. HIDE DEF pq
<1>14. pq \in Seq(Item) /\ t \in Seq(Item)
  BY <1>3, <1>5 DEF pq
<1>6. /\ Len(pq \o t) = Len(pq) + Len(t)
      /\ \A i \in 1 .. Len(pq) + Len(t) :
           (pq \o t)[i] = IF i <= Len(pq) THEN pq[i] ELSE t[i - Len(pq)]
  BY <1>14, ConcatProperties
<1>7. MacData(a, c) = pq \o t
  BY <1>4 DEF pq
<1>8. Len(pq) = Len(p) + Len(q)
  BY <1>5 DEF pq
<1>9. \A i \in 1 .. Len(p) + Len(q) : pq[i] = IF i <= Len(p) THEN p[i] ELSE q[i - Len(p)]
  BY <1>5 DEF pq
<1>10. /\ (pq \o t)[Len(p) + Len(q) + 1] = t[1]
       /\ (pq \o t)[Len(p) + Len(q) + 2] = t[2]
  BY <1>1, <1>3, <1>6, <1>8
<1>11. ASSUME NEW i \in 1 .. Len(a) PROVE (pq \o t)[i] = a[i]
  <2>1. i \in 1 .. Len(p) + Len(q) /\ i <= Len(p)
    BY <1>1
  <2>2. (pq \o t)[i] = pq[i]
    BY <2>1, <1>1, <1>3, <1>6, <1>8
  <2>. QED BY <2>1, <2>2, <1>1, <1>9
<1>12. ASSUME NEW i \in 1 .. Len(c) PROVE (pq \o t)[Len(p) + i] = c[i]
  <2>1. /\ Len(p) + i \in 1 .. Len(p) + Len(q) /\ ~(Len(p) + i <= Len(p))
        /\ (Len(p) + i) - Len(p) = i
    BY <1>1
  <2>2. (pq \o t)[Len(p) + i] = pq[Len(p) + i]
    BY <2>1, <1>1, <1>3, <1>6, <1>8
  <2>3. pq[Len(p) + i] = q[i]
    BY <2>1, <1>9
  <2>. QED BY <2>2, <2>3, <1>1
<1>13. Len(pq \o t) = Len(p) + Len(q) + 2
  BY <1>1, <1>3, <1>6, <1>8
<1>. QED
  BY <1>3, <1>7, <1>10, <1>11, <1>12, <1>13 DEF p, q

\* The authenticated octets determine the associated data and the ciphertext.
LEMMA MacDataInjective ==
  ASSUME NEW a \in Seq(Byte), NEW c \in Seq(Byte),
         NEW b \in Seq(Byte), NEW d \in Seq(Byte),
         MacData(a, c) = MacData(b, d)
  PROVE  a = b /\ c = d
<1> DEFINE m == MacData(a, c)
<1>1. /\ Len(m) = Len(Pad(a)) + Len(Pad(c)) + 2
      /\ m[Len(Pad(a)) + Len(Pad(c)) + 1] = Len(a)
      /\ m[Len(Pad(a)) + Len(Pad(c)) + 2] = Len(c)
      /\ \A i \in 1 .. Len(a) : m[i] = a[i]
      /\ \A i \in 1 .. Len(c) : m[Len(Pad(a)) + i] = c[i]
  BY MacDataElements
<1>2. /\ Len(MacData(b, d)) = Len(Pad(b)) + Len(Pad(d)) + 2
      /\ MacData(b, d)[Len(Pad(b)) + Len(Pad(d)) + 1] = Len(b)
      /\ MacData(b, d)[Len(Pad(b)) + Len(Pad(d)) + 2] = Len(d)
      /\ \A i \in 1 .. Len(b) : MacData(b, d)[i] = b[i]
      /\ \A i \in 1 .. Len(d) : MacData(b, d)[Len(Pad(b)) + i] = d[i]
  BY MacDataElements
<1>3. /\ Len(Pad(a)) \in Nat /\ Len(Pad(b)) \in Nat
      /\ Len(Pad(c)) \in Nat /\ Len(Pad(d)) \in Nat
  BY PadProperties, LenProperties
<1>8. m = MacData(b, d)
  OBVIOUS
<1>. HIDE DEF m
<1>4. Len(a) = Len(b) /\ Len(c) = Len(d)
  <2> DEFINE u == Len(Pad(a)) + Len(Pad(c))
             v == Len(Pad(b)) + Len(Pad(d))
  <2>1. u \in Nat /\ v \in Nat
    BY <1>3
  <2>2. u + 2 = v + 2
    BY <1>1, <1>2, <1>8
  <2>3. /\ m[u + 1] = Len(a) /\ m[u + 2] = Len(c)
        /\ m[v + 1] = Len(b) /\ m[v + 2] = Len(d)
    BY <1>1, <1>2, <1>8
  <2>. HIDE DEF u, v
  <2>4. u = v
    BY <2>1, <2>2
  <2>. QED BY <2>3, <2>4
<1>5. Len(Pad(a)) = Len(Pad(b))
  <2>1. Len(Pad(a)) = Len(a) + PadLen(a) /\ Len(Pad(b)) = Len(b) + PadLen(b)
    BY PadProperties
  <2>. QED BY <2>1, <1>4 DEF PadLen
<1>6. a = b
  <2>1. \A i \in 1 .. Len(a) : a[i] = b[i]
    BY <1>1, <1>2, <1>8, <1>4
  <2>. QED BY <2>1, <1>4, SeqEqual
<1>7. c = d
  <2>1. \A i \in 1 .. Len(c) : c[i] = d[i]
    BY <1>1, <1>2, <1>8, <1>4, <1>5
  <2>. QED BY <2>1, <1>4, SeqEqual
<1>. QED BY <1>6, <1>7

-----------------------------------------------------------------------------
(* Counting modulo the number of counters.                                   *)

\* The remainder is the only one.
LEMMA ModuloUnique ==
  ASSUME NEW n \in Nat \ {0}, NEW q \in Nat, NEW r \in 0 .. n - 1
  PROVE  (n * q + r) % n = r
<1> DEFINE y == n * q + r
           e == y \div n
           t == y % n
<1>1. y \in Nat /\ e \in Nat /\ t \in 0 .. n - 1 /\ y = n * e + t /\ y = n * q + r
  OBVIOUS
<1>. HIDE DEF y, e, t
<1> DEFINE z == e - q
<1>2. z \in Int /\ n * z = r - t
  BY <1>1
<1>3. n * z < n /\ n * z > - n
  BY <1>1, <1>2
<1>. HIDE DEF z
<1>4. z < 1 /\ z > -1
  BY <1>2, <1>3
<1>5. z = 0
  BY <1>2, <1>4
<1>. QED BY <1>1, <1>2, <1>5 DEF y, t

\* Quotient and remainder.
LEMMA ModuloParts ==
  ASSUME NEW n \in Nat \ {0}, NEW x \in Nat
  PROVE  /\ x \div n \in Nat /\ x % n \in 0 .. n - 1
         /\ x = n * (x \div n) + (x % n)
OBVIOUS

\* A counter that wraps counts modulo its size.
LEMMA ModuloNext ==
  ASSUME NEW n \in Nat \ {0}, NEW x \in Nat
  PROVE  ((x % n) + 1) % n = (x + 1) % n
<1> DEFINE q == x \div n
           r == x % n
<1>1. q \in Nat /\ r \in 0 .. n - 1 /\ x = n * q + r
  BY ModuloParts
<1>. HIDE DEF q, r
<1>2. CASE r + 1 < n
  <2>1. x + 1 = n * q + (r + 1) /\ r + 1 \in 0 .. n - 1
    BY <1>1, <1>2
  <2>2. (x + 1) % n = r + 1
    BY <2>1, <1>1, ModuloUnique
  <2>3. (r + 1) % n = r + 1
    BY <2>1
  <2>. QED BY <2>2, <2>3 DEF r
<1>3. CASE r + 1 = n
  <2>1. x + 1 = n * (q + 1) + 0 /\ q + 1 \in Nat /\ 0 \in 0 .. n - 1
    BY <1>1, <1>3
  <2>2. (n * (q + 1) + 0) % n = 0
    BY <2>1, ModuloUnique
  <2>3. (r + 1) % n = 0
    BY <1>3, <1>1
  <2>. QED BY <2>1, <2>2, <2>3 DEF r
<1>. QED BY <1>1, <1>2, <1>3

\* Fewer than n steps do not lead back.
LEMMA ModuloDistinct ==
  ASSUME NEW n \in Nat \ {0}, NEW x \in Nat, NEW d \in 1 .. n - 1
  PROVE  x % n # (x + d) % n
<1> DEFINE q == x \div n
           r == x % n
<1>1. q \in Nat /\ r \in 0 .. n - 1 /\ x = n * q + r
  BY ModuloParts
<1>. HIDE DEF q, r
<1>2. CASE r + d < n
  <2>1. x + d = n * q + (r + d) /\ r + d \in 0 .. n - 1
    BY <1>1, <1>2
  <2>2. (x + d) % n = r + d
    BY <2>1, <1>1, ModuloUnique
  <2>. QED BY <2>2, <1>1 DEF r
<1>3. CASE r + d >= n
  <2>1. x + d = n * (q + 1) + (r + d - n) /\ q + 1 \in Nat /\ r + d - n \in 0 .. n - 1
    BY <1>1, <1>3
  <2>2. (n * (q + 1) + (r + d - n)) % n = r + d - n
    BY <2>1, ModuloUnique
  <2>3. (x + d) % n = r + d - n
    BY <2>1, <2>2
  <2>. QED BY <2>3, <1>1 DEF r
<1>. QED BY <1>1, <1>2, <1>3

-----------------------------------------------------------------------------
(* The inductive invariant.                                                  *)

\* The counter of the first block that a call uses.
Base(a) == IF a.op = "xor" THEN a.start ELSE MacCounter(a)

Size == CounterSize[call.scheme]

BlockSet == {Block(call, c) : c \in 0 .. Size - 1}

\* A call has the arguments of its operation.
Arguments ==
  /\ call.op \in {"encrypt", "decrypt", "xor"} /\ call.scheme \in Schemes
  /\ call.key \in Keys \cup {BadKey} /\ call.nonce \in Nonces \cup {BadNonce}
  /\ call.data \in Seq(Byte)
  /\ call.op # "xor" => call.aad \in Seq(Byte)
  /\ call.op = "xor" => call.start \in 0 .. Size

\* Where the loop is.
Position ==
  /\ pos \in 0 .. Len(call.data)
  /\ counter \in 0 .. Size
  /\ stage = "check" => pos = 0
  /\ stage = "stream" => call.key \in Keys /\ call.nonce \in Nonces

\* The blocks that have been used are those from the first counter on.
Drawn ==
  /\ drawn \in Seq(BlockSet)
  /\ stage = "check" => drawn = <<>>
  /\ stage = "stream" /\ counter # Size =>
       counter = (Base(call) + Len(drawn)) % Size /\ Base(call) \in 0 .. Size - 1
  /\ stage = "stream" /\ counter = Size => pos = 0
  /\ \A i \in 1 .. Len(drawn) : drawn[i] = Block(call, (Base(call) + (i - 1)) % Size)
  /\ drawn # <<>> => Base(call) \in 0 .. Size - 1

\* A decryption gets a tag that some encryption has produced.
TagSent == call.op = "decrypt" => \E m \in sent : m.mac = call.tag

\* What is kept of an encryption belongs together.
Sane(m) == /\ m.aad \in Seq(Byte) /\ m.ciphertext \in Seq(Byte)
           /\ m.mac.input = MacData(m.aad, m.ciphertext)

NotCalled == call = NoCall /\ stage = "idle" /\ outcome = "none" /\ drawn = <<>> /\ pos = 0

Called == Arguments /\ Position /\ Drawn /\ TagSent

Control ==
  /\ stage \in {"idle", "check", "stream"}
  /\ outcome \in {"none", "returned", "ValueError", "InvalidKey", "InvalidCiphertext", "InvalidTag"}
  /\ stage # "idle" => outcome = "none"

Output == out \in Seq(Byte) /\ Len(out) = pos

\* The type invariant, with: the blocks used are consecutive from a first counter,
\* and whatever is kept of an encryption belongs together.
IInv ==
  /\ Control /\ Output
  /\ NotCalled \/ Called
  /\ \A m \in sent : Sane(m)
  /\ FailsEarly /\ Authentic

\* A call has an operation; there is none before the first.
LEMMA CalledProperties == Called => call # NoCall
  BY DEF Called, Arguments, NoCall

LEMMA SizeType ==
  ASSUME Arguments
  PROVE  Size \in Nat \ {0, 1} /\ BlockLen[call.scheme] \in Nat \ {0}
  BY SizeAssumption DEF Arguments, Size

\* The counter of the tag is a counter.
LEMMA MacCounterType ==
  ASSUME Arguments, call.nonce \in Nonces
  PROVE  MacCounter(call) \in 0 .. Size - 1
<1>1. Size \in Nat \ {0, 1}
  BY SizeType
<1>2. CASE call.scheme = "gcm"
  <2>1. Ghash(call.nonce).counter \in 0 .. Size - 1
    BY <1>2, GhashAssumption DEF Size
  <2>. QED BY <1>1, <1>2, <2>1 DEF MacCounter, J0
<1>3. CASE call.scheme # "gcm"
  BY <1>1, <1>3 DEF MacCounter
<1>. QED BY <1>2, <1>3

LEMMA InitIInv == Init => IInv
<1>. SUFFICES ASSUME Init PROVE IInv
  OBVIOUS
<1>1. out \in Seq(Byte) /\ Len(out) = 0
  BY EmptySeq DEF Init
<1>2. Control /\ NotCalled /\ FailsEarly
  BY DEF Init, Control, NotCalled, FailsEarly
<1>3. Authentic /\ Output
  BY <1>1 DEF Init, Authentic, NoCall, Output
<1>. QED BY <1>2, <1>3 DEF Init, IInv

\* Every call begins in the same way.
LEMMA CallIInv ==
  ASSUME IInv, NEW a, Call(a), Arguments', TagSent'
  PROVE  IInv'
<1>1. /\ stage' = "check" /\ pos' = 0 /\ counter' = 0 /\ out' = <<>> /\ outcome' = "none"
      /\ drawn' = <<>> /\ sent' = sent
  BY DEF Call
<1>2. Output'
  BY <1>1, EmptySeq DEF Output
<1>3. Control' /\ FailsEarly' /\ Authentic'
  BY <1>1 DEF Control, FailsEarly, Authentic
<1>4. Size' \in Nat \ {0, 1} /\ Len(call.data)' \in Nat
  BY SizeAssumption, LenProperties DEF Arguments, Size
<1>5. Position'
  BY <1>1, <1>4 DEF Position
<1>6. Drawn'
  BY <1>1, EmptySeq DEF Drawn
<1>7. \A m \in sent' : Sane(m)'
  BY <1>1 DEF IInv, Sane
<1>. QED BY <1>2, <1>3, <1>5, <1>6, <1>7 DEF IInv, Called

LEMMA CallEncryptIInv == IInv /\ CallEncrypt => IInv'
<1>. SUFFICES ASSUME IInv, CallEncrypt PROVE IInv'
  OBVIOUS
<1>1. PICK s \in AeadSchemes, k \in Keys \cup {BadKey}, n \in Nonces \cup {BadNonce},
           a \in Associated, d \in Messages, l \in MinTag - 1 .. MaxTag :
             Call([op |-> "encrypt", scheme |-> s, key |-> k, nonce |-> n,
                   aad |-> a, data |-> d, tag_length |-> l])
  BY DEF CallEncrypt
<1>2. call' = [op |-> "encrypt", scheme |-> s, key |-> k, nonce |-> n,
               aad |-> a, data |-> d, tag_length |-> l]
  BY <1>1 DEF Call
<1>3. Arguments' /\ TagSent'
  BY <1>2, MessageAssumption DEF Arguments, TagSent, Schemes
<1>. QED BY <1>1, <1>3, CallIInv

LEMMA CallXorIInv == IInv /\ CallXor => IInv'
<1>. SUFFICES ASSUME IInv, CallXor PROVE IInv'
  OBVIOUS
<1>1. PICK s \in StreamSchemes, k \in Keys \cup {BadKey}, n \in Nonces \cup {BadNonce},
           d \in Messages : \E c \in 0 .. CounterSize[s] :
             Call([op |-> "xor", scheme |-> s, key |-> k, nonce |-> n, data |-> d, start |-> c])
  BY DEF CallXor
<1>2. PICK c \in 0 .. CounterSize[s] :
             Call([op |-> "xor", scheme |-> s, key |-> k, nonce |-> n, data |-> d, start |-> c])
  BY <1>1
<1>3. call' = [op |-> "xor", scheme |-> s, key |-> k, nonce |-> n, data |-> d, start |-> c]
  BY <1>2 DEF Call
<1>4. Arguments' /\ TagSent'
  BY <1>3, MessageAssumption DEF Arguments, TagSent, Schemes, Size
<1>. QED BY <1>2, <1>4, CallIInv

LEMMA CallDecryptIInv == IInv /\ CallDecrypt => IInv'
<1>. SUFFICES ASSUME IInv, CallDecrypt PROVE IInv'
  OBVIOUS
<1>1. PICK t \in sent, s \in AeadSchemes, k \in Keys \cup {BadKey}, n \in Nonces \cup {BadNonce},
           a \in Associated, d \in Messages \cup {e.ciphertext : e \in sent},
           l \in MinTag - 1 .. MaxTag :
             Call([op |-> "decrypt", scheme |-> s, key |-> k, nonce |-> n,
                   aad |-> a, data |-> d, tag |-> t.mac, tag_length |-> l])
  BY DEF CallDecrypt
<1>2. call' = [op |-> "decrypt", scheme |-> s, key |-> k, nonce |-> n,
               aad |-> a, data |-> d, tag |-> t.mac, tag_length |-> l] /\ sent' = sent
  BY <1>1 DEF Call
<1>3. d \in Seq(Byte)
  BY MessageAssumption DEF IInv, Sane
<1>4. Arguments'
  BY <1>2, <1>3, MessageAssumption DEF Arguments, Schemes
<1>5. TagSent'
  BY <1>2 DEF TagSent
<1>. QED BY <1>1, <1>4, <1>5, CallIInv

\* A failing call leaves everything as it was; nothing has been written.
LEMMA FailIInv ==
  ASSUME IInv, stage # "idle", Len(out) = 0,
         NEW e \in {"ValueError", "InvalidKey", "InvalidCiphertext", "InvalidTag"}, Fail(e)
  PROVE  IInv'
<1>1. /\ stage' = "idle" /\ outcome' = e
      /\ UNCHANGED <<call, pos, counter, out, drawn, sent>>
  BY DEF Fail
<1>2. out = <<>>
  BY EmptySeq DEF IInv, Output
<1>3. Called
  BY DEF IInv, NotCalled
<1>4. Control' /\ Output' /\ FailsEarly'
  BY <1>1, <1>2 DEF IInv, Control, Output, FailsEarly
<1>5. Authentic'
  BY <1>1 DEF Authentic
<1>6. Position' /\ Drawn'
  <2>1. Size' = Size /\ BlockSet' = BlockSet
    BY <1>1 DEF Size, BlockSet
  <2>. QED BY <1>1, <1>3, <2>1 DEF Called, Position, Drawn
<1>7. Arguments' /\ TagSent'
  BY <1>1, <1>3 DEF Called, Arguments, TagSent, Size
<1>8. \A m \in sent' : Sane(m)'
  BY <1>1 DEF IInv, Sane
<1>. QED BY <1>4, <1>5, <1>6, <1>7, <1>8 DEF IInv, Called

LEMMA RejectIInv == IInv /\ (RejectArguments \/ RejectTag) => IInv'
<1>. SUFFICES ASSUME IInv, RejectArguments \/ RejectTag PROVE IInv'
  OBVIOUS
<1>1. stage = "check"
  BY DEF RejectArguments, RejectTag
<1>2. Len(out) = 0
  BY <1>1 DEF IInv, NotCalled, Called, Position, Output
<1>3. \E e \in {"ValueError", "InvalidKey", "InvalidCiphertext", "InvalidTag"} : Fail(e)
  <2>1. CASE RejectArguments
    BY <2>1 DEF RejectArguments
  <2>2. CASE RejectTag
    BY <2>2 DEF RejectTag
  <2>. QED BY <2>1, <2>2
<1>. QED BY <1>1, <1>2, <1>3, FailIInv

\* The block function refuses a counter only before the first block.
LEMMA RejectCounterIInv == IInv /\ RejectCounter => IInv'
<1>. SUFFICES ASSUME IInv, RejectCounter PROVE IInv'
  OBVIOUS
<1>1. stage = "stream" /\ ~(counter < Size) /\ Fail("ValueError")
  BY DEF RejectCounter, CounterOK, Size
<1>2. Called
  BY <1>1 DEF IInv, NotCalled
<1>3. counter = Size
  BY <1>1, <1>2, SizeType DEF Called, Position
<1>4. Len(out) = 0
  BY <1>1, <1>2, <1>3 DEF Called, Drawn, IInv, Output
<1>. QED BY <1>1, <1>4, FailIInv

\* What the three operations have in common when the loop begins.
LEMMA BeginIInv ==
  ASSUME IInv, stage = "check", ArgumentsOK, NEW blocks, Begin(blocks),
         Drawn', FirstCounter(call) \in 0 .. Size,
         call.op = "decrypt" => Verifies
  PROVE  IInv'
<1>1. /\ stage' = "stream" /\ counter' = FirstCounter(call)
      /\ UNCHANGED <<call, pos, out, outcome, sent>>
  BY DEF Begin
<1>2. Called
  BY DEF IInv, NotCalled
<1>3. Control' /\ Output' /\ FailsEarly'
  BY <1>1 DEF IInv, Control, Output, FailsEarly
<1>4. call.key \in Keys /\ call.nonce \in Nonces
  BY <1>2 DEF ArgumentsOK, Called, Arguments
<1>5. Size' = Size
  BY <1>1 DEF Size
<1>6. Position'
  BY <1>1, <1>2, <1>4, <1>5 DEF Called, Position
<1>7. Arguments' /\ TagSent'
  BY <1>1, <1>2, <1>5 DEF Called, Arguments, TagSent
<1>8. Authentic'
  <2>. SUFFICES ASSUME call.op = "decrypt"
                PROVE  \E m \in sent : m.mac = call.tag /\ m.aad = call.aad /\ m.ciphertext = call.data
    BY <1>1 DEF Authentic
  <2>1. PICK m \in sent : m.mac = call.tag
    BY <1>2 DEF Called, TagSent
  <2>2. m.mac.input = MacData(call.aad, call.data)
    BY <2>1 DEF Verifies, Mac
  <2>3. Sane(m) /\ call.aad \in Seq(Byte) /\ call.data \in Seq(Byte)
    BY <1>2 DEF IInv, Called, Arguments
  <2>4. m.aad = call.aad /\ m.ciphertext = call.data
    <3>1. /\ m.aad \in Seq(Byte) /\ m.ciphertext \in Seq(Byte)
          /\ MacData(m.aad, m.ciphertext) = MacData(call.aad, call.data)
      BY <2>2, <2>3 DEF Sane
    <3>2. call.aad \in Seq(Byte) /\ call.data \in Seq(Byte)
      BY <2>3
    <3>3. \A a, c, b, d \in Seq(Byte) : MacData(a, c) = MacData(b, d) => a = b /\ c = d
      BY MacDataInjective
    <3>. QED BY <3>1, <3>2, <3>3
  <2>. QED BY <2>1, <2>4
<1>9. \A m \in sent' : Sane(m)'
  BY <1>1 DEF IInv, Sane
<1>. QED BY <1>3, <1>6, <1>7, <1>8, <1>9 DEF IInv, Called

LEMMA BeginXorIInv == IInv /\ BeginXor => IInv'
<1>. SUFFICES ASSUME IInv, BeginXor PROVE IInv'
  OBVIOUS
<1>1. stage = "check" /\ ArgumentsOK /\ call.op = "xor" /\ Begin(<<>>)
  BY DEF BeginXor
<1>2. Called
  BY <1>1 DEF IInv, NotCalled
<1>3. /\ call' = call /\ counter' = FirstCounter(call) /\ drawn' = <<>> /\ pos' = pos
      /\ Size' = Size /\ stage' = "stream"
  BY <1>1 DEF Begin, Size
<1>4. FirstCounter(call) = Base(call) /\ FirstCounter(call) \in 0 .. Size
  BY <1>1, <1>2 DEF FirstCounter, Base, Called, Arguments
<1>5. pos = 0 /\ Size \in Nat \ {0, 1}
  BY <1>1, <1>2, SizeType DEF Called, Position
<1>6. Len(<<>>) = 0 /\ <<>> \in Seq(BlockSet')
  BY EmptySeq
<1>7. counter' # Size =>
        counter' = (Base(call) + 0) % Size /\ Base(call) \in 0 .. Size - 1
  BY <1>3, <1>4, <1>5
<1>8. Drawn'
  <2>1. Base(call)' = Base(call)
    BY <1>3 DEF Base
  <2>2. \A i \in 1 .. Len(drawn)' : FALSE
    BY <1>3, <1>6
  <2>. QED BY <1>3, <1>5, <1>6, <1>7, <2>1, <2>2 DEF Drawn
<1>. QED BY <1>1, <1>4, <1>8, BeginIInv

LEMMA BeginAeadIInv == IInv /\ (BeginEncrypt \/ BeginDecrypt) => IInv'
<1>. SUFFICES ASSUME IInv, BeginEncrypt \/ BeginDecrypt PROVE IInv'
  OBVIOUS
<1> DEFINE b == Block(call, MacCounter(call))
<1>1. /\ stage = "check" /\ ArgumentsOK /\ call.op # "xor" /\ Begin(<<b>>)
      /\ call.op = "decrypt" => Verifies
  BY DEF BeginEncrypt, BeginDecrypt
<1>2. Called
  BY <1>1 DEF IInv, NotCalled
<1>3. /\ call' = call /\ counter' = FirstCounter(call) /\ drawn' = <<b>> /\ pos' = pos
      /\ Size' = Size /\ BlockSet' = BlockSet /\ stage' = "stream"
  BY <1>1 DEF Begin, Size, BlockSet
<1>4. Size \in Nat \ {0, 1} /\ MacCounter(call) \in 0 .. Size - 1
  <2>1. call.nonce \in Nonces
    BY <1>1, <1>2 DEF ArgumentsOK, Called, Arguments
  <2>. QED BY <2>1, <1>2, SizeType, MacCounterType DEF Called
<1>5. /\ Base(call) = MacCounter(call)
      /\ FirstCounter(call) = (MacCounter(call) + 1) % Size
  BY <1>1 DEF Base, FirstCounter, Inc, Size
<1>6. FirstCounter(call) \in 0 .. Size - 1
  BY <1>4, <1>5, ModuloParts
<1>7. b \in BlockSet
  BY <1>4 DEF BlockSet
<1>. HIDE DEF b
<1>8. <<b>> \in Seq(BlockSet) /\ Len(<<b>>) = 1 /\ <<b>>[1] = b /\ <<b>> # <<>>
  BY <1>7
<1>9. (Base(call) + (1 - 1)) % Size = MacCounter(call)
  BY <1>4, <1>5
<1>10. \A i \in 1 .. Len(drawn') : drawn'[i] = Block(call, (Base(call) + (i - 1)) % Size)
  BY <1>3, <1>8, <1>9 DEF b
<1>11. Drawn'
  <2>1. Base(call)' = Base(call)
    BY <1>3 DEF Base
  <2>2. counter' # Size /\ counter' = (Base(call) + Len(drawn')) % Size
    BY <1>3, <1>4, <1>5, <1>6, <1>8
  <2>. QED BY <1>3, <1>4, <1>5, <1>8, <1>10, <2>1, <2>2 DEF Drawn
<1>. QED BY <1>1, <1>4, <1>6, <1>11, BeginIInv

\* The octets of a chunk.
LEMMA ChunkType ==
  ASSUME Called, stage = "stream", pos < Len(call.data), counter \in 0 .. Size - 1
  PROVE  LET chunk == [i \in 1 .. ChunkLen |->
                         Xor(call.data[pos + i], KeyStream(Block(call, counter), i))]
         IN  chunk \in Seq(Byte) /\ Len(chunk) = ChunkLen /\ ChunkLen \in 1 .. Len(call.data) - pos
<1> DEFINE n == Len(call.data)
           l == BlockLen[call.scheme]
           Mixed(i) == Xor(call.data[pos + i], KeyStream(Block(call, counter), i))
           chunk == [i \in 1 .. ChunkLen |-> Mixed(i)]
<1>1. n \in Nat /\ l \in Nat \ {0} /\ pos \in 0 .. n
  BY SizeType, LenProperties DEF Called, Position, Arguments
<1>2. ChunkLen \in 1 .. n - pos /\ ChunkLen <= l
  BY <1>1 DEF ChunkLen
<1>3. ASSUME NEW i \in 1 .. ChunkLen PROVE Mixed(i) \in Byte
  <2>1. i \in 1 .. l /\ pos + i \in 1 .. n
    BY <1>1, <1>2
  <2>2. call.data[pos + i] \in Byte
    BY <2>1, ElementOfSeq DEF Called, Arguments
  <2>3. KeyStream(Block(call, counter), i) \in Byte
    <3> DEFINE a == [scheme |-> call.scheme, key |-> call.key, nonce |-> call.nonce]
    <3>1. KeyStream(Block(a, counter), i) \in Byte
      BY <2>1, StreamAssumption DEF Called, Arguments, Position, Size
    <3>2. a.scheme = call.scheme /\ a.key = call.key /\ a.nonce = call.nonce
      OBVIOUS
    <3>. HIDE DEF a
    <3>3. Block(a, counter) = Block(call, counter)
      BY <3>2, Zenon DEF Block
    <3>. QED BY <3>1, <3>3
  <2>. QED BY <2>2, <2>3, ByteAssumption
<1>4. chunk \in [1 .. ChunkLen -> Byte]
  BY <1>3
<1>5. chunk \in Seq(Byte)
  BY <1>1, <1>2, <1>4, SeqDef
<1>6. Len(chunk) = ChunkLen
  BY <1>1, <1>2, <1>4, <1>5, LenProperties
<1>. QED BY <1>2, <1>5, <1>6

LEMMA StreamIInv == IInv /\ Stream => IInv'
<1>. SUFFICES ASSUME IInv, Stream PROVE IInv'
  OBVIOUS
<1> DEFINE chunk == [i \in 1 .. ChunkLen |->
                       Xor(call.data[pos + i], KeyStream(Block(call, counter), i))]
<1>1. /\ stage = "stream" /\ pos < Len(call.data) /\ counter < Size
      /\ out' = out \o chunk /\ pos' = pos + ChunkLen
      /\ counter' = (counter + 1) % Size
      /\ drawn' = Append(drawn, Block(call, counter))
      /\ UNCHANGED <<call, stage, outcome, sent>>
  BY DEF Stream, Advance, CounterOK, Inc, Size
<1>2. Called
  BY <1>1 DEF IInv, NotCalled
<1>3. Size' = Size /\ BlockSet' = BlockSet
  BY <1>1 DEF Size, BlockSet
<1>4. Size \in Nat \ {0, 1} /\ counter \in 0 .. Size - 1
  BY <1>1, <1>2, SizeType DEF Called, Position
<1>5. chunk \in Seq(Byte) /\ Len(chunk) = ChunkLen /\ ChunkLen \in 1 .. Len(call.data) - pos
  BY <1>1, <1>2, <1>4, ChunkType
<1>. HIDE DEF chunk
<1>6. /\ Len(call.data) \in Nat /\ pos \in 0 .. Len(call.data)
      /\ pos' \in 0 .. Len(call.data)
  <2>1. Len(call.data) \in Nat /\ pos \in 0 .. Len(call.data)
    BY <1>2, LenProperties DEF Called, Position, Arguments
  <2>. QED BY <2>1, <1>1, <1>5
<1>7. Output'
  <2>1. out \in Seq(Byte) /\ Len(out) = pos
    BY DEF IInv, Output
  <2>2. out \o chunk \in Seq(Byte) /\ Len(out \o chunk) = Len(out) + Len(chunk)
    BY <2>1, <1>5, ConcatProperties
  <2>. QED BY <2>1, <2>2, <1>1, <1>5 DEF Output
<1>8. Control' /\ FailsEarly' /\ Authentic'
  BY <1>1 DEF IInv, Control, FailsEarly, Authentic
<1>9. counter' \in 0 .. Size - 1
  BY <1>1, <1>4, ModuloParts
<1>10. Position'
  BY <1>1, <1>2, <1>3, <1>4, <1>6, <1>9 DEF Called, Position
<1>11. Drawn'
  <2> DEFINE n == Len(drawn)
             b == Base(call)
  <2>1. /\ drawn \in Seq(BlockSet) /\ n \in Nat
        /\ counter = (b + n) % Size
        /\ \A i \in 1 .. n : drawn[i] = Block(call, (b + (i - 1)) % Size)
    BY <1>1, <1>2, <1>4, LenProperties DEF Called, Drawn
  <2>2. Block(call, counter) \in BlockSet
    BY <1>4 DEF BlockSet
  <2>3. b \in 0 .. Size - 1
    BY <1>1, <1>2, <1>4 DEF Called, Drawn
  <2>4. /\ drawn' \in Seq(BlockSet) /\ Len(drawn') = n + 1
        /\ \A i \in 1 .. n : drawn'[i] = drawn[i]
        /\ drawn'[n + 1] = Block(call, counter)
    BY <2>1, <2>2, <1>1, AppendProperties
  <2>. HIDE DEF n, b
  <2>5. \A i \in 1 .. n + 1 : drawn'[i] = Block(call, (b + (i - 1)) % Size)
    <3>. TAKE i \in 1 .. n + 1
    <3>1. CASE i \in 1 .. n
      BY <3>1, <2>1, <2>4
    <3>2. CASE i = n + 1
      <4>1. b + (i - 1) = b + n
        BY <3>2, <2>1, <2>3
      <4>. QED BY <4>1, <3>2, <2>1, <2>4
    <3>. QED BY <2>1, <3>1, <3>2
  <2>6. counter' = (b + (n + 1)) % Size
    <3>1. (((b + n) % Size) + 1) % Size = ((b + n) + 1) % Size
      <4>1. b + n \in Nat
        BY <1>4, <2>1, <2>3
      <4>. QED BY <4>1, <1>4, ModuloNext
    <3>2. (b + n) + 1 = b + (n + 1)
      BY <2>1, <2>3
    <3>. QED BY <3>1, <3>2, <1>1, <2>1
  <2>7. Base(call)' = b
    BY <1>1 DEF Base, b
  <2>8. counter' # Size
    BY <1>4, <1>9
  <2>. QED BY <1>1, <1>3, <2>3, <2>4, <2>5, <2>6, <2>7, <2>8 DEF Drawn
<1>12. Arguments' /\ TagSent'
  BY <1>1, <1>2, <1>3 DEF Called, Arguments, TagSent
<1>13. \A m \in sent' : Sane(m)'
  BY <1>1 DEF IInv, Sane
<1>. QED BY <1>7, <1>8, <1>10, <1>11, <1>12, <1>13 DEF IInv, Called

LEMMA ReturnIInv == IInv /\ Return => IInv'
<1>. SUFFICES ASSUME IInv, Return PROVE IInv'
  OBVIOUS
<1>1. /\ stage = "stream" /\ stage' = "idle" /\ outcome' = "returned"
      /\ sent' = sent \cup IF call.op = "encrypt" THEN {Sent} ELSE {}
      /\ UNCHANGED <<call, pos, counter, out, drawn>>
  BY DEF Return
<1>2. Called
  BY <1>1 DEF IInv, NotCalled
<1>3. Control' /\ Output' /\ FailsEarly'
  BY <1>1 DEF IInv, Control, Output, FailsEarly
<1>4. sent \subseteq sent'
  BY <1>1
<1>5. Authentic'
  BY <1>1, <1>2, <1>4, CalledProperties DEF IInv, Authentic
<1>6. Position' /\ Drawn'
  <2>1. Size' = Size /\ BlockSet' = BlockSet
    BY <1>1 DEF Size, BlockSet
  <2>. QED BY <1>1, <1>2, <2>1 DEF Called, Position, Drawn
<1>7. Arguments'
  BY <1>1, <1>2 DEF Called, Arguments, Size
<1>8. TagSent'
  BY <1>1, <1>2, <1>4 DEF Called, TagSent
<1>9. \A m \in sent' : Sane(m)'
  <2>1. \A m \in sent : Sane(m)'
    BY DEF IInv, Sane
  <2>2. CASE call.op = "encrypt"
    <3>1. Sent.aad = call.aad /\ Sent.ciphertext = out /\ Sent.mac.input = MacData(call.aad, out)
      BY DEF Sent, Mac
    <3>2. call.aad \in Seq(Byte) /\ out \in Seq(Byte)
      BY <1>2, <2>2 DEF IInv, Output, Called, Arguments
    <3>3. Sane(Sent)
      BY <3>1, <3>2 DEF Sane
    <3>4. \A m \in sent : Sane(m)
      BY DEF IInv
    <3>5. sent' = sent \cup {Sent}
      BY <1>1, <2>2
    <3>6. \A m \in sent' : Sane(m)
      BY <3>3, <3>4, <3>5
    <3>. QED BY <3>6 DEF Sane
  <2>3. CASE call.op # "encrypt"
    BY <2>1, <2>3, <1>1
  <2>. QED BY <2>2, <2>3
<1>. QED BY <1>3, <1>5, <1>6, <1>7, <1>8, <1>9 DEF IInv, Called

-----------------------------------------------------------------------------
(* What is written is the exclusive or of the data and the key stream that   *)
(* begins after the block of the tag.                                        *)

\* The k-th block after b, of n counters.
StreamBlock(b, n, k) == [key |-> b.key, fixed |-> b.fixed, counter |-> (b.counter + 1 + k) % n]

\* c is, as far as it goes, p with the key stream after the block b.
Enciphers(s, b, p, c) ==
  \A k \in Nat : \A r \in 1 .. BlockLen[s] :
    BlockLen[s] * k + r <= Len(c) =>
      c[BlockLen[s] * k + r] =
        Xor(p[BlockLen[s] * k + r], KeyStream(StreamBlock(b, CounterSize[s], k), r))

IsAead == call.op \in {"encrypt", "decrypt"}

TagBlock == Block(call, MacCounter(call))

\* A call has enciphered what it has written; it is between two blocks, or at the end;
\* and it has verified what it deciphers.
Streamed ==
  IsAead /\ (stage = "stream" \/ outcome = "returned") =>
    /\ Enciphers(call.scheme, TagBlock, call.data, out)
    /\ stage = "stream" /\ pos < Len(call.data) =>
         \E j \in Nat : Len(drawn) = j + 1 /\ pos = BlockLen[call.scheme] * j
    /\ outcome = "returned" => pos = Len(call.data)
    /\ call.key \in Keys /\ call.nonce \in Nonces
    /\ call.op = "decrypt" => Verifies

\* What is kept of an encryption is its plaintext, enciphered after the block of its tag.
Enciphered(m) ==
  /\ m.plaintext \in Seq(Byte) /\ Len(m.plaintext) = Len(m.ciphertext)
  /\ m.scheme \in AeadSchemes
  /\ m.mac.hash = "ghash" <=> m.scheme = "gcm"
  /\ Enciphers(m.scheme, m.mac.block, m.plaintext, m.ciphertext)

Ciphers == call.op # "none" => call.op = "xor" \/ call.scheme \in AeadSchemes

Reversible == Streamed /\ Ciphers /\ \A m \in sent : Enciphered(m)

\* A place is in one block only.
LEMMA PlaceUnique ==
  ASSUME NEW l \in Nat \ {0}, NEW k \in Nat, NEW j \in Nat, NEW r \in 1 .. l, NEW i \in 1 .. l,
         l * k + r = l * j + i
  PROVE  k = j /\ r = i
<1> DEFINE z == k - j
<1>1. z \in Int /\ l * z = i - r
  OBVIOUS
<1>2. l * z < l /\ l * z > - l
  BY <1>1
<1>. HIDE DEF z
<1>3. z < 1 /\ z > -1
  BY <1>1, <1>2
<1>4. z = 0
  BY <1>1, <1>3
<1>5. k = j
  BY <1>4 DEF z
<1>. QED BY <1>5

\* Every place is in a block.
LEMMA PlaceExists ==
  ASSUME NEW l \in Nat \ {0}, NEW x \in Nat \ {0}
  PROVE  \E k \in Nat : \E r \in 1 .. l : x = l * k + r
<1> DEFINE q == (x - 1) \div l
           t == (x - 1) % l
<1>1. x - 1 \in Nat
  OBVIOUS
<1>2. q \in Nat /\ t \in 0 .. l - 1 /\ x - 1 = l * q + t
  BY <1>1, ModuloParts
<1>. HIDE DEF q, t
<1>3. t + 1 \in 1 .. l /\ x = l * q + (t + 1)
  <2>1. l * q \in Nat
    BY <1>2
  <2>. QED BY <1>2, <2>1
<1>. QED BY <1>2, <1>3

\* There is a place before which there is none.
LEMMA PlacePositive ==
  ASSUME NEW l \in Nat \ {0}, NEW k \in Nat, NEW r \in 1 .. l
  PROVE  l * k + r \in Nat \ {0}
<1>1. l * k \in Nat
  OBVIOUS
<1>. QED BY <1>1

\* The octets of a key stream are octets.
LEMMA StreamType ==
  ASSUME Called, call.key \in Keys, call.nonce \in Nonces,
         NEW c \in 0 .. Size - 1, NEW r \in 1 .. BlockLen[call.scheme]
  PROVE  KeyStream(Block(call, c), r) \in Byte
<1> DEFINE a == [scheme |-> call.scheme, key |-> call.key, nonce |-> call.nonce]
<1>1. KeyStream(Block(a, c), r) \in Byte
  BY StreamAssumption DEF Called, Arguments, Size
<1>2. a.scheme = call.scheme /\ a.key = call.key /\ a.nonce = call.nonce
  OBVIOUS
<1>. HIDE DEF a
<1>3. Block(a, c) = Block(call, c)
  BY <1>2, Zenon DEF Block
<1>. QED BY <1>1, <1>3

\* The blocks of a call are those after the block of its tag.
LEMMA TagBlockNext ==
  ASSUME NEW k \in Nat
  PROVE  StreamBlock(TagBlock, Size, k) = Block(call, (MacCounter(call) + 1 + k) % Size)
BY DEF StreamBlock, TagBlock, Block

LEMMA InitReversible == Init => Reversible
BY DEF Init, Reversible, Streamed, IsAead, NoCall, Ciphers

\* Before its first octet a call has enciphered nothing.
LEMMA NothingEnciphered ==
  ASSUME NEW s \in Schemes, NEW b, NEW p, NEW c, Len(c) = 0
  PROVE  Enciphers(s, b, p, c)
<1>1. BlockLen[s] \in Nat \ {0}
  BY SizeAssumption
<1>2. \A k \in Nat : \A r \in 1 .. BlockLen[s] : BlockLen[s] * k + r \in Nat \ {0}
  BY <1>1, PlacePositive
<1>3. ASSUME NEW k \in Nat, NEW r \in 1 .. BlockLen[s] PROVE ~(BlockLen[s] * k + r <= 0)
  <2>1. BlockLen[s] * k + r \in Nat \ {0}
    BY <1>2
  <2> DEFINE x == BlockLen[s] * k + r
  <2>. HIDE DEF x
  <2>2. x \in Nat \ {0}
    BY <2>1 DEF x
  <2>3. ~(x <= 0)
    BY <2>2
  <2>. QED BY <2>3 DEF x
<1>. QED BY <1>3 DEF Enciphers

LEMMA CallReversible == IInv /\ Reversible /\ (CallEncrypt \/ CallDecrypt \/ CallXor) => Reversible'
<1>. SUFFICES ASSUME Reversible, CallEncrypt \/ CallDecrypt \/ CallXor PROVE Reversible'
  OBVIOUS
<1>1. PICK a : Call(a)
  BY DEF CallEncrypt, CallDecrypt, CallXor
<1>2. stage' = "check" /\ outcome' = "none" /\ sent' = sent
  BY <1>1 DEF Call
<1>3. Ciphers'
  <2>1. CASE CallEncrypt
    BY <2>1 DEF CallEncrypt, Call, Ciphers
  <2>2. CASE CallDecrypt
    BY <2>2 DEF CallDecrypt, Call, Ciphers
  <2>3. CASE CallXor
    BY <2>3 DEF CallXor, Call, Ciphers
  <2>. QED BY <2>1, <2>2, <2>3
<1>4. \A m \in sent' : Enciphered(m)'
  BY <1>2 DEF Reversible, Enciphered
<1>. QED BY <1>2, <1>3, <1>4 DEF Reversible, Streamed

LEMMA RejectReversible ==
  IInv /\ Reversible /\ (RejectArguments \/ RejectTag \/ RejectCounter) => Reversible'
<1>. SUFFICES ASSUME Reversible, RejectArguments \/ RejectTag \/ RejectCounter PROVE Reversible'
  OBVIOUS
<1>1. PICK e \in {"ValueError", "InvalidKey", "InvalidCiphertext", "InvalidTag"} : Fail(e)
  BY Zenon DEF RejectArguments, RejectTag, RejectCounter
<1>2. stage' = "idle" /\ outcome' # "returned" /\ call' = call /\ sent' = sent
  BY <1>1 DEF Fail
<1>. QED BY <1>2 DEF Reversible, Streamed, Ciphers, Enciphered

LEMMA BeginReversible ==
  IInv /\ Reversible /\ (BeginEncrypt \/ BeginDecrypt \/ BeginXor) => Reversible'
<1>. SUFFICES ASSUME IInv, Reversible, BeginEncrypt \/ BeginDecrypt \/ BeginXor PROVE Reversible'
  OBVIOUS
<1>1. /\ stage = "check" /\ UNCHANGED <<call, pos, out, outcome, sent>>
  BY DEF BeginEncrypt, BeginDecrypt, BeginXor, Begin
<1>2. Called /\ pos = 0 /\ Len(out) = 0 /\ outcome = "none"
  BY <1>1 DEF IInv, NotCalled, Called, Position, Output, Control
<1>3. Streamed'
  <2>0.. (call.key \in Keys /\ call.nonce \in Nonces)'
    BY <1>1, <1>2 DEF BeginEncrypt, BeginDecrypt, BeginXor, ArgumentsOK, Called, Arguments
  <2>. SUFFICES ASSUME IsAead'
                PROVE  /\ Enciphers(call.scheme, TagBlock, call.data, out)'
                       /\ (\E j \in Nat : Len(drawn) = j + 1 /\ pos = BlockLen[call.scheme] * j)'
                       /\ (call.op = "decrypt" => Verifies)'
    BY <1>1, <1>2, <2>0, Zenon DEF Streamed
  <2>1. (BeginEncrypt \/ BeginDecrypt) /\ drawn' = <<TagBlock>>
    BY <1>1 DEF IsAead, BeginEncrypt, BeginDecrypt, BeginXor, Begin, TagBlock
  <2>2. call.scheme \in Schemes /\ BlockLen[call.scheme] \in Nat \ {0}
    BY <1>2, SizeType DEF Called, Arguments
  <2>3. Enciphers(call.scheme, TagBlock, call.data, out)
    BY <1>2, <2>2, NothingEnciphered
  <2>4. Enciphers(call.scheme, TagBlock, call.data, out)'
    BY <1>1, <2>3 DEF Enciphers, TagBlock
  <2>5. Len(drawn') = 0 + 1 /\ pos' = BlockLen[call.scheme] * 0
    BY <1>1, <1>2, <2>1, <2>2
  <2>6. (call.op = "decrypt" => Verifies)'
    BY <1>1, <2>1 DEF BeginEncrypt, BeginDecrypt, Verifies
  <2>. QED BY <1>1, <2>4, <2>5, <2>6
<1>4. Ciphers' /\ \A m \in sent' : Enciphered(m)'
  BY <1>1 DEF Reversible, Ciphers, Enciphered
<1>. QED BY <1>3, <1>4 DEF Reversible

LEMMA StreamReversible == IInv /\ Reversible /\ Stream => Reversible'
<1>. SUFFICES ASSUME IInv, Reversible, Stream PROVE Reversible'
  OBVIOUS
<1> DEFINE chunk == [i \in 1 .. ChunkLen |->
                       Xor(call.data[pos + i], KeyStream(Block(call, counter), i))]
<1>1. /\ stage = "stream" /\ pos < Len(call.data) /\ counter < Size
      /\ out' = out \o chunk /\ pos' = pos + ChunkLen
      /\ drawn' = Append(drawn, Block(call, counter))
      /\ UNCHANGED <<call, stage, outcome, sent>>
  BY DEF Stream, Advance, CounterOK, Size
<1>2. Called /\ outcome = "none"
  BY <1>1 DEF IInv, NotCalled, Control
<1>3. Ciphers' /\ \A m \in sent' : Enciphered(m)'
  BY <1>1 DEF Reversible, Ciphers, Enciphered
<1>4. SUFFICES ASSUME IsAead PROVE Streamed'
  <2>. HIDE DEF chunk
  <2>1. ~IsAead => Streamed'
    BY <1>1 DEF Streamed, IsAead
  <2>. QED BY <1>3, <2>1 DEF Reversible
<1>5. Size \in Nat \ {0, 1} /\ counter \in 0 .. Size - 1
  BY <1>1, <1>2, SizeType DEF Called, Position
<1>6. chunk \in Seq(Byte) /\ Len(chunk) = ChunkLen /\ ChunkLen \in 1 .. Len(call.data) - pos
  BY <1>1, <1>2, <1>5, ChunkType
<1>7. \A i \in 1 .. ChunkLen : chunk[i] = Xor(call.data[pos + i], KeyStream(Block(call, counter), i))
  OBVIOUS
<1>. HIDE DEF chunk
<1>8. out \in Seq(Byte) /\ Len(out) = pos
  BY DEF IInv, Output
<1>9. PICK j \in Nat : Len(drawn) = j + 1 /\ pos = BlockLen[call.scheme] * j
  BY <1>1, <1>4 DEF Reversible, Streamed
<1>10. PICK l \in Nat \ {0} : l = BlockLen[call.scheme]
  BY <1>2, SizeType DEF Called
<1>11. /\ Len(call.data) \in Nat /\ pos \in Nat /\ ChunkLen \in 1 .. l
       /\ ChunkLen = l \/ pos + ChunkLen = Len(call.data)
  <2>1. Len(call.data) \in Nat /\ pos \in 0 .. Len(call.data)
    BY <1>2, LenProperties DEF Called, Position, Arguments
  <2>. QED BY <1>1, <1>10, <2>1 DEF ChunkLen
<1>12. /\ Len(out') = pos + ChunkLen
       /\ \A i \in 1 .. pos : out'[i] = out[i]
       /\ \A i \in 1 .. ChunkLen : out'[pos + i] = chunk[i]
  <2>1. /\ Len(out \o chunk) = Len(out) + Len(chunk)
        /\ \A i \in 1 .. Len(out) + Len(chunk) :
             (out \o chunk)[i] = IF i <= Len(out) THEN out[i] ELSE chunk[i - Len(out)]
    BY <1>6, <1>8, ConcatProperties
  <2>2. \A i \in 1 .. ChunkLen : pos + i \in 1 .. pos + ChunkLen /\ ~(pos + i <= pos)
                                 /\ (pos + i) - pos = i
    BY <1>11
  <2>3. \A i \in 1 .. pos : i \in 1 .. pos + ChunkLen /\ i <= pos
    BY <1>11
  <2>4. Len(out') = pos + ChunkLen
    BY <1>1, <1>6, <1>8, <2>1
  <2>5. \A i \in 1 .. pos + ChunkLen : out'[i] = IF i <= pos THEN out[i] ELSE chunk[i - pos]
    BY <1>1, <1>6, <1>8, <2>1
  <2>6. ASSUME NEW i \in 1 .. pos PROVE out'[i] = out[i]
    BY <2>3, <2>5
  <2>7. ASSUME NEW i \in 1 .. ChunkLen PROVE out'[pos + i] = chunk[i]
    BY <2>2, <2>5
  <2>. QED BY <2>4, <2>6, <2>7
<1>13. Block(call, counter) = StreamBlock(TagBlock, Size, j)
  <2>1. Base(call) = MacCounter(call)
    BY <1>4 DEF IsAead, Base
  <2>2. counter = (MacCounter(call) + (j + 1)) % Size /\ MacCounter(call) \in 0 .. Size - 1
    BY <1>1, <1>2, <1>5, <1>9, <2>1 DEF Called, Drawn
  <2>3. MacCounter(call) + (j + 1) = MacCounter(call) + 1 + j
    BY <1>5, <2>2
  <2>. QED BY <2>2, <2>3, TagBlockNext
<1>14. Enciphers(call.scheme, TagBlock, call.data, out')
  <2>. SUFFICES ASSUME NEW k \in Nat, NEW r \in 1 .. l, l * k + r <= pos + ChunkLen
                PROVE  out'[l * k + r]
                         = Xor(call.data[l * k + r], KeyStream(StreamBlock(TagBlock, Size, k), r))
    BY <1>10, <1>12 DEF Enciphers, Size
  <2>1. l * k + r \in Nat \ {0}
    BY PlacePositive
  <2>2. CASE l * k + r <= pos
    <3>1. out'[l * k + r] = out[l * k + r]
      <4> DEFINE x == l * k + r
      <4>. HIDE DEF x
      <4>1. x \in 1 .. pos
        <5>1. x \in Nat \ {0} /\ x <= pos
          BY <2>1, <2>2 DEF x
        <5>. QED BY <5>1, <1>11
      <4>. QED BY <1>12, <4>1 DEF x
    <3>2. Enciphers(call.scheme, TagBlock, call.data, out)
      BY <1>1, <1>4 DEF Reversible, Streamed
    <3>. QED BY <1>8, <1>10, <2>2, <3>1, <3>2 DEF Enciphers, Size
  <2>3. CASE ~(l * k + r <= pos)
    <3> DEFINE x == l * k + r
               i == x - pos
    <3>1. x \in Nat /\ ~(x <= pos) /\ x <= pos + ChunkLen
      BY <2>1, <2>3
    <3>. HIDE DEF x
    <3>2. i \in 1 .. ChunkLen /\ i \in 1 .. l /\ x = pos + i
      BY <1>11, <3>1
    <3>. HIDE DEF i
    <3>3. l * k + r = l * j + i
      BY <1>9, <1>10, <3>2 DEF x
    <3>4. k = j /\ r = i
      BY <3>2, <3>3, PlaceUnique
    <3>5. out'[x] = Xor(call.data[x], KeyStream(Block(call, counter), i))
      BY <1>7, <1>12, <3>2
    <3>. QED BY <1>13, <3>4, <3>5 DEF x
  <2>. QED BY <2>2, <2>3
<1>15. ASSUME pos' < Len(call.data)
       PROVE  Len(drawn') = (j + 1) + 1 /\ pos' = l * (j + 1)
  <2>1. ChunkLen = l
    BY <1>1, <1>11, <1>15
  <2>2. l * (j + 1) = l * j + l
    OBVIOUS
  <2>3. drawn \in Seq(BlockSet) /\ Block(call, counter) \in BlockSet
    BY <1>2, <1>5 DEF Called, Drawn, BlockSet
  <2>4. Len(drawn') = Len(drawn) + 1
    BY <1>1, <2>3, AppendProperties
  <2>. QED BY <1>1, <1>9, <1>10, <2>1, <2>2, <2>4
<1>16. Enciphers(call.scheme, TagBlock, call.data, out)'
  BY <1>1, <1>14 DEF Enciphers, TagBlock
<1>17. /\ (call.op = "decrypt" => Verifies)'
       /\ (call.key \in Keys /\ call.nonce \in Nonces)'
  BY <1>1, <1>4 DEF Reversible, Streamed, Verifies
<1>18. stage' = "stream" /\ pos' < Len(call.data)' =>
         \E i \in Nat : Len(drawn') = i + 1 /\ pos' = BlockLen[call.scheme]' * i
  BY <1>1, <1>10, <1>15
<1>. QED BY <1>1, <1>2, <1>16, <1>17, <1>18 DEF Streamed

LEMMA ReturnReversible == IInv /\ Reversible /\ Return => Reversible'
<1>. SUFFICES ASSUME IInv, Reversible, Return PROVE Reversible'
  OBVIOUS
<1>1. /\ stage = "stream" /\ stage' = "idle" /\ outcome' = "returned" /\ pos >= Len(call.data)
      /\ sent' = sent \cup IF call.op = "encrypt" THEN {Sent} ELSE {}
      /\ UNCHANGED <<call, pos, counter, out, drawn>>
  BY DEF Return
<1>2. Called
  BY <1>1 DEF IInv, NotCalled
<1>3. pos = Len(call.data)
  <2>1. Len(call.data) \in Nat /\ pos \in 0 .. Len(call.data)
    BY <1>2, LenProperties DEF Called, Position, Arguments
  <2>. QED BY <1>1, <2>1
<1>4. Streamed'
  <2>. SUFFICES ASSUME IsAead PROVE Streamed'
    BY <1>1 DEF Streamed, IsAead
  <2>1. /\ Enciphers(call.scheme, TagBlock, call.data, out)
        /\ call.op = "decrypt" => Verifies
    BY <1>1 DEF Reversible, Streamed
  <2>. QED BY <1>1, <1>2, <1>3, <2>1 DEF Streamed, Enciphers, TagBlock, Verifies, Called, Position
<1>5. ASSUME call.op = "encrypt" PROVE Enciphered(Sent)
  <2>1. /\ Sent.plaintext = call.data /\ Sent.ciphertext = out /\ Sent.scheme = call.scheme
        /\ Sent.mac.hash = (IF call.scheme = "gcm" THEN "ghash" ELSE "poly1305")
        /\ Sent.mac.block = TagBlock
    BY DEF Sent, Mac, TagBlock
  <2>2. call.scheme \in AeadSchemes
    BY <1>5 DEF Reversible, Ciphers
  <2>3. call.data \in Seq(Byte) /\ Len(call.data) = Len(out)
    BY <1>2, <1>3 DEF IInv, Output, Called, Arguments
  <2>4. Enciphers(call.scheme, TagBlock, call.data, out)
    BY <1>1, <1>5 DEF Reversible, Streamed, IsAead
  <2>. HIDE DEF AeadSchemes
  <2>. QED BY <2>1, <2>2, <2>3, <2>4 DEF Enciphered
<1>6. \A m \in sent' : Enciphered(m)
  BY <1>1, <1>5 DEF Reversible
<1>7. \A m \in sent' : Enciphered(m)'
  BY <1>6 DEF Enciphered
<1>. QED BY <1>1, <1>4, <1>7 DEF Reversible, Ciphers

\* Two encipherments with the same key stream lead back.
LEMMA StreamCancels ==
  ASSUME IInv, Reversible, outcome = "returned", call.op = "decrypt",
         NEW m \in sent, m.mac = call.tag, m.ciphertext = call.data
  PROVE  m.plaintext = out
<1>1. Called /\ stage = "idle"
  BY DEF IInv, NotCalled, Control
<1>2. /\ Enciphers(call.scheme, TagBlock, call.data, out) /\ pos = Len(call.data) /\ Verifies
      /\ call.scheme \in AeadSchemes
  BY DEF Reversible, Streamed, IsAead, Ciphers
<1>3. Enciphered(m)
  BY DEF Reversible
<1>4. m.mac.block = TagBlock /\ (m.scheme = "gcm" <=> call.scheme = "gcm")
  <2>1. m.mac = Mac(call, call.data)
    BY <1>2 DEF Verifies
  <2>. QED BY <1>3, <2>1 DEF Mac, TagBlock, Enciphered
<1>5. BlockLen[m.scheme] = BlockLen[call.scheme] /\ CounterSize[m.scheme] = CounterSize[call.scheme]
  BY <1>2, <1>3, <1>4, XChaChaAssumption DEF Enciphered, AeadSchemes
<1>6. /\ m.plaintext \in Seq(Byte) /\ out \in Seq(Byte) /\ call.data \in Seq(Byte)
      /\ Len(m.plaintext) = Len(out) /\ Len(out) = Len(call.data)
  BY <1>1, <1>2, <1>3 DEF IInv, Output, Called, Arguments, Enciphered
<1>7. PICK l \in Nat \ {0} : l = BlockLen[call.scheme]
  BY <1>1, SizeType DEF Called
<1>8. ASSUME NEW x \in 1 .. Len(out) PROVE m.plaintext[x] = out[x]
  <2>1. PICK k \in Nat, r \in 1 .. l : x = l * k + r
    <3>1. x \in Nat \ {0}
      OBVIOUS
    <3>. QED BY <3>1, PlaceExists
  <2> DEFINE o == KeyStream(StreamBlock(TagBlock, Size, k), r)
  <2>2. x <= Len(out) /\ x <= Len(call.data)
    BY <1>6, LenProperties
  <2>3. out[x] = Xor(call.data[x], o)
    BY <1>2, <1>7, <2>1, <2>2 DEF Enciphers, Size
  <2>4. m.ciphertext[x] = Xor(m.plaintext[x], o)
    BY <1>3, <1>4, <1>5, <1>7, <2>1, <2>2 DEF Enciphered, Enciphers, Size
  <2>5. o \in Byte
    <3>1. call.key \in Keys /\ call.nonce \in Nonces /\ MacCounter(call) \in 0 .. Size - 1
      BY <1>1, MacCounterType DEF Reversible, Streamed, IsAead, Called
    <3>2. Size \in Nat \ {0, 1} /\ (MacCounter(call) + 1 + k) % Size \in 0 .. Size - 1
      <4>1. Size \in Nat \ {0, 1}
        BY <1>1, SizeType DEF Called
      <4>2. MacCounter(call) + 1 + k \in Nat
        BY <3>1, <4>1
      <4>. QED BY <4>1, <4>2, ModuloParts
    <3>. QED BY <1>1, <1>7, <3>1, <3>2, StreamType, TagBlockNext
  <2>6. m.plaintext[x] \in Byte
    BY <1>6, ElementOfSeq
  <2>. HIDE DEF o
  <2>. QED BY <2>3, <2>4, <2>5, <2>6, ByteAssumption
<1>. QED BY <1>6, <1>8, SeqEqual

-----------------------------------------------------------------------------
(* The theorems.                                                             *)

\* The invariant holds in every reachable state.
THEOREM Inductive == Spec => []IInv
<1>1. IInv /\ [Next]_vars => IInv'
  <2>. SUFFICES ASSUME IInv, [Next]_vars PROVE IInv'
    OBVIOUS
  <2>1. CASE CallEncrypt \/ CallDecrypt \/ CallXor
    BY <2>1, CallEncryptIInv, CallDecryptIInv, CallXorIInv
  <2>2. CASE RejectArguments \/ RejectTag \/ RejectCounter
    BY <2>2, RejectIInv, RejectCounterIInv
  <2>3. CASE BeginEncrypt \/ BeginDecrypt \/ BeginXor
    BY <2>3, BeginAeadIInv, BeginXorIInv
  <2>4. CASE Stream \/ Return
    BY <2>4, StreamIInv, ReturnIInv
  <2>5. CASE UNCHANGED vars
    BY <2>5 DEF vars, IInv, Control, Output, NotCalled, Called, Arguments, Position, Drawn,
                TagSent, Sane, FailsEarly, Authentic, Size, BlockSet
  <2>. QED BY <2>1, <2>2, <2>3, <2>4, <2>5 DEF Next, Step
<1>. QED BY InitIInv, <1>1, PTL DEF Spec

\* The variables have their types, and as many octets are written as the position says.
THEOREM TypeCorrect == Spec => []TypeOK
<1>1. IInv => TypeOK
  <2>. SUFFICES ASSUME IInv PROVE TypeOK
    OBVIOUS
  <2>1. CASE NotCalled
    BY <2>1 DEF IInv, NotCalled, Control, Output, TypeOK
  <2>2. CASE Called
    BY <2>2, CalledProperties DEF IInv, Called, Arguments, Position, Control, Output, TypeOK, Size
  <2>. QED BY <2>1, <2>2 DEF IInv
<1>. QED BY <1>1, Inductive, PTL

\* A failing call has written nothing: no plaintext for an unauthenticated ciphertext,
\* and no error from a counter that wraps in the middle of the data.
THEOREM FailsEarlyCorrect == Spec => []FailsEarly
<1>1. IInv => FailsEarly
  BY DEF IInv
<1>. QED BY <1>1, Inductive, PTL

\* What a decryption accepts, an encryption has produced.
THEOREM AuthenticCorrect == Spec => []Authentic
<1>1. IInv => Authentic
  BY DEF IInv
<1>. QED BY <1>1, Inductive, PTL

\* No block of key stream is used twice in a call, whatever the sizes and the first counter.
THEOREM BlocksOnceCorrect == Spec => []BlocksOnce
<1>1. IInv => BlocksOnce
  <2>. SUFFICES ASSUME IInv, Blocks > 0, Blocks <= CounterSize[call.scheme],
                       NEW i \in 1 .. Blocks, NEW j \in 1 .. Blocks, i < j, drawn[i] = drawn[j]
                PROVE  FALSE
    <3>1. Blocks \in Nat
      BY EmptySeq, LenProperties DEF IInv, NotCalled, Called, Drawn, Blocks
    <3>. QED BY <3>1 DEF BlocksOnce
  <2>1. Called
    <3>1. Len(<<>>) = 0
      BY EmptySeq
    <3>. QED BY <3>1 DEF IInv, NotCalled, Blocks
  <2> DEFINE b == Base(call)
  <2>2. /\ Size \in Nat \ {0, 1} /\ Blocks \in Nat /\ Blocks <= Size
        /\ b \in 0 .. Size - 1
    <3>1. drawn # <<>>
      BY EmptySeq DEF Blocks
    <3>. QED BY <2>1, <3>1, SizeType, LenProperties DEF Called, Drawn, Blocks, Size
  <2>3. /\ drawn[i] = Block(call, (b + (i - 1)) % Size)
        /\ drawn[j] = Block(call, (b + (j - 1)) % Size)
    BY <2>1 DEF Called, Drawn, Blocks
  <2>4. (b + (i - 1)) % Size = (b + (j - 1)) % Size
    <3> DEFINE u == (b + (i - 1)) % Size
               v == (b + (j - 1)) % Size
    <3>1. Block(call, u) = Block(call, v)
      BY <2>3
    <3>2. Block(call, u).counter = u /\ Block(call, v).counter = v
      BY DEF Block
    <3>. HIDE DEF u, v
    <3>3. u = v
      BY <3>1, <3>2
    <3>. QED BY <3>3 DEF u, v
  <2>. HIDE DEF b
  <2> DEFINE x == b + (i - 1)
             d == j - i
  <2>5. x \in Nat /\ d \in 1 .. Size - 1 /\ b + (j - 1) = x + d
    BY <2>2
  <2>6. x % Size = (x + d) % Size
    BY <2>4, <2>5
  <2>. HIDE DEF x, d
  <2>. QED BY <2>2, <2>5, <2>6, ModuloDistinct
<1>. QED BY <1>1, Inductive, PTL

\* A call has enciphered what it has written, and every message kept is enciphered.
THEOREM ReversibleCorrect == Spec => []Reversible
<1>1. IInv /\ Reversible /\ [Next]_vars => Reversible'
  <2>. SUFFICES ASSUME IInv, Reversible, [Next]_vars PROVE Reversible'
    OBVIOUS
  <2>1. CASE CallEncrypt \/ CallDecrypt \/ CallXor
    BY <2>1, CallReversible
  <2>2. CASE RejectArguments \/ RejectTag \/ RejectCounter
    BY <2>2, RejectReversible
  <2>3. CASE BeginEncrypt \/ BeginDecrypt \/ BeginXor
    BY <2>3, BeginReversible
  <2>4. CASE Stream
    BY <2>4, StreamReversible
  <2>5. CASE Return
    BY <2>5, ReturnReversible
  <2>6. CASE UNCHANGED vars
    BY <2>6 DEF vars, Reversible, Streamed, IsAead, Ciphers, Enciphered, Enciphers, TagBlock, Verifies
  <2>. QED BY <2>1, <2>2, <2>3, <2>4, <2>5, <2>6 DEF Next, Step
<1>. QED BY InitReversible, <1>1, Inductive, PTL DEF Spec

\* A decryption that returns gives back the plaintext of the encryption that has produced
\* its tag, whatever the block function and the sizes.
THEOREM DecryptCorrect == Spec => []DecryptInverts
<1>1. IInv /\ Reversible => DecryptInverts
  <2>. SUFFICES ASSUME IInv, Reversible, outcome = "returned", call.op = "decrypt"
                PROVE  \E m \in sent : m.mac = call.tag /\ m.plaintext = out
    BY DEF DecryptInverts
  <2>1. call # NoCall
    BY DEF NoCall
  <2>2. PICK m \in sent : m.mac = call.tag /\ m.ciphertext = call.data
    BY <2>1 DEF IInv, Authentic
  <2>. QED BY <2>2, StreamCancels
<1>. QED BY <1>1, ReversibleCorrect, Inductive, PTL

-----------------------------------------------------------------------------
(* What is kept of a sequence of candidates.                                 *)

LEMMA StepInduction ==
  ASSUME NEW T, 0 \in T, \A n \in Nat : n \in T => n + 1 \in T
  PROVE  \A n \in Nat : n \in T
<1> SUFFICES ASSUME Nat \ T # {} PROVE FALSE
  OBVIOUS
<1>1. IsWellFoundedOn(OpToRel(<, Nat), Nat)
  BY NatLessThanWellFounded
<1>2. PICK m \in Nat \ T : \A k \in Nat \ T : ~(<<k, m>> \in OpToRel(<, Nat))
  BY <1>1, WFMin
<1>3. \A k \in Nat \ T : ~(k < m)
  BY <1>2 DEF OpToRel
<1>4. m # 0
  OBVIOUS
<1>5. m - 1 \in Nat /\ m - 1 \in T
  BY <1>3, <1>4
<1> QED BY <1>5

LEMMA KeptUnfolded ==
  ASSUME NEW S, NEW cands \in Seq(S), NEW bound
  PROVE  /\ Kept(cands, bound)[0] = <<>>
         /\ \A n \in Nat : n < Len(cands) =>
              Kept(cands, bound)[n + 1] =
                IF cands[n + 1] < bound THEN Append(Kept(cands, bound)[n], cands[n + 1]) ELSE Kept(cands, bound)[n]
<1> DEFINE B(f, n) == IF n = 0 THEN <<>>
                      ELSE IF cands[n] < bound THEN Append(f[n - 1], cands[n]) ELSE f[n - 1]
           Ok(f, n) == \A k \in 0 .. n : f[k] = B(f, k)
           N == Len(cands)
<1>0. N \in Nat
  OBVIOUS
<1>1. ASSUME NEW f, NEW g, NEW n \in Nat, \A k \in 0 .. n - 1 : f[k] = g[k]
      PROVE  B(f, n) = B(g, n)
  <2>1. n # 0 => n - 1 \in 0 .. n - 1
    OBVIOUS
  <2> QED BY <1>1, <2>1, Zenon
<1>a. Kept(cands, bound) = CHOOSE f : f = [n \in 0 .. N |-> B(f, n)]
  BY DEF Kept
<1>. HIDE DEF B, N
<1>2. \A n \in Nat : \E f : Ok(f, n)
  <2> DEFINE T == {n \in Nat : \E f : Ok(f, n)}
  <2>1. 0 \in T
    <3> DEFINE g == [k \in 0 .. 0 |-> B(<<>>, 0)]
    <3>1. B(g, 0) = B(<<>>, 0)
      BY <1>1
    <3>2. Ok(g, 0)
      BY <3>1
    <3> QED BY <3>2
  <2>2. ASSUME NEW n \in Nat, n \in T PROVE n + 1 \in T
    <3>1. PICK f : Ok(f, n)
      BY <2>2
    <3> DEFINE g == [k \in 0 .. n + 1 |-> IF k <= n THEN f[k] ELSE B(f, n + 1)]
    <3>2. \A k \in 0 .. n : g[k] = f[k]
      OBVIOUS
    <3>3. g[n + 1] = B(f, n + 1)
      OBVIOUS
    <3>. HIDE DEF g
    <3>4. \A k \in 0 .. n + 1 : B(g, k) = B(f, k)
      <4> TAKE k \in 0 .. n + 1
      <4>1. k \in Nat /\ \A i \in 0 .. k - 1 : g[i] = f[i]
        BY <3>2
      <4> QED BY <4>1, <1>1
    <3>5. \A k \in 0 .. n + 1 : k \in 0 .. n \/ k = n + 1
      OBVIOUS
    <3>6. Ok(g, n + 1)
      BY <3>1, <3>2, <3>3, <3>4, <3>5
    <3> QED BY <3>6
  <2>. HIDE DEF T
  <2>3. \A n \in Nat : n \in T
    BY <2>1, <2>2, StepInduction
  <2> QED BY <2>3 DEF T
<1>3. PICK f : Ok(f, N)
  BY <1>0, <1>2
<1> DEFINE F == [k \in 0 .. N |-> f[k]]
<1>4. ASSUME NEW k \in 0 .. N PROVE F[k] = B(F, k)
  <2>1. f[k] = B(f, k)
    BY <1>3
  <2>2. k \in Nat /\ \A i \in 0 .. k - 1 : f[i] = F[i]
    BY <1>0
  <2>. HIDE DEF F
  <2>3. B(f, k) = B(F, k)
    BY <2>2, <1>1
  <2> QED BY <2>1, <2>3 DEF F
<1>5. F = [k \in 0 .. N |-> F[k]]
  OBVIOUS
<1>6. \E g : g = [k \in 0 .. N |-> B(g, k)]
  <2>. HIDE DEF F
  <2>1. F = [k \in 0 .. N |-> B(F, k)]
    BY <1>4, <1>5
  <2> QED BY <2>1
<1>7. Kept(cands, bound) = [n \in 0 .. N |-> B(Kept(cands, bound), n)]
  BY <1>a, <1>6
<1>8. PICK kept : kept = Kept(cands, bound) /\ \A n \in 0 .. N : kept[n] = B(kept, n)
  <2>1. \A n \in 0 .. N : Kept(cands, bound)[n] = B(Kept(cands, bound), n)
    BY <1>7
  <2> QED BY <2>1
<1>9. kept[0] = <<>>
  <2>1. 0 \in 0 .. N
    BY <1>0
  <2>2. kept[0] = B(kept, 0)
    BY <1>8, <2>1
  <2> QED BY <2>2, Zenon DEF B
<1>10. ASSUME NEW n \in Nat, n < N
       PROVE  kept[n + 1] = IF cands[n + 1] < bound THEN Append(kept[n], cands[n + 1]) ELSE kept[n]
  <2>1. n + 1 \in 0 .. N /\ n + 1 # 0 /\ (n + 1) - 1 = n
    BY <1>0, <1>10
  <2>2. kept[n + 1] = B(kept, n + 1)
    BY <1>8, <2>1
  <2> QED BY <2>1, <2>2, Zenon DEF B
<1> QED BY <1>8, <1>9, <1>10, Zenon DEF N

LEMMA KeptBelow ==
  ASSUME NEW S, NEW cands \in Seq(S), NEW bound, NEW U, U = {v \in S : v < bound}
  PROVE  \A n \in Nat : n <= Len(cands) => Kept(cands, bound)[n] \in Seq(U)
<1> DEFINE T == {n \in Nat : n <= Len(cands) => Kept(cands, bound)[n] \in Seq(U)}
<1>1. 0 \in T
  <2>1. Kept(cands, bound)[0] \in Seq(U)
    <3>1. Kept(cands, bound)[0] = <<>>
      BY KeptUnfolded, Zenon
    <3> QED BY <3>1
  <2> QED BY <2>1
<1>2. ASSUME NEW n \in Nat, n \in T, n + 1 <= Len(cands) PROVE Kept(cands, bound)[n + 1] \in Seq(U)
  <2>1. n < Len(cands) /\ cands[n + 1] \in S
    BY <1>2
  <2>2. PICK s \in Seq(U) : s = Kept(cands, bound)[n]
    <3>1. n <= Len(cands)
      BY <2>1
    <3>2. Kept(cands, bound)[n] \in Seq(U)
      BY <1>2, <3>1, Zenon DEF T
    <3> QED BY <3>2, Zenon
  <2>3. PICK v \in S : v = cands[n + 1]
    BY <2>1
  <2>4. Kept(cands, bound)[n + 1] = IF v < bound THEN Append(s, v) ELSE s
    BY <2>1, <2>2, <2>3, KeptUnfolded
  <2>5. CASE v < bound
    <3>1. v \in U
      BY <2>5
    <3>2. Append(s, v) \in Seq(U)
      BY <3>1
    <3> QED BY <2>4, <2>5, <3>2
  <2>6. CASE ~(v < bound)
    BY <2>4, <2>6
  <2> QED BY <2>5, <2>6
<1>3. \A n \in Nat : n \in T => n + 1 \in T
  <2>1. \A n \in Nat : n + 1 \in Nat
    OBVIOUS
  <2> QED BY <1>2, <2>1
<1>. HIDE DEF T
<1>4. \A n \in Nat : n \in T
  BY <1>1, <1>3, StepInduction
<1> QED BY <1>4 DEF T

LEMMA KeptType ==
  ASSUME NEW S, NEW cands \in Seq(S), NEW bound
  PROVE  \A n \in Nat : n <= Len(cands) => Kept(cands, bound)[n] \in Seq(S)
<1>1. PICK U : U = {v \in S : v < bound}
  OBVIOUS
<1>2. \A n \in Nat : n <= Len(cands) => Kept(cands, bound)[n] \in Seq(U)
  BY <1>1, KeptBelow
<1>3. \A s \in Seq(U) : s \in Seq(S)
  BY <1>1
<1> QED BY <1>2, <1>3, Zenon

\* s is t or a beginning of it.
Begins(s, t) == Len(s) <= Len(t) /\ \A i \in 1 .. Len(s) : s[i] = t[i]

LEMMA KeptGrows ==
  ASSUME NEW S, NEW cands \in Seq(S), NEW bound, NEW m \in Nat, m <= Len(cands)
  PROVE  Begins(Kept(cands, bound)[m], Kept(cands, bound)[Len(cands)])
<1>1. PICK N \in Nat : N = Len(cands)
  OBVIOUS
<1> DEFINE T == {d \in Nat : m + d <= N => Begins(Kept(cands, bound)[m], Kept(cands, bound)[m + d])}
<1>2. \A n \in Nat : n <= N => Kept(cands, bound)[n] \in Seq(S)
  BY <1>1, KeptType
<1>3. 0 \in T
  <2>1. PICK s \in Seq(S) : s = Kept(cands, bound)[m]
    BY <1>1, <1>2
  <2>2. Begins(s, s)
    BY DEF Begins
  <2>3. m + 0 = m
    OBVIOUS
  <2> QED BY <2>1, <2>2, <2>3
<1>4. ASSUME NEW d \in Nat, d \in T, m + (d + 1) <= N
      PROVE  Begins(Kept(cands, bound)[m], Kept(cands, bound)[m + (d + 1)])
  <2>1. PICK n \in Nat : n = m + d /\ n + 1 = m + (d + 1) /\ n < N /\ m <= N
    <3>1. m + d \in Nat /\ (m + d) + 1 = m + (d + 1) /\ m + d < N /\ m <= N
      BY <1>4
    <3> QED BY <3>1
  <2>2. PICK s \in Seq(S) : s = Kept(cands, bound)[m]
    BY <1>2, <2>1
  <2>3. PICK t \in Seq(S) : t = Kept(cands, bound)[n]
    BY <1>2, <2>1
  <2>4. PICK v \in S : v = cands[n + 1]
    BY <1>1, <2>1
  <2>5. Kept(cands, bound)[n + 1] = IF v < bound THEN Append(t, v) ELSE t
    BY <1>1, <2>1, <2>3, <2>4, KeptUnfolded
  <2>6. Begins(s, t)
    <3>1. m + d <= N
      BY <2>1
    <3> QED BY <1>4, <2>1, <2>2, <2>3, <3>1
  <2>7. Begins(s, Append(t, v))
    BY <2>6 DEF Begins
  <2>8. Begins(s, IF v < bound THEN Append(t, v) ELSE t)
    BY <2>6, <2>7, Zenon
  <2> QED BY <2>1, <2>2, <2>5, <2>8, Zenon
<1>5. \A d \in Nat : d \in T => d + 1 \in T
  <2>1. \A d \in Nat : d + 1 \in Nat
    OBVIOUS
  <2> QED BY <1>4, <2>1, Zenon
<1>. HIDE DEF T
<1>6. \A d \in Nat : d \in T
  BY <1>3, <1>5, StepInduction
<1>7. N - m \in Nat /\ m + (N - m) = N
  BY <1>1
<1>8. Begins(Kept(cands, bound)[m], Kept(cands, bound)[m + (N - m)])
  <2>1. N - m \in T /\ m + (N - m) <= N
    BY <1>6, <1>7
  <2> QED BY <2>1, Zenon DEF T
<1> QED BY <1>1, <1>7, <1>8, Zenon

-----------------------------------------------------------------------------
(* The coefficients are the first that are kept.                             *)

\* c is s, or its first SampleSize entries.
IsFirst(c, s) == Begins(c, s) /\ Len(c) <= SampleSize /\ (Len(c) < SampleSize => Len(c) = Len(s))

LEMMA Pushed ==
  ASSUME NEW S, NEW c \in Seq(S), NEW s \in Seq(S), NEW v \in S, NEW bound, IsFirst(c, s)
  PROVE  /\ Push(c, v, bound) \in Seq(S)
         /\ IsFirst(Push(c, v, bound), IF v < bound THEN Append(s, v) ELSE s)
<1>1. PICK l \in Nat, n \in Nat : l = Len(c) /\ n = Len(s)
  OBVIOUS
<1>2. SampleSize \in Nat
  BY XofAssumption
<1>3. CASE v < bound /\ l < SampleSize
  <2>1. Push(c, v, bound) = Append(c, v)
    BY <1>1, <1>3, Zenon DEF Push
  <2>2. IsFirst(Append(c, v), Append(s, v))
    <3>1. l = n /\ \A i \in 1 .. l : c[i] = s[i]
      BY <1>1, <1>3, Zenon DEF IsFirst, Begins
    <3>2. PICK a \in Seq(S), b \in Seq(S) : /\ a = Append(c, v) /\ b = Append(s, v)
                                           /\ Len(a) = Len(c) + 1 /\ Len(b) = Len(s) + 1
      <4>1. /\ Append(c, v) \in Seq(S) /\ Append(s, v) \in Seq(S)
            /\ Len(Append(c, v)) = Len(c) + 1 /\ Len(Append(s, v)) = Len(s) + 1
        BY AppendProperties
      <4> QED BY <4>1
    <3>3. Len(a) = l + 1 /\ Len(b) = l + 1
      BY <1>1, <3>1, <3>2
    <3>4. \A i \in 1 .. l + 1 : a[i] = IF i <= l THEN c[i] ELSE v
      BY <1>1, <3>2
    <3>5. \A i \in 1 .. l + 1 : b[i] = IF i <= l THEN s[i] ELSE v
      BY <1>1, <3>1, <3>2
    <3>6. \A i \in 1 .. l + 1 : a[i] = b[i]
      BY <3>1, <3>4, <3>5
    <3>7. Begins(a, b)
      BY <3>3, <3>6 DEF Begins
    <3>8. IsFirst(a, b)
      BY <1>2, <1>3, <3>3, <3>7 DEF IsFirst
    <3> QED BY <3>2, <3>8, Zenon
  <2>3. Append(c, v) \in Seq(S)
    OBVIOUS
  <2> QED BY <1>3, <2>1, <2>2, <2>3, Zenon
<1>4. CASE ~(v < bound)
  <2>1. Push(c, v, bound) = c
    BY <1>4, Zenon DEF Push
  <2> QED BY <1>4, <2>1, Zenon
<1>5. CASE v < bound /\ ~(l < SampleSize)
  <2>1. Push(c, v, bound) = c
    BY <1>1, <1>5, Zenon DEF Push
  <2>2. IsFirst(c, Append(s, v))
    <3>1. l <= n /\ l <= SampleSize /\ \A i \in 1 .. l : c[i] = s[i]
      BY <1>1, Zenon DEF IsFirst, Begins
    <3>2. Begins(c, Append(s, v))
      BY <1>1, <3>1 DEF Begins
    <3> QED BY <1>1, <1>2, <1>5, <3>1, <3>2 DEF IsFirst
  <2> QED BY <1>5, <2>1, <2>2, Zenon
<1> QED BY <1>3, <1>4, <1>5

\* c is the first of what is kept of n candidates.
Holds(c, cands, bound, n) == c \in Seq(Nat) /\ IsFirst(c, Kept(cands, bound)[n])

LEMMA OnePushed ==
  ASSUME NEW cands \in Seq(Nat), NEW bound, NEW c, NEW n \in Nat, n < Len(cands),
         Holds(c, cands, bound, n), NEW v, v = cands[n + 1]
  PROVE  Holds(Push(c, v, bound), cands, bound, n + 1)
<1>1. PICK s \in Seq(Nat) : s = Kept(cands, bound)[n]
  BY KeptType
<1>2. c \in Seq(Nat) /\ IsFirst(c, s)
  BY <1>1, Zenon DEF Holds
<1>3. v \in Nat
  OBVIOUS
<1>4. Push(c, v, bound) \in Seq(Nat) /\ IsFirst(Push(c, v, bound), IF v < bound THEN Append(s, v) ELSE s)
  BY <1>2, <1>3, Pushed
<1>5. Kept(cands, bound)[n + 1] = IF v < bound THEN Append(s, v) ELSE s
  BY <1>1, KeptUnfolded
<1> QED BY <1>4, <1>5, Zenon DEF Holds

LEMMA Complete ==
  ASSUME NEW cands \in Seq(Nat), NEW bound, NEW c, NEW n \in Nat, n <= Len(cands),
         Holds(c, cands, bound, n), Len(c) >= SampleSize
  PROVE  c = SubSeq(Kept(cands, bound)[Len(cands)], 1, SampleSize) /\ Len(c) = SampleSize
<1>1. PICK s \in Seq(Nat), t \in Seq(Nat) : s = Kept(cands, bound)[n] /\ t = Kept(cands, bound)[Len(cands)]
  <2>1. Len(cands) \in Nat
    OBVIOUS
  <2> QED BY <2>1, KeptType
<1>2. Begins(s, t)
  BY <1>1, KeptGrows
<1>3. c \in Seq(Nat) /\ Begins(c, s) /\ Len(c) <= SampleSize
  BY <1>1, Zenon DEF Holds, IsFirst
<1>4. SampleSize \in Nat /\ Len(c) = SampleSize
  BY <1>3, XofAssumption
<1>5. SampleSize <= Len(t) /\ \A i \in 1 .. SampleSize : c[i] = t[i]
  <2>1. Len(c) <= Len(s) /\ \A i \in 1 .. Len(c) : c[i] = s[i]
    BY <1>3, Zenon DEF Begins
  <2>2. Len(s) <= Len(t) /\ \A i \in 1 .. Len(s) : s[i] = t[i]
    BY <1>2, Zenon DEF Begins
  <2>3. PICK l \in Nat, m \in Nat : l = Len(s) /\ m = Len(t)
    BY <1>1
  <2>4. SampleSize <= l /\ l <= m
    BY <1>4, <2>1, <2>2, <2>3
  <2>5. \A i \in 1 .. SampleSize : c[i] = s[i] /\ s[i] = t[i]
    <3>1. \A i \in 1 .. SampleSize : i \in 1 .. l
      BY <1>4, <2>3, <2>4
    <3> QED BY <1>4, <2>1, <2>2, <2>3, <3>1
  <2>6. SampleSize <= m
    BY <1>4, <2>3, <2>4
  <2> QED BY <2>3, <2>5, <2>6, Zenon
<1>6. c = SubSeq(t, 1, SampleSize)
  BY <1>3, <1>4, <1>5
<1> QED BY <1>1, <1>4, <1>6, Zenon

-----------------------------------------------------------------------------
(* The candidates that the octets of a read make.                            *)

LEMMA OctetType ==
  ASSUME NEW v \in 0 .. 255
  PROVE  v \in Nat /\ v % 16 < 16 /\ v \div 16 < 16
<1>1. v \in Nat
  BY SMT
<1>2. v % 16 < 16
  BY SMT
<1>3. v \div 16 < 16
  BY SMT
<1> QED BY <1>1, <1>2, <1>3

LEMMA JoinedType ==
  ASSUME NEW a \in Nat, NEW b \in Nat, NEW c \in Nat
  PROVE  Joined(a, b, c) \in Nat
BY SMT DEF Joined

\* The low bits of three octets, in two ways.
SameLow(a, b, c)  == Joined(a, b, c % 128) = Joined(a, b, c) % Range23
SameHalf(a, b, c) == /\ a + 256 * (b % 16) = Joined(a, b, c) % Range12
                     /\ (b \div 16) + 16 * c = Joined(a, b, c) \div Range12

LEMMA Low23 ==
  ASSUME NEW a \in 0 .. 255, NEW b \in 0 .. 255, NEW c \in 0 .. 255
  PROVE  SameLow(a, b, c)
<1>1. PICK q \in Nat, r \in 0 .. 127 : c = 128 * q + r /\ r = c % 128
  <2>1. c \div 128 \in Nat /\ c % 128 \in 0 .. 127 /\ c = 128 * (c \div 128) + (c % 128)
    BY SMT
  <2> QED BY <2>1, SMT
<1>2. PICK rest \in Nat : rest = Joined(a, b, r) /\ rest < Range23
  <2>1. Joined(a, b, r) \in Nat /\ Joined(a, b, r) < Range23
    BY SMT DEF Joined, Range23
  <2> QED BY <2>1, SMT
<1>3. Joined(a, b, c) = Range23 * q + rest
  BY <1>1, <1>2, SMT DEF Joined, Range23
<1>4. (Range23 * q + rest) % Range23 = rest
  BY <1>2, SMT DEF Range23
<1>5. Joined(a, b, c % 128) = Joined(a, b, c) % Range23
  BY <1>1, <1>2, <1>3, <1>4, SMT
<1> QED BY <1>5 DEF SameLow

LEMMA Twelve ==
  ASSUME NEW a \in 0 .. 255, NEW b \in 0 .. 255, NEW c \in 0 .. 255
  PROVE  SameHalf(a, b, c)
<1>1. PICK q \in Nat, r \in 0 .. 15 : b = 16 * q + r /\ r = b % 16 /\ q = b \div 16
  <2>1. b \div 16 \in Nat /\ b % 16 \in 0 .. 15 /\ b = 16 * (b \div 16) + (b % 16)
    BY SMT
  <2> QED BY <2>1, SMT
<1>2. PICK rest \in Nat, high \in Nat : rest = a + 256 * r /\ rest < Range12 /\ high = q + 16 * c
  <2>1. a + 256 * r \in Nat /\ a + 256 * r < Range12 /\ q + 16 * c \in Nat
    BY SMT DEF Range12
  <2> QED BY <2>1, SMT
<1>3. Joined(a, b, c) = Range12 * high + rest
  BY <1>1, <1>2, SMT DEF Joined, Range12
<1>4. (Range12 * high + rest) % Range12 = rest /\ (Range12 * high + rest) \div Range12 = high
  BY <1>2, SMT DEF Range12
<1>5. /\ a + 256 * (b % 16) = Joined(a, b, c) % Range12
      /\ (b \div 16) + 16 * c = Joined(a, b, c) \div Range12
  BY <1>1, <1>2, <1>3, <1>4, SMT
<1> QED BY <1>5 DEF SameHalf

\* v is candidate n + 1, w the one after it.
IsNext(cands, n, v) == n < Len(cands) /\ cands[n + 1] = v

LEMMA PartsType ==
  ASSUME NEW v \in Nat, NEW size \in Nat \ {0}
  PROVE  v % size \in Nat /\ v \div size \in Nat
OBVIOUS

\* The numbers of the triples of a stream.
LEMMA TripleIs ==
  ASSUME NEW stream \in Seq(0 .. 255), NEW r \in Nat, NEW off \in Nat, off = 3 * r, off + 3 <= Len(stream)
  PROVE  /\ stream[off + 1] \in 0 .. 255 /\ stream[off + 2] \in 0 .. 255 /\ stream[off + 3] \in 0 .. 255
         /\ Triple(stream, r + 1) = Joined(stream[off + 1], stream[off + 2], stream[off + 3])
<1>1. PICK l \in Nat : l = Len(stream)
  OBVIOUS
<1>2. off + 1 \in 1 .. l /\ off + 2 \in 1 .. l /\ off + 3 \in 1 .. l
  BY <1>1
<1>3. stream[off + 1] \in 0 .. 255 /\ stream[off + 2] \in 0 .. 255 /\ stream[off + 3] \in 0 .. 255
  BY <1>1, <1>2
<1>4. 3 * (r + 1) - 2 = off + 1 /\ 3 * (r + 1) - 1 = off + 2 /\ 3 * (r + 1) = off + 3
  OBVIOUS
<1>5. Triple(stream, r + 1) = Joined(stream[off + 1], stream[off + 2], stream[off + 3])
  BY <1>4 DEF Triple
<1> QED BY <1>3, <1>5

LEMMA Triples ==
  ASSUME NEW stream \in Seq(0 .. 255)
  PROVE  \E n \in Nat : /\ n = Len(stream) \div 3
                        /\ \A r \in Nat : r < n <=> 3 * r + 3 <= Len(stream)
                        /\ \A k \in 1 .. n : Triple(stream, k) \in Nat
<1>1. PICK l \in Nat : l = Len(stream)
  OBVIOUS
<1>2. PICK n \in Nat : n = l \div 3
  OBVIOUS
<1>3. \A r \in Nat : r < n <=> 3 * r + 3 <= l
  BY <1>2
<1>4. ASSUME NEW k \in 1 .. n PROVE Triple(stream, k) \in Nat
  <2>1. PICK r \in Nat : k = r + 1 /\ r < n
    <3>1. k - 1 \in Nat /\ k = (k - 1) + 1 /\ k - 1 < n
      OBVIOUS
    <3> QED BY <3>1
  <2>2. PICK off \in Nat : off = 3 * r /\ off + 3 <= l
    BY <1>3, <2>1
  <2>3. /\ stream[off + 1] \in 0 .. 255 /\ stream[off + 2] \in 0 .. 255 /\ stream[off + 3] \in 0 .. 255
        /\ Triple(stream, r + 1) = Joined(stream[off + 1], stream[off + 2], stream[off + 3])
    BY <1>1, <2>1, <2>2, TripleIs
  <2>4. Joined(stream[off + 1], stream[off + 2], stream[off + 3]) \in Nat
    <3>1. stream[off + 1] \in Nat /\ stream[off + 2] \in Nat /\ stream[off + 3] \in Nat
      BY <2>3, OctetType, Zenon
    <3> QED BY <3>1, JoinedType, Zenon
  <2> QED BY <2>1, <2>3, <2>4, Zenon
<1> QED BY <1>1, <1>2, <1>3, <1>4, Zenon

LEMMA NttCandidates ==
  ASSUME NEW stream \in Seq(0 .. 255), NEW cands, cands = Candidates(stream, "rej_ntt_poly")
  PROVE  /\ cands \in Seq(Nat)
         /\ \A r \in Nat : 3 * r + 3 <= Len(stream) => IsNext(cands, r, Triple(stream, r + 1) % Range23)
<1>1. PICK n \in Nat : /\ n = Len(stream) \div 3
                       /\ \A r \in Nat : r < n <=> 3 * r + 3 <= Len(stream)
                       /\ \A k \in 1 .. n : Triple(stream, k) \in Nat
  BY Triples
<1>2. cands = [k \in 1 .. n |-> Triple(stream, k) % Range23]
  BY <1>1 DEF Candidates
<1>3. \A k \in 1 .. n : Triple(stream, k) % Range23 \in Nat
  <2>1. Range23 \in Nat \ {0}
    BY SMT DEF Range23
  <2> QED BY <1>1, <2>1, PartsType
<1>4. cands \in Seq(Nat) /\ Len(cands) = n
  BY <1>2, <1>3
<1>5. ASSUME NEW r \in Nat, 3 * r + 3 <= Len(stream) PROVE IsNext(cands, r, Triple(stream, r + 1) % Range23)
  <2>1. r < n
    BY <1>1, <1>5
  <2>2. r + 1 \in 1 .. n
    BY <2>1
  <2>3. cands[r + 1] = Triple(stream, r + 1) % Range23
    BY <1>2, <2>2
  <2> QED BY <1>4, <2>1, <2>3, Zenon DEF IsNext
<1> QED BY <1>4, <1>5

LEMMA Odd ==
  ASSUME NEW r \in Nat
  PROVE  /\ (2 * r + 1) % 2 = 1 /\ ((2 * r + 1) + 1) \div 2 = r + 1
         /\ (2 * r + 2) % 2 # 1 /\ ((2 * r + 2) + 1) \div 2 = r + 1
<1>1. (2 * r + 1) % 2 = 1 /\ (2 * r + 2) % 2 = 0 /\ (2 * r + 2) \div 2 = r + 1 /\ (2 * r + 3) \div 2 = r + 1
  OBVIOUS
<1>2. (2 * r + 1) + 1 = 2 * r + 2 /\ (2 * r + 2) + 1 = 2 * r + 3
  OBVIOUS
<1> QED BY <1>1, <1>2

\* Candidates that are the lower and the upper parts of numbers.
LEMMA Parts ==
  ASSUME NEW n \in Nat, NEW F, NEW size \in Nat \ {0}, NEW cands,
         \A k \in 1 .. n : F[k] \in Nat,
         cands = [k \in 1 .. 2 * n |-> Part(F[(k + 1) \div 2], k, size)]
  PROVE  /\ cands \in Seq(Nat)
         /\ \A r \in Nat : r < n => /\ IsNext(cands, 2 * r, F[r + 1] % size)
                                    /\ IsNext(cands, 2 * r + 1, F[r + 1] \div size)
<1>1. \A k \in 1 .. 2 * n : cands[k] \in Nat
  <2>1. ASSUME NEW k \in 1 .. 2 * n PROVE cands[k] \in Nat
    <3>1. PICK m : m = (k + 1) \div 2
      OBVIOUS
    <3>2. m \in 1 .. n
      BY <3>1
    <3>3. PICK v \in Nat : v = F[m]
      BY <3>2
    <3>4. v % size \in Nat /\ v \div size \in Nat
      BY PartsType
    <3>5. cands[k] = IF k % 2 = 1 THEN v % size ELSE v \div size
      BY <3>1, <3>3, Zenon DEF Part
    <3> QED BY <3>4, <3>5, Zenon
  <2> QED BY <2>1
<1>2. DOMAIN cands = 1 .. 2 * n /\ cands = [k \in 1 .. 2 * n |-> cands[k]]
  BY Zenon
<1>3. cands \in Seq(Nat) /\ Len(cands) = 2 * n
  <2>. HIDE DEF IsNext
  <2>1. PICK c : c = cands
    OBVIOUS
  <2>2. c = [k \in 1 .. 2 * n |-> c[k]] /\ \A k \in 1 .. 2 * n : c[k] \in Nat
    BY <1>1, <1>2, <2>1, Zenon
  <2>3. c \in [1 .. 2 * n -> Nat]
    BY <2>2
  <2>4. 2 * n \in Nat
    OBVIOUS
  <2>5. c \in Seq(Nat) /\ Len(c) = 2 * n
    BY <2>3, <2>4
  <2> QED BY <2>1, <2>5
<1>4. ASSUME NEW r \in Nat, r < n
      PROVE  /\ IsNext(cands, 2 * r, F[r + 1] % size)
             /\ IsNext(cands, 2 * r + 1, F[r + 1] \div size)
  <2>1. /\ 2 * r + 1 \in 1 .. 2 * n /\ 2 * r + 2 \in 1 .. 2 * n /\ (2 * r + 1) + 1 = 2 * r + 2
        /\ 2 * r < 2 * n /\ 2 * r + 1 < 2 * n
    BY <1>4
  <2>2. cands[2 * r + 1] = F[r + 1] % size
    BY <2>1, Odd, Zenon DEF Part
  <2>3. cands[2 * r + 2] = F[r + 1] \div size
    BY <2>1, Odd, Zenon DEF Part
  <2> QED BY <1>3, <2>1, <2>2, <2>3, Zenon DEF IsNext
<1> QED BY <1>3, <1>4, Zenon

LEMMA KemCandidates ==
  ASSUME NEW stream \in Seq(0 .. 255), NEW cands, cands = Candidates(stream, "sample_ntt")
  PROVE  /\ cands \in Seq(Nat)
         /\ \A r \in Nat : 3 * r + 3 <= Len(stream) =>
              /\ IsNext(cands, 2 * r, Triple(stream, r + 1) % Range12)
              /\ IsNext(cands, 2 * r + 1, Triple(stream, r + 1) \div Range12)
<1>1. PICK n \in Nat : /\ n = Len(stream) \div 3
                       /\ \A r \in Nat : r < n <=> 3 * r + 3 <= Len(stream)
                       /\ \A k \in 1 .. n : Triple(stream, k) \in Nat
  BY Triples
<1>2. cands = [k \in 1 .. 2 * n |-> Part(Triple(stream, (k + 1) \div 2), k, Range12)]
  BY <1>1 DEF Candidates
<1>3. PICK F : F = [k \in 1 .. n |-> Triple(stream, k)]
  OBVIOUS
<1>4. \A k \in 1 .. n : F[k] = Triple(stream, k) /\ F[k] \in Nat
  BY <1>1, <1>3
<1>5. cands = [k \in 1 .. 2 * n |-> Part(F[(k + 1) \div 2], k, Range12)]
  <2>1. \A k \in 1 .. 2 * n : F[(k + 1) \div 2] = Triple(stream, (k + 1) \div 2)
    <3>1. \A k \in 1 .. 2 * n : (k + 1) \div 2 \in 1 .. n
      OBVIOUS
    <3> QED BY <1>4, <3>1, SMT
  <2> QED BY <1>2, <2>1, Zenon
<1>6. Range12 \in Nat \ {0}
  BY SMT DEF Range12
<1>7. /\ cands \in Seq(Nat)
      /\ \A r \in Nat : r < n => /\ IsNext(cands, 2 * r, F[r + 1] % Range12)
                                 /\ IsNext(cands, 2 * r + 1, F[r + 1] \div Range12)
  BY <1>4, <1>5, <1>6, Parts
<1>8. \A r \in Nat : r < n => r + 1 \in 1 .. n
  OBVIOUS
<1> QED BY <1>1, <1>4, <1>7, <1>8, Zenon

LEMMA BoundedCandidates ==
  ASSUME NEW stream \in Seq(0 .. 255), NEW cands, cands = Candidates(stream, "rej_bounded_poly")
  PROVE  /\ cands \in Seq(Nat)
         /\ \A r \in Nat : r < Len(stream) =>
              /\ IsNext(cands, 2 * r, stream[r + 1] % 16)
              /\ IsNext(cands, 2 * r + 1, stream[r + 1] \div 16)
         /\ \A k \in 1 .. Len(cands) : cands[k] < 16
<1>1. PICK n \in Nat : n = Len(stream)
  OBVIOUS
<1>2. cands = [k \in 1 .. 2 * n |-> Part(stream[(k + 1) \div 2], k, 16)]
  BY <1>1 DEF Candidates
<1>3. \A k \in 1 .. n : stream[k] \in 0 .. 255 /\ stream[k] \in Nat
  <2>1. \A k \in 1 .. n : stream[k] \in 0 .. 255
    BY <1>1
  <2> QED BY <2>1, OctetType, Zenon
<1>4. /\ cands \in Seq(Nat)
      /\ \A r \in Nat : r < n => /\ IsNext(cands, 2 * r, stream[r + 1] % 16)
                                 /\ IsNext(cands, 2 * r + 1, stream[r + 1] \div 16)
  BY <1>2, <1>3, Parts, 16 \in Nat \ {0}
<1>5. ASSUME NEW k \in 1 .. Len(cands) PROVE cands[k] < 16
  <2>1. k \in 1 .. 2 * n
    BY <1>2, <1>4
  <2>2. (k + 1) \div 2 \in 1 .. n
    BY <2>1
  <2>3. PICK v \in 0 .. 255 : v = stream[(k + 1) \div 2]
    BY <1>3, <2>2
  <2>4. cands[k] = IF k % 2 = 1 THEN v % 16 ELSE v \div 16
    BY <1>2, <2>1, <2>3, Zenon DEF Part
  <2>5. v % 16 < 16 /\ v \div 16 < 16
    BY <2>3, OctetType, Zenon
  <2> QED BY <2>4, <2>5, Zenon
<1> QED BY <1>1, <1>4, <1>5, Zenon

-----------------------------------------------------------------------------
(* A challenge.                                                              *)

Ternary == [1 .. SampleSize -> {0, 1, QDsa - 1}]

\* The coefficients after some signs were placed, all below position i.
Filled(c, i, placed) ==
  /\ c \in Ternary /\ Nonzero(c) \subseteq 1 .. i
  /\ IsFiniteSet(Nonzero(c)) /\ Cardinality(Nonzero(c)) = placed

LEMMA BallEmpty ==
  ASSUME NEW c, c = [i \in 1 .. SampleSize |-> 0], NEW i
  PROVE  Filled(c, i, 0)
<1>1. c \in Ternary
  BY DEF Ternary
<1>2. Nonzero(c) = {}
  BY DEF Nonzero
<1> QED BY <1>1, <1>2, FS_EmptySet DEF Filled

LEMMA BallFills ==
  ASSUME NEW i \in Nat, i < SampleSize, NEW j \in 0 .. i, NEW sign, NEW placed \in Nat, NEW c, Filled(c, i, placed)
  PROVE  Filled(BallPlaced(c, i, j, sign), i + 1, placed + 1)
<1>1. PICK q : q = QDsa - 1 /\ q # 0
  <2>1. QDsa - 1 # 0
    BY SMT DEF QDsa
  <2> QED BY <2>1
<1>2. PICK v : v = (IF sign = 0 THEN 1 ELSE q) /\ v \in {1, q} /\ v # 0
  <2>1. (IF sign = 0 THEN 1 ELSE q) \in {1, q} /\ (IF sign = 0 THEN 1 ELSE q) # 0
    BY <1>1
  <2> QED BY <2>1
<1>3. SampleSize \in Nat
  BY XofAssumption
<1>4. c \in [1 .. SampleSize -> {0, 1, q}]
  BY <1>1, Zenon DEF Filled, Ternary
<1>5. PICK d : d = [c EXCEPT ![i + 1] = c[j + 1], ![j + 1] = v]
  OBVIOUS
<1>6. i + 1 \in 1 .. SampleSize /\ j + 1 \in 1 .. SampleSize /\ j + 1 \in 1 .. i + 1
  BY <1>3
<1>7. d \in [1 .. SampleSize -> {0, 1, q}]
  BY <1>2, <1>4, <1>5, <1>6
<1>8. \A k \in 1 .. SampleSize : d[k] = IF k = j + 1 THEN v ELSE IF k = i + 1 THEN c[j + 1] ELSE c[k]
  BY <1>4, <1>5
<1>9. PICK N : N = Nonzero(c) /\ N = {k \in 1 .. SampleSize : c[k] # 0}
  BY <1>4 DEF Nonzero
<1>10. N \subseteq 1 .. i /\ IsFiniteSet(N) /\ Cardinality(N) = placed
  BY <1>9, Zenon DEF Filled
<1>11. i + 1 \notin N
  BY <1>10
<1>12. Nonzero(d) = {k \in 1 .. SampleSize : d[k] # 0}
  BY <1>7 DEF Nonzero
<1>13. PICK x : x \in 1 .. i + 1 /\ x \notin N /\ Nonzero(d) = N \cup {x}
  <2>1. CASE c[j + 1] = 0
    <3>1. j + 1 \notin N
      BY <1>6, <1>9, <2>1
    <3>2. \A k \in 1 .. SampleSize : d[k] # 0 <=> k \in N \/ k = j + 1
      BY <1>2, <1>6, <1>8, <1>9, <1>11, <2>1
    <3>3. Nonzero(d) = N \cup {j + 1}
      BY <1>6, <1>9, <1>12, <3>2
    <3> QED BY <1>6, <3>1, <3>3
  <2>2. CASE c[j + 1] # 0
    <3>1. j + 1 \in N /\ j + 1 # i + 1
      BY <1>6, <1>9, <1>11, <2>2
    <3>2. \A k \in 1 .. SampleSize : d[k] # 0 <=> k \in N \/ k = i + 1
      BY <1>2, <1>6, <1>8, <1>9, <2>2, <3>1
    <3>3. Nonzero(d) = N \cup {i + 1}
      BY <1>6, <1>9, <1>12, <3>2
    <3>4. i + 1 \in 1 .. i + 1
      OBVIOUS
    <3> QED BY <1>11, <3>3, <3>4
  <2> QED BY <2>1, <2>2
<1>14. Nonzero(d) \subseteq 1 .. i + 1
  BY <1>10, <1>13
<1>15. IsFiniteSet(Nonzero(d)) /\ Cardinality(Nonzero(d)) = placed + 1
  BY <1>10, <1>13, FS_AddElement
<1>16. Filled(d, i + 1, placed + 1)
  BY <1>1, <1>7, <1>14, <1>15, Zenon DEF Filled, Ternary
<1>17. BallPlaced(c, i, j, sign) = d
  BY <1>1, <1>2, <1>5, Zenon DEF BallPlaced
<1> QED BY <1>16, <1>17
-----------------------------------------------------------------------------
(* The invariant.                                                            *)

\* The buffer is a beginning of the stream, read up to off.
Held(stream, buf, off) ==
  /\ stream \in Seq(0 .. 255) /\ buf \in Seq(0 .. 255) /\ off \in Nat
  /\ Begins(buf, stream) /\ off <= Len(buf)

\* What a rejection sampler has after r reads.
Sampled(by, param, stream, off, coeffs, r) ==
  LET n == IF by = "rej_ntt_poly" THEN r ELSE 2 * r
  IN  /\ off = IF by = "rej_bounded_poly" THEN r ELSE 3 * r
      /\ n <= Len(Candidates(stream, by))
      /\ Holds(coeffs, Candidates(stream, by), Bound(by, param), n)

\* What a challenge has after some signs were placed.
Challenge(phase, param, coeffs, signs, placed) ==
  /\ \E S : signs \in Seq(S)
  /\ Len(signs) = 64 - placed
  /\ Filled(coeffs, SampleSize - param + placed, placed)
  /\ IF phase = "done" THEN placed = param ELSE placed < param

Good(phase, stream, by, param, buf, off, coeffs, signs) ==
  /\ phase \in {"read", "done"}
  /\ Held(stream, buf, off)
  /\ by \in {"rej_ntt_poly", "sample_ntt", "rej_bounded_poly", "sample_in_ball"}
  /\ by = "rej_bounded_poly" => param \in {2, 4}
  /\ by = "sample_in_ball" => param \in 1 .. 64 /\ param <= SampleSize
  /\ by # "sample_in_ball" =>
       /\ \E r \in Nat : Sampled(by, param, stream, off, coeffs, r)
       /\ phase = "done" => Len(coeffs) >= SampleSize
  /\ by = "sample_in_ball" =>
       \/ phase = "read" /\ signs = <<>>
       \/ \E placed \in Nat : Challenge(phase, param, coeffs, signs, placed)

XofIInv ==
  xof.stage # "idle" =>
    /\ xof = Sampling(xof.stage, xof.stream, xof.by, xof.param, xof.buf, xof.off, xof.coeffs, xof.signs)
    /\ Good(xof.stage, xof.stream, xof.by, xof.param, xof.buf, xof.off, xof.coeffs, xof.signs)

-----------------------------------------------------------------------------
(* A read.                                                                   *)

\* The octets of a read are those of the stream.
IsRead(stream, buf, off, w) == off + w <= Len(stream) /\ \A i \in 1 .. w : buf[off + i] = stream[off + i]

LEMMA Reads ==
  ASSUME NEW stream, NEW buf, NEW off, NEW w \in Nat, Held(stream, buf, off), Len(buf) - off >= w
  PROVE  Held(stream, buf, off + w) /\ IsRead(stream, buf, off, w)
<1>1. stream \in Seq(0 .. 255) /\ buf \in Seq(0 .. 255) /\ off \in Nat /\ off <= Len(buf)
  BY Zenon DEF Held
<1>2. Len(buf) <= Len(stream) /\ \A i \in 1 .. Len(buf) : buf[i] = stream[i]
  BY Zenon DEF Held, Begins
<1>3. PICK l \in Nat, m \in Nat : l = Len(buf) /\ m = Len(stream)
  BY <1>1
<1>4. off + w \in Nat /\ off + w <= l /\ off + w <= m
  BY <1>1, <1>2, <1>3
<1>5. Held(stream, buf, off + w)
  BY <1>1, <1>3, <1>4, Zenon DEF Held
<1>6. \A i \in 1 .. w : off + i \in 1 .. l
  BY <1>1, <1>4
<1>7. IsRead(stream, buf, off, w)
  BY <1>2, <1>3, <1>4, <1>6, Zenon DEF IsRead
<1> QED BY <1>5, <1>7

LEMMA Grew ==
  ASSUME NEW stream, NEW buf, NEW off, Held(stream, buf, off), Len(buf) + XofStep <= Len(stream)
  PROVE  Held(stream, Grown(stream, buf), off)
<1>1. stream \in Seq(0 .. 255) /\ buf \in Seq(0 .. 255) /\ off \in Nat /\ off <= Len(buf)
  BY Zenon DEF Held
<1>2. PICK l \in Nat, m \in Nat : l = Len(buf) + XofStep /\ m = Len(stream) /\ off <= l /\ l <= m
  <2>1. Len(buf) + XofStep \in Nat /\ Len(stream) \in Nat /\ off <= Len(buf) + XofStep
    BY <1>1, XofAssumption
  <2> QED BY <2>1
<1>3. PICK b : b = SubSeq(stream, 1, l)
  OBVIOUS
<1>4. b \in Seq(0 .. 255) /\ Len(b) = l /\ \A i \in 1 .. l : b[i] = stream[i]
  <2>1. \A i \in 1 .. l : stream[i] \in 0 .. 255
    BY <1>1, <1>2
  <2>2. 1 \in Int /\ l \in Int
    OBVIOUS
  <2>3. /\ SubSeq(stream, 1, l) \in Seq(0 .. 255)
        /\ Len(SubSeq(stream, 1, l)) = IF 1 <= l THEN l - 1 + 1 ELSE 0
        /\ \A i \in 1 .. l - 1 + 1 : SubSeq(stream, 1, l)[i] = stream[1 + i - 1]
    BY <2>1, <2>2, SubSeqProperties
  <2>4. (IF 1 <= l THEN l - 1 + 1 ELSE 0) = l /\ l - 1 + 1 = l /\ \A i \in 1 .. l : 1 + i - 1 = i
    BY <1>2
  <2> QED BY <1>3, <2>3, <2>4
<1>5. Begins(b, stream)
  BY <1>2, <1>4, Zenon DEF Begins
<1>6. Held(stream, b, off)
  BY <1>1, <1>2, <1>4, <1>5, Zenon DEF Held
<1> QED BY <1>2, <1>3, <1>6, Zenon DEF Grown

LEMMA NttRead ==
  ASSUME NEW stream \in Seq(0 .. 255), NEW off, NEW param, NEW coeffs, NEW r \in Nat,
         Sampled("rej_ntt_poly", param, stream, off, coeffs, r), off + 3 <= Len(stream),
         NEW a, NEW b, NEW c, a = stream[off + 1], b = stream[off + 2], c = stream[off + 3]
  PROVE  Sampled("rej_ntt_poly", param, stream, off + 3, Push(coeffs, Joined(a, b, c % 128), QDsa), r + 1)
<1>1. PICK cands \in Seq(Nat) : cands = Candidates(stream, "rej_ntt_poly")
  BY NttCandidates
<1>2. off = 3 * r /\ Holds(coeffs, cands, QDsa, r)
  BY <1>1 DEF Sampled, Bound
<1>3. off \in Nat
  BY <1>2
<1>4. /\ a \in 0 .. 255 /\ b \in 0 .. 255 /\ c \in 0 .. 255
      /\ Triple(stream, r + 1) = Joined(a, b, c)
  BY <1>2, <1>3, TripleIs
<1>5. IsNext(cands, r, Joined(a, b, c % 128))
  <2>1. 3 * r + 3 <= Len(stream)
    BY <1>2
  <2>2. IsNext(cands, r, Triple(stream, r + 1) % Range23)
    BY <1>1, <2>1, NttCandidates
  <2>3. Joined(a, b, c % 128) = Joined(a, b, c) % Range23
    <3>1. SameLow(a, b, c)
      BY <1>4, Low23
    <3> QED BY <3>1, Zenon DEF SameLow
  <2> QED BY <1>4, <2>2, <2>3, Zenon
<1>6. PICK v : v = Joined(a, b, c % 128)
  OBVIOUS
<1>7. r < Len(cands) /\ v = cands[r + 1]
  BY <1>5, <1>6, Zenon DEF IsNext
<1>8. Holds(Push(coeffs, v, QDsa), cands, QDsa, r + 1)
  BY <1>2, <1>7, OnePushed
<1>9. r + 1 <= Len(cands) /\ off + 3 = 3 * (r + 1)
  BY <1>2, <1>7
<1> QED BY <1>1, <1>6, <1>8, <1>9 DEF Sampled, Bound

\* Two candidates in a row.
LEMMA TwoPushed ==
  ASSUME NEW cands \in Seq(Nat), NEW bound, NEW c, NEW r \in Nat, Holds(c, cands, bound, 2 * r),
         NEW v, NEW w, IsNext(cands, 2 * r, v), IsNext(cands, 2 * r + 1, w)
  PROVE  /\ Holds(Push(Push(c, v, bound), w, bound), cands, bound, 2 * (r + 1))
         /\ 2 * (r + 1) <= Len(cands)
<1>1. PICK n \in Nat : n = 2 * r /\ n + 1 = 2 * r + 1 /\ (n + 1) + 1 = 2 * (r + 1) /\ n + 1 \in Nat
  OBVIOUS
<1>2. n < Len(cands) /\ v = cands[n + 1]
  BY <1>1, Zenon DEF IsNext
<1>3. n + 1 < Len(cands) /\ w = cands[(n + 1) + 1]
  BY <1>1, Zenon DEF IsNext
<1>4. Holds(Push(c, v, bound), cands, bound, n + 1)
  BY <1>1, <1>2, OnePushed
<1>5. PICK d : d = Push(c, v, bound)
  OBVIOUS
<1>6. Holds(Push(d, w, bound), cands, bound, (n + 1) + 1)
  BY <1>1, <1>3, <1>4, <1>5, OnePushed
<1>7. (n + 1) + 1 <= Len(cands)
  BY <1>3
<1> QED BY <1>1, <1>5, <1>6, <1>7, Zenon

LEMMA KemRead ==
  ASSUME NEW stream \in Seq(0 .. 255), NEW off, NEW param, NEW coeffs, NEW r \in Nat,
         Sampled("sample_ntt", param, stream, off, coeffs, r), off + 3 <= Len(stream),
         NEW a, NEW b, NEW c, a = stream[off + 1], b = stream[off + 2], c = stream[off + 3]
  PROVE  Sampled("sample_ntt", param, stream, off + 3,
                 Push(Push(coeffs, a + 256 * (b % 16), QKem), (b \div 16) + 16 * c, QKem), r + 1)
<1>1. PICK cands \in Seq(Nat) : cands = Candidates(stream, "sample_ntt")
  BY KemCandidates
<1>2. off = 3 * r /\ Holds(coeffs, cands, QKem, 2 * r)
  BY <1>1 DEF Sampled, Bound
<1>3. off \in Nat
  BY <1>2
<1>4. /\ a \in 0 .. 255 /\ b \in 0 .. 255 /\ c \in 0 .. 255
      /\ Triple(stream, r + 1) = Joined(a, b, c)
  BY <1>2, <1>3, TripleIs
<1>5. PICK v, w : v = a + 256 * (b % 16) /\ w = (b \div 16) + 16 * c
  OBVIOUS
<1>6. IsNext(cands, 2 * r, v) /\ IsNext(cands, 2 * r + 1, w)
  <2>1. 3 * r + 3 <= Len(stream)
    BY <1>2
  <2>2. IsNext(cands, 2 * r, Triple(stream, r + 1) % Range12) /\ IsNext(cands, 2 * r + 1, Triple(stream, r + 1) \div Range12)
    BY <1>1, <2>1, KemCandidates
  <2>3. v = Joined(a, b, c) % Range12 /\ w = Joined(a, b, c) \div Range12
    <3>1. SameHalf(a, b, c)
      BY <1>4, Twelve
    <3> QED BY <1>5, <3>1, Zenon DEF SameHalf
  <2> QED BY <1>4, <2>2, <2>3, Zenon
<1>7. /\ Holds(Push(Push(coeffs, v, QKem), w, QKem), cands, QKem, 2 * (r + 1))
      /\ 2 * (r + 1) <= Len(cands)
  BY <1>2, <1>6, TwoPushed
<1>8. off + 3 = 3 * (r + 1)
  BY <1>2
<1> QED BY <1>1, <1>5, <1>7, <1>8 DEF Sampled, Bound

LEMMA BoundedRead ==
  ASSUME NEW stream \in Seq(0 .. 255), NEW off, NEW param, NEW coeffs, NEW r \in Nat,
         Sampled("rej_bounded_poly", param, stream, off, coeffs, r), off + 1 <= Len(stream),
         NEW a, a = stream[off + 1], NEW bound, bound = IF param = 2 THEN 15 ELSE 9
  PROVE  Sampled("rej_bounded_poly", param, stream, off + 1,
                 Push(Push(coeffs, a % 16, bound), a \div 16, bound), r + 1)
<1>1. PICK cands \in Seq(Nat) : cands = Candidates(stream, "rej_bounded_poly")
  BY BoundedCandidates
<1>2. off = r /\ Holds(coeffs, cands, bound, 2 * r)
  BY <1>1 DEF Sampled, Bound
<1>3. r < Len(stream)
  BY <1>2
<1>4. IsNext(cands, 2 * r, a % 16) /\ IsNext(cands, 2 * r + 1, a \div 16)
  BY <1>1, <1>2, <1>3, BoundedCandidates
<1>5. /\ Holds(Push(Push(coeffs, a % 16, bound), a \div 16, bound), cands, bound, 2 * (r + 1))
      /\ 2 * (r + 1) <= Len(cands)
  BY <1>2, <1>4, TwoPushed
<1> QED BY <1>1, <1>2, <1>5 DEF Sampled, Bound

-----------------------------------------------------------------------------
(* Every step keeps the invariant.                                           *)

LEMMA Reaches ==
  ASSUME NEW phase, NEW stream, NEW by, NEW param, NEW buf, NEW off, NEW coeffs, NEW signs,
         xof' = Sampling(phase, stream, by, param, buf, off, coeffs, signs),
         Good(phase, stream, by, param, buf, off, coeffs, signs)
  PROVE  XofIInv'
<1>1. /\ xof'.stage = phase /\ xof'.stream = stream /\ xof'.by = by /\ xof'.param = param
      /\ xof'.buf = buf /\ xof'.off = off /\ xof'.coeffs = coeffs /\ xof'.signs = signs
  BY DEF Sampling
<1> QED BY <1>1, Zenon DEF XofIInv

LEMMA Opens ==
  ASSUME XofOpen
  PROVE  XofIInv'
<1>1. PICK stream \in XofStreams, s \in XofSamplers :
        xof' = Sampling("read", stream, s.by, s.param, <<>>, 0, <<>>, <<>>)
  BY DEF XofOpen
<1>2. PICK by, param : by = s.by /\ param = s.param
  OBVIOUS
<1>3. /\ by \in {"rej_ntt_poly", "sample_ntt", "rej_bounded_poly", "sample_in_ball"}
      /\ by = "rej_bounded_poly" => param \in {2, 4}
      /\ by = "sample_in_ball" => param \in 1 .. 64 /\ param <= SampleSize
  BY <1>2, XofAssumption
<1>4. stream \in Seq(0 .. 255) /\ SampleSize \in Nat
  BY XofAssumption
<1>5. Held(stream, <<>>, 0)
  BY <1>4 DEF Held, Begins
<1>6. ASSUME by # "sample_in_ball" PROVE Sampled(by, param, stream, 0, <<>>, 0)
  <2>1. PICK cands \in Seq(Nat) : cands = Candidates(stream, by)
    BY <1>3, <1>4, <1>6, NttCandidates, KemCandidates, BoundedCandidates
  <2>2. PICK bound : bound = Bound(by, param)
    OBVIOUS
  <2>3. Kept(cands, bound)[0] = <<>>
    BY KeptUnfolded
  <2>4. IsFirst(<<>>, <<>>)
    BY <1>4 DEF IsFirst, Begins
  <2>5. Holds(<<>>, cands, bound, 0)
    <3>1. <<>> \in Seq(Nat)
      OBVIOUS
    <3> QED BY <2>3, <2>4, <3>1, Zenon DEF Holds
  <2>6. 0 <= Len(cands) /\ 2 * 0 = 0 /\ 3 * 0 = 0
    OBVIOUS
  <2> QED BY <2>1, <2>2, <2>5, <2>6, Zenon DEF Sampled
<1>7. Good("read", stream, by, param, <<>>, 0, <<>>, <<>>)
  <2>1. 0 \in Nat
    OBVIOUS
  <2> QED BY <1>3, <1>5, <1>6, <2>1, Zenon DEF Good
<1> QED BY <1>1, <1>2, <1>7, Reaches, Zenon

\* A call under way.
IsHere(phase, stream, by, param, buf, off, coeffs, signs) ==
  /\ xof = Sampling(phase, stream, by, param, buf, off, coeffs, signs)
  /\ Good(phase, stream, by, param, buf, off, coeffs, signs)
  /\ xof.stage = phase /\ xof.stream = stream /\ xof.by = by /\ xof.param = param
  /\ xof.buf = buf /\ xof.off = off /\ xof.coeffs = coeffs /\ xof.signs = signs

LEMMA Here ==
  ASSUME XofIInv, xof.stage # "idle"
  PROVE  \E stream, by, param, buf, off, coeffs, signs :
           IsHere(xof.stage, stream, by, param, buf, off, coeffs, signs)
BY Zenon DEF XofIInv, IsHere

LEMMA GrowKeeps ==
  ASSUME XofIInv, XofGrow
  PROVE  XofIInv'
<1>1. xof.stage = "read"
  BY DEF XofGrow
<1>2. PICK stream, by, param, buf, off, coeffs, signs :
        IsHere("read", stream, by, param, buf, off, coeffs, signs)
  BY <1>1, Here
<1>3. /\ Len(buf) + XofStep <= Len(stream)
      /\ xof' = Sampling("read", stream, by, param, Grown(stream, buf), off, coeffs, signs)
  BY <1>2, Zenon DEF IsHere, XofGrow, Continues
<1>4. Good("read", stream, by, param, buf, off, coeffs, signs)
  BY <1>2, Zenon DEF IsHere
<1>5. Held(stream, Grown(stream, buf), off)
  BY <1>3, <1>4, Grew, Zenon DEF Good
<1>6. Good("read", stream, by, param, Grown(stream, buf), off, coeffs, signs)
  BY <1>4, <1>5, Zenon DEF Good
<1> QED BY <1>3, <1>6, Reaches, Zenon

\* The end of a read of a rejection sampler.
LEMMA TakeKeeps ==
  ASSUME NEW stream, NEW by, NEW param, NEW buf, NEW off, NEW coeffs, NEW signs,
         IsHere("read", stream, by, param, buf, off, coeffs, signs),
         by # "sample_in_ball", Len(buf) - off >= Wanted, Wanted \in Nat, NEW c, Take(c),
         NEW r \in Nat, Sampled(by, param, stream, off + Wanted, c, r)
  PROVE  XofIInv'
<1>1. PICK w \in Nat : w = Wanted
  OBVIOUS
<1>2. Good("read", stream, by, param, buf, off, coeffs, signs)
  BY Zenon DEF IsHere
<1>3. Held(stream, buf, off + w)
  BY <1>1, <1>2, Reads, Zenon DEF Good
<1>4. PICK phase \in {"read", "done"} : /\ phase = IF Len(c) >= SampleSize THEN "done" ELSE "read"
                                        /\ phase = "done" => Len(c) >= SampleSize
  OBVIOUS
<1>5. Good(phase, stream, by, param, buf, off + w, c, signs)
  BY <1>1, <1>2, <1>3, <1>4, Zenon DEF Good
<1>6. xof' = Sampling(phase, stream, by, param, buf, off + w, c, signs)
  BY <1>1, <1>4, Zenon DEF IsHere, Take, Continues
<1> QED BY <1>5, <1>6, Reaches, Zenon

LEMMA Octets3 ==
  ASSUME NEW phase, NEW stream, NEW by, NEW param, NEW buf, NEW off, NEW coeffs, NEW signs,
         IsHere(phase, stream, by, param, buf, off, coeffs, signs), Len(buf) - off >= 3
  PROVE  /\ off + 3 <= Len(stream)
         /\ Octet(0) = stream[off + 1] /\ Octet(1) = stream[off + 2] /\ Octet(2) = stream[off + 3]
<1>1. Held(stream, buf, off)
  BY Zenon DEF IsHere, Good
<1>2. PICK w \in Nat : w = 3 /\ Len(buf) - off >= w
  OBVIOUS
<1>3. off + w <= Len(stream) /\ \A i \in 1 .. w : buf[off + i] = stream[off + i]
  <2>1. IsRead(stream, buf, off, w)
    BY <1>1, <1>2, Reads, Zenon
  <2> QED BY <2>1 DEF IsRead
<1>4. 1 \in 1 .. w /\ 2 \in 1 .. w /\ 3 \in 1 .. w
  BY <1>2
<1>5. off \in Nat
  BY <1>1, Zenon DEF Held
<1>6. off + 0 + 1 = off + 1 /\ off + 1 + 1 = off + 2 /\ off + 2 + 1 = off + 3
  BY <1>5
<1>7. Octet(0) = buf[off + 1] /\ Octet(1) = buf[off + 2] /\ Octet(2) = buf[off + 3]
  BY <1>6 DEF IsHere, Octet
<1> QED BY <1>2, <1>3, <1>4, <1>7

LEMMA Octets1 ==
  ASSUME NEW phase, NEW stream, NEW by, NEW param, NEW buf, NEW off, NEW coeffs, NEW signs,
         IsHere(phase, stream, by, param, buf, off, coeffs, signs), Len(buf) - off >= 1
  PROVE  /\ off + 1 <= Len(stream) /\ Octet(0) = stream[off + 1]
         /\ stream[off + 1] \in 0 .. 255
<1>1. Held(stream, buf, off)
  BY Zenon DEF IsHere, Good
<1>2. PICK w \in Nat : w = 1 /\ Len(buf) - off >= w
  OBVIOUS
<1>3. off + w <= Len(stream) /\ \A i \in 1 .. w : buf[off + i] = stream[off + i]
  <2>1. IsRead(stream, buf, off, w)
    BY <1>1, <1>2, Reads, Zenon
  <2> QED BY <2>1 DEF IsRead
<1>4. off \in Nat /\ stream \in Seq(0 .. 255)
  BY <1>1, Zenon DEF Held
<1>5. off + 0 + 1 = off + 1
  BY <1>4
<1>6. Octet(0) = buf[off + 1]
  BY <1>5 DEF IsHere, Octet
<1>7. buf[off + 1] = stream[off + 1]
  BY <1>2, <1>3
<1>8. off + 1 <= Len(stream)
  BY <1>2, <1>3
<1>9. stream[off + 1] \in 0 .. 255
  <2>1. PICK k \in 1 .. Len(stream) : k = off + 1
    BY <1>4, <1>8
  <2>2. stream[k] \in 0 .. 255
    BY <1>4, <2>1, ElementOfSeq, Zenon
  <2> QED BY <2>1, <2>2, Zenon
<1> QED BY <1>6, <1>7, <1>8, <1>9, Zenon

LEMMA NttKeeps ==
  ASSUME XofIInv, RejNttPoly
  PROVE  XofIInv'
<1>1. xof.stage = "read" /\ xof.by = "rej_ntt_poly"
  BY DEF RejNttPoly, Ready
<1>2. PICK stream, by, param, buf, off, coeffs, signs :
        IsHere("read", stream, by, param, buf, off, coeffs, signs)
  BY <1>1, Here
<1>3. by = "rej_ntt_poly" /\ Wanted = 3
  BY <1>1, <1>2, Zenon DEF IsHere, Wanted
<1>4. Len(buf) - off >= 3
  BY <1>2, <1>3, Zenon DEF IsHere, RejNttPoly, Ready
<1>5. stream \in Seq(0 .. 255) /\ \E r \in Nat : Sampled(by, param, stream, off, coeffs, r)
  BY <1>2, <1>3, Zenon DEF IsHere, Good, Held
<1>6. PICK r \in Nat : Sampled("rej_ntt_poly", param, stream, off, coeffs, r)
  BY <1>3, <1>5
<1>7. /\ off + 3 <= Len(stream)
      /\ Octet(0) = stream[off + 1] /\ Octet(1) = stream[off + 2] /\ Octet(2) = stream[off + 3]
  BY <1>2, <1>4, Octets3
<1>8. PICK a, b, c : a = stream[off + 1] /\ b = stream[off + 2] /\ c = stream[off + 3]
  OBVIOUS
<1>9. Take(Push(coeffs, Joined(a, b, c % 128), QDsa))
  BY <1>2, <1>7, <1>8, Zenon DEF RejNttPoly, IsHere
<1>10. Sampled("rej_ntt_poly", param, stream, off + 3, Push(coeffs, Joined(a, b, c % 128), QDsa), r + 1)
  BY <1>5, <1>6, <1>7, <1>8, NttRead
<1>11. PICK d : d = Push(coeffs, Joined(a, b, c % 128), QDsa)
  OBVIOUS
<1>12. PICK n \in Nat : n = r + 1
  OBVIOUS
<1>13. Take(d) /\ Sampled("rej_ntt_poly", param, stream, off + 3, d, n)
  BY <1>9, <1>10, <1>11, <1>12, Zenon
<1>14. Wanted \in Nat /\ Len(buf) - off >= Wanted /\ Sampled(by, param, stream, off + Wanted, d, n)
  BY <1>3, <1>4, <1>13
<1>15. by # "sample_in_ball"
  BY <1>3
<1> QED BY <1>2, <1>13, <1>14, <1>15, TakeKeeps

LEMMA KemKeeps ==
  ASSUME XofIInv, SampleNtt
  PROVE  XofIInv'
<1>1. xof.stage = "read" /\ xof.by = "sample_ntt"
  BY DEF SampleNtt, Ready
<1>2. PICK stream, by, param, buf, off, coeffs, signs :
        IsHere("read", stream, by, param, buf, off, coeffs, signs)
  BY <1>1, Here
<1>3. by = "sample_ntt" /\ Wanted = 3
  BY <1>1, <1>2, Zenon DEF IsHere, Wanted
<1>4. Len(buf) - off >= 3
  BY <1>2, <1>3, Zenon DEF IsHere, SampleNtt, Ready
<1>5. stream \in Seq(0 .. 255) /\ \E r \in Nat : Sampled(by, param, stream, off, coeffs, r)
  BY <1>2, <1>3, Zenon DEF IsHere, Good, Held
<1>6. PICK r \in Nat : Sampled("sample_ntt", param, stream, off, coeffs, r)
  BY <1>3, <1>5
<1>7. /\ off + 3 <= Len(stream)
      /\ Octet(0) = stream[off + 1] /\ Octet(1) = stream[off + 2] /\ Octet(2) = stream[off + 3]
  BY <1>2, <1>4, Octets3
<1>8. PICK a, b, c : a = stream[off + 1] /\ b = stream[off + 2] /\ c = stream[off + 3]
  OBVIOUS
<1>9. Take(Push(Push(coeffs, a + 256 * (b % 16), QKem), (b \div 16) + 16 * c, QKem))
  BY <1>2, <1>7, <1>8, Zenon DEF SampleNtt, IsHere
<1>10. Sampled("sample_ntt", param, stream, off + 3,
               Push(Push(coeffs, a + 256 * (b % 16), QKem), (b \div 16) + 16 * c, QKem), r + 1)
  BY <1>5, <1>6, <1>7, <1>8, KemRead
<1>11. PICK d : d = Push(Push(coeffs, a + 256 * (b % 16), QKem), (b \div 16) + 16 * c, QKem)
  OBVIOUS
<1>12. PICK n \in Nat : n = r + 1
  OBVIOUS
<1>13. Take(d) /\ Sampled("sample_ntt", param, stream, off + 3, d, n)
  BY <1>9, <1>10, <1>11, <1>12, Zenon
<1>14. Wanted \in Nat /\ Len(buf) - off >= Wanted /\ Sampled(by, param, stream, off + Wanted, d, n)
  BY <1>3, <1>4, <1>13
<1>15. by # "sample_in_ball"
  BY <1>3
<1> QED BY <1>2, <1>13, <1>14, <1>15, TakeKeeps

LEMMA BoundedKeeps ==
  ASSUME XofIInv, RejBoundedPoly
  PROVE  XofIInv'
<1>1. xof.stage = "read" /\ xof.by = "rej_bounded_poly"
  BY DEF RejBoundedPoly, Ready
<1>2. PICK stream, by, param, buf, off, coeffs, signs :
        IsHere("read", stream, by, param, buf, off, coeffs, signs)
  BY <1>1, Here
<1>3. by = "rej_bounded_poly" /\ Wanted = 1
  BY <1>1, <1>2 DEF IsHere, Wanted
<1>4. Len(buf) - off >= 1
  BY <1>2, <1>3, Zenon DEF IsHere, RejBoundedPoly, Ready
<1>5. stream \in Seq(0 .. 255) /\ \E r \in Nat : Sampled(by, param, stream, off, coeffs, r)
  BY <1>2, <1>3 DEF IsHere, Good, Held
<1>6. PICK r \in Nat : Sampled("rej_bounded_poly", param, stream, off, coeffs, r)
  BY <1>3, <1>5
<1>7. off + 1 <= Len(stream) /\ Octet(0) = stream[off + 1]
  BY <1>2, <1>4, Octets1
<1>8. PICK a, bound : a = stream[off + 1] /\ bound = IF param = 2 THEN 15 ELSE 9
  OBVIOUS
<1>9. Take(Push(Push(coeffs, a % 16, bound), a \div 16, bound))
  BY <1>2, <1>7, <1>8, Zenon DEF RejBoundedPoly, IsHere
<1>10. Sampled("rej_bounded_poly", param, stream, off + 1,
               Push(Push(coeffs, a % 16, bound), a \div 16, bound), r + 1)
  BY <1>5, <1>6, <1>7, <1>8, BoundedRead
<1>11. PICK d : d = Push(Push(coeffs, a % 16, bound), a \div 16, bound)
  OBVIOUS
<1>12. PICK n \in Nat : n = r + 1
  OBVIOUS
<1>13. Take(d) /\ Sampled("rej_bounded_poly", param, stream, off + 1, d, n)
  BY <1>9, <1>10, <1>11, <1>12, Zenon
<1>14. Wanted \in Nat /\ Len(buf) - off >= Wanted /\ Sampled(by, param, stream, off + Wanted, d, n)
  BY <1>3, <1>4, <1>13
<1>15. by # "sample_in_ball"
  BY <1>3
<1> QED BY <1>2, <1>13, <1>14, <1>15, TakeKeeps

LEMMA SignsKeeps ==
  ASSUME XofIInv, BallSigns
  PROVE  XofIInv'
<1>1. xof.stage = "read" /\ xof.by = "sample_in_ball" /\ xof.signs = <<>>
  BY DEF BallSigns, Ready
<1>2. PICK stream, by, param, buf, off, coeffs, signs :
        IsHere("read", stream, by, param, buf, off, coeffs, signs)
  BY <1>1, Here
<1>3. by = "sample_in_ball" /\ Wanted = 8
  BY <1>1, <1>2 DEF IsHere, Wanted
<1>4. PICK w \in Nat : w = Wanted /\ Len(buf) - off >= w
  <2>1. Wanted \in Nat /\ Len(buf) - off >= Wanted
    BY <1>2, <1>3 DEF IsHere, BallSigns, Ready
  <2> QED BY <2>1
<1>5. Good("read", stream, by, param, buf, off, coeffs, signs)
  BY <1>2, Zenon DEF IsHere
<1>6. Held(stream, buf, off + w)
  BY <1>4, <1>5, Reads, Zenon DEF Good
<1>7. PICK zeros : zeros = [i \in 1 .. SampleSize |-> 0]
  OBVIOUS
<1>8. PICK bits : bits = [b \in 1 .. 64 |-> Bit(Octet((b - 1) \div 8), (b - 1) % 8)]
  OBVIOUS
<1>9. xof' = Sampling("read", stream, by, param, buf, off + w, zeros, bits)
  BY <1>2, <1>4, <1>7, <1>8, Zenon DEF IsHere, BallSigns, Continues
<1>10. param \in 1 .. 64
  BY <1>3, <1>5 DEF Good
<1>11. Challenge("read", param, zeros, bits, 0)
  <2>1. PICK S : S = {bits[b] : b \in 1 .. 64}
    OBVIOUS
  <2>2. bits \in Seq(S) /\ Len(bits) = 64
    BY <1>8, <2>1
  <2>3. Len(bits) = 64 - 0 /\ 0 < param
    BY <1>10, <2>2
  <2>4. Filled(zeros, SampleSize - param + 0, 0)
    BY <1>7, BallEmpty
  <2> QED BY <2>2, <2>3, <2>4 DEF Challenge
<1>12. Good("read", stream, by, param, buf, off + w, zeros, bits)
  <2>1. 0 \in Nat
    OBVIOUS
  <2> QED BY <1>3, <1>5, <1>6, <1>11, <2>1, Zenon DEF Good
<1> QED BY <1>9, <1>12, Reaches, Zenon

LEMMA StepKeeps ==
  ASSUME XofIInv, BallStep
  PROVE  XofIInv'
<1>1. xof.stage = "read" /\ xof.by = "sample_in_ball" /\ xof.signs # <<>>
  BY DEF BallStep, Ready
<1>2. PICK stream, by, param, buf, off, coeffs, signs :
        IsHere("read", stream, by, param, buf, off, coeffs, signs)
  BY <1>1, Here
<1>3. by = "sample_in_ball" /\ signs # <<>> /\ Wanted = 1
  BY <1>1, <1>2 DEF IsHere, Wanted
<1>4. PICK w \in Nat : w = Wanted /\ Len(buf) - off >= w
  <2>1. Wanted \in Nat /\ Len(buf) - off >= Wanted
    BY <1>2, <1>3 DEF IsHere, BallStep, Ready
  <2> QED BY <2>1
<1>5. Good("read", stream, by, param, buf, off, coeffs, signs)
  BY <1>2, Zenon DEF IsHere
<1>6. Held(stream, buf, off + w)
  BY <1>4, <1>5, Reads, Zenon DEF Good
<1>7. PICK placed \in Nat : Challenge("read", param, coeffs, signs, placed)
  BY <1>3, <1>5, Zenon DEF Good
<1>8. /\ \E S : signs \in Seq(S)
      /\ Len(signs) = 64 - placed
      /\ Filled(coeffs, SampleSize - param + placed, placed)
      /\ placed < param
  BY <1>7 DEF Challenge
<1>9. param \in 1 .. 64 /\ param <= SampleSize /\ SampleSize \in Nat
  BY <1>3, <1>5, XofAssumption DEF Good
<1>10. PICK i \in Nat : i = SampleSize - param + placed /\ i < SampleSize
  BY <1>8, <1>9
<1>11. PICK j \in 0 .. 255 : j = Octet(0)
  <2>1. Octet(0) = stream[off + 1] /\ stream[off + 1] \in 0 .. 255
    <3>1. Len(buf) - off >= 1
      BY <1>3, <1>4
    <3> QED BY <1>2, <3>1, Octets1
  <2> QED BY <2>1
<1>12. PICK sign : sign = signs[1]
  OBVIOUS
<1>13. 64 - Len(signs) = placed
  BY <1>8
<1>14. CASE j > i
  <2>1. xof' = Sampling("read", stream, by, param, buf, off + w, coeffs, signs)
    BY <1>2, <1>4, <1>10, <1>11, <1>13, <1>14, Zenon DEF IsHere, BallStep, Continues
  <2>2. Good("read", stream, by, param, buf, off + w, coeffs, signs)
    BY <1>3, <1>5, <1>6, <1>7, Zenon DEF Good
  <2> QED BY <2>1, <2>2, Reaches, Zenon
<1>15. CASE ~(j > i)
  <2>1. PICK phase \in {"read", "done"} : phase = IF placed + 1 = param THEN "done" ELSE "read"
    OBVIOUS
  <2>2. PICK c : c = BallPlaced(coeffs, i, j, sign)
    OBVIOUS
  <2>3. xof' = Sampling(phase, stream, by, param, buf, off + w, c, Tail(signs))
    BY <1>2, <1>4, <1>10, <1>11, <1>12, <1>13, <1>15, <2>1, <2>2, Zenon DEF IsHere, BallStep, Continues
  <2>4. Filled(c, i + 1, placed + 1)
    <3>1. j \in 0 .. i
      BY <1>15
    <3> QED BY <1>8, <1>10, <2>2, <3>1, BallFills
  <2>5. PICK n \in Nat : /\ n = placed + 1 /\ i + 1 = SampleSize - param + n
                         /\ IF n = param THEN n = param ELSE n < param
    <3>1. /\ placed + 1 \in Nat /\ i + 1 = SampleSize - param + (placed + 1)
          /\ IF placed + 1 = param THEN placed + 1 = param ELSE placed + 1 < param
      BY <1>8, <1>9, <1>10
    <3> QED BY <3>1
  <2>6. (\E S : Tail(signs) \in Seq(S)) /\ Len(Tail(signs)) = 64 - n
    <3>1. PICK S : signs \in Seq(S)
      BY <1>8
    <3>2. Tail(signs) \in Seq(S) /\ Len(Tail(signs)) = Len(signs) - 1
      BY <1>3, <3>1, HeadTailProperties
    <3>3. Len(signs) - 1 = 64 - n
      BY <1>8, <2>5
    <3> QED BY <3>2, <3>3
  <2>7. IF phase = "done" THEN n = param ELSE n < param
    BY <2>1, <2>5
  <2>8. Challenge(phase, param, c, Tail(signs), n)
    BY <2>4, <2>5, <2>6, <2>7, Zenon DEF Challenge
  <2>9. Good(phase, stream, by, param, buf, off + w, c, Tail(signs))
    BY <1>3, <1>5, <1>6, <2>8, Zenon DEF Good
  <2> QED BY <2>3, <2>9, Reaches, Zenon
<1> QED BY <1>14, <1>15

-----------------------------------------------------------------------------
(* What the invariant says of a result.                                      *)

LEMMA CenteredIs ==
  ASSUME NEW eta \in {2, 4}, NEW v \in Nat, v < IF eta = 2 THEN 15 ELSE 9
  PROVE  Centered(v, eta) = eta - (v % (2 * eta + 1))
<1>1. CASE eta = 2
  <2>1. v < 15
    BY <1>1
  <2>2. 2 - (v - ((205 * v) \div 1024) * 5) = 2 - (v % 5)
    BY <2>1
  <2> QED BY <1>1, <2>2 DEF Centered
<1>2. CASE eta = 4
  <2>1. v < 9
    BY <1>2
  <2>2. v % 9 = v
    BY <2>1
  <2> QED BY <1>2, <2>2 DEF Centered
<1> QED BY <1>1, <1>2

LEMMA Result ==
  ASSUME XofIInv
  PROVE  SamplesTheStream
<1> SUFFICES ASSUME xof.stage = "done" PROVE SamplesTheStream
  BY DEF SamplesTheStream
<1>1. PICK stream, by, param, buf, off, coeffs, signs :
        IsHere("done", stream, by, param, buf, off, coeffs, signs)
  BY Here
<1>2. Good("done", stream, by, param, buf, off, coeffs, signs)
  BY <1>1, Zenon DEF IsHere
<1>3. xof.stream = stream /\ xof.by = by /\ xof.param = param /\ xof.coeffs = coeffs
  BY <1>1, Zenon DEF IsHere
<1>4. CASE by = "sample_in_ball"
  <2>1. PICK placed \in Nat : Challenge("done", param, coeffs, signs, placed)
    BY <1>2, <1>4 DEF Good
  <2>2. Filled(coeffs, SampleSize - param + placed, placed) /\ placed = param
    BY <2>1 DEF Challenge
  <2>3. Cardinality(Nonzero(coeffs)) = param /\ coeffs \in Ternary
    BY <2>2, Zenon DEF Filled
  <2>4. \A i \in Nonzero(coeffs) : coeffs[i] \in {1, QDsa - 1}
    BY <2>3 DEF Ternary, Nonzero
  <2> QED BY <1>3, <1>4, <2>3, <2>4, Zenon DEF SamplesTheStream
<1>5. CASE by # "sample_in_ball"
  <2>1. PICK r \in Nat : Sampled(by, param, stream, off, coeffs, r)
    BY <1>2, <1>5, Zenon DEF Good
  <2>2. PICK n \in Nat : n = IF by = "rej_ntt_poly" THEN r ELSE 2 * r
    OBVIOUS
  <2>3. PICK cands \in Seq(Nat) : cands = Candidates(stream, by)
    <3>1. stream \in Seq(0 .. 255) /\ by \in {"rej_ntt_poly", "sample_ntt", "rej_bounded_poly"}
      BY <1>2, <1>5 DEF Good, Held
    <3> QED BY <3>1, NttCandidates, KemCandidates, BoundedCandidates
  <2>4. PICK bound : bound = Bound(by, param)
    OBVIOUS
  <2>5. n <= Len(cands) /\ Holds(coeffs, cands, bound, n) /\ Len(coeffs) >= SampleSize
    BY <1>2, <1>5, <2>1, <2>2, <2>3, <2>4, Zenon DEF Sampled, Good
  <2>6. coeffs = SubSeq(Kept(cands, bound)[Len(cands)], 1, SampleSize) /\ Len(coeffs) = SampleSize
    BY <2>5, Complete
  <2>7. ASSUME by = "rej_bounded_poly", NEW i \in 1 .. SampleSize
        PROVE  Centered(coeffs[i], param) = param - (coeffs[i] % (2 * param + 1))
    <3>1. param \in {2, 4}
      BY <1>2, <2>7 DEF Good
    <3>2. bound = IF param = 2 THEN 15 ELSE 9
      BY <2>4, <2>7 DEF Bound
    <3>3. PICK U : U = {v \in Nat : v < bound}
      OBVIOUS
    <3>4. PICK kept \in Seq(U) : kept = Kept(cands, bound)[n]
      BY <2>5, <3>3, KeptBelow
    <3>5. coeffs \in Seq(Nat) /\ Begins(coeffs, kept)
      BY <2>5, <3>4, Zenon DEF Holds, IsFirst
    <3>6. coeffs[i] = kept[i] /\ i \in 1 .. Len(kept)
      BY <2>6, <3>4, <3>5 DEF Begins
    <3>7. coeffs[i] \in U
      BY <3>4, <3>6
    <3>8. PICK v \in Nat : v = coeffs[i] /\ v < bound
      BY <3>3, <3>7
    <3> QED BY <3>1, <3>2, <3>8, CenteredIs
  <2> QED BY <1>3, <1>5, <2>3, <2>4, <2>6, <2>7, Zenon DEF SamplesTheStream
<1> QED BY <1>4, <1>5

\* Whatever prefix of its stream a sampler had at each read, a polynomial is made of the
\* first candidates below the bound, the centred ones are the remainders of FIPS 204, and
\* a challenge has tau coefficients of 1 or -1 and no other (SamplesTheStream).
THEOREM SamplersCorrect == XofSpec => []SamplesTheStream
<1>1. XofInit => XofIInv
  BY DEF XofInit, XofIInv
<1>2. XofIInv /\ [XofNext]_xof => XofIInv'
  <2> SUFFICES ASSUME XofIInv, [XofNext]_xof PROVE XofIInv'
    OBVIOUS
  <2>1. CASE XofOpen
    BY <2>1, Opens
  <2>2. CASE XofGrow
    BY <2>2, GrowKeeps
  <2>3. CASE RejNttPoly
    BY <2>3, NttKeeps
  <2>4. CASE SampleNtt
    BY <2>4, KemKeeps
  <2>5. CASE RejBoundedPoly
    BY <2>5, BoundedKeeps
  <2>6. CASE BallSigns
    BY <2>6, SignsKeeps
  <2>7. CASE BallStep
    BY <2>7, StepKeeps
  <2>8. CASE UNCHANGED xof
    BY <2>8 DEF XofIInv
  <2> QED BY <2>1, <2>2, <2>3, <2>4, <2>5, <2>6, <2>7, <2>8 DEF XofNext
<1>3. XofIInv => SamplesTheStream
  BY Result
<1> QED BY <1>1, <1>2, <1>3, PTL DEF XofSpec
=============================================================================
