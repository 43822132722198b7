------------------------------ MODULE Curve25519 ------------------------------
(***************************************************************************)
(* X25519 and X448 (x25519.py) and Ed25519 (eddsa.py).  A Montgomery curve *)
(* is a record of p, A, bits, the base point base and low, the power of    *)
(* two that clamping makes a scalar a multiple of; an Edwards curve one of *)
(* p, d, l and the base point b.                                           *)
(***************************************************************************)
EXTENDS ModArith

Exchanged(s) == [s EXCEPT !.x2 = s.x3, !.x3 = s.x2, !.z2 = s.z3, !.z3 = s.z2]

\* Mutant: a bit that is set swaps, whatever the one before it did.
SwappedByBit(s, kt) == IF kt = 1 THEN Exchanged(s) ELSE s

\* The points are swapped for the bit kt, unless they are already.
Swapped(s, kt) == IF s.swap = kt THEN s ELSE Exchanged(s)

\* One iteration of _ladder, for the bit kt.
LadderStep(c, u, s, kt) ==
  LET a == Swapped(s, kt)
      aa == (a.x2 + a.z2) ^ 2 % c.p
      bb == (a.x2 - a.z2) ^ 2 % c.p
      e == (aa - bb) % c.p
      da == ((a.x3 - a.z3) * (a.x2 + a.z2)) % c.p
      cb == ((a.x3 + a.z3) * (a.x2 - a.z2)) % c.p
  IN  [swap |-> kt, x3 |-> (da + cb) ^ 2 % c.p, z3 |-> (u * ((da - cb) ^ 2 % c.p)) % c.p,
       x2 |-> (aa * bb) % c.p, z2 |-> (e * (aa + ((c.A - 2) \div 4) * e)) % c.p]

\* _ladder
Ladder(c, k, u) ==
  LET s[i \in 0 .. c.bits] ==
        IF i = 0 THEN [swap |-> 0, x2 |-> 1, z2 |-> 0, x3 |-> u, z3 |-> 1]
        ELSE LadderStep(c, u, s[i - 1], Bit(k, c.bits - i))
      end == Swapped(s[c.bits], 0)
  IN  (end.x2 * Pow(end.z2, c.p - 2, c.p)) % c.p

\* The x coordinate of k times a point over u, of the curve or of its twist: the sum in
\* affine coordinates on the curve on which the point is <<u, 1>>.  Infinity is <<>>.
MontgomeryAdd(c, w, p1, p2) ==
  LET lam == IF p1 # p2 THEN (p2[2] - p1[2]) * Inv((p2[1] - p1[1]) % c.p, c.p)
             ELSE (3 * p1[1] ^ 2 + 2 * c.A * p1[1] + 1) * Inv((2 * w * p1[2]) % c.p, c.p)
      x == (w * (lam % c.p) ^ 2 - c.A - p1[1] - p2[1]) % c.p
  IN  IF p1 = <<>> THEN p2
      ELSE IF p2 = <<>> THEN p1
      ELSE IF p1[1] = p2[1] /\ (p1[2] + p2[2]) % c.p = 0 THEN <<>>
      ELSE <<x, (lam * (p1[1] - x) - p1[2]) % c.p>>

\* k times u.
MontgomeryMult(c, k, u) ==
  LET w == (u ^ 3 + c.A * u * u + u) % c.p
      m[i \in 0 .. k] == IF i = 0 THEN <<>> ELSE MontgomeryAdd(c, w, m[i - 1], <<u, 1>>)
  IN  m[k]

\* _x25519, _x448: a clamped scalar and octets that are the number enc, of which X25519 drops
\* the highest bit.
Clamp(c, k) == ((k % 2 ^ (c.bits - 1)) \div c.low) * c.low + 2 ^ (c.bits - 1)
X25519(c, k, enc) == Ladder(c, Clamp(c, k), enc % 2 ^ c.bits)

PublicU(c, k) == X25519(c, k, c.base)

\* exchange
Exchange(c, k, enc) ==
  LET shared == X25519(c, k, enc)
  IN  IF shared = 0 THEN [raised |-> "InvalidKey"] ELSE [secret |-> shared]

\* An exchange multiplies every u, on the curve and on the twist, below p and beyond, and is
\* refused for the points that the scalar takes to infinity and that of order two; two keys
\* agree (x25519.py:39-62, 84-88).
ExchangeAgrees(c, j, k, enc) ==
  LET u == (enc % 2 ^ c.bits) % c.p
      m == MontgomeryMult(c, Clamp(c, k), u)
  IN  /\ Exchange(c, k, enc) = IF u = 0 \/ m = <<>> \/ m = <<0, 0>>
                               THEN [raised |-> "InvalidKey"] ELSE [secret |-> m[1]]
      /\ Exchange(c, k, PublicU(c, j)) = Exchange(c, j, PublicU(c, k))

-----------------------------------------------------------------------------
(* Ed25519.                                                                  *)

Identity == <<0, 1>>
InvP(c, x) == Pow(x % c.p, c.p - 2, c.p)

\* _point_add
EdAdd(c, p1, p2) ==
  LET t == (((c.d * p1[1] * p2[1]) % c.p) * p1[2] * p2[2]) % c.p
  IN  <<((p1[1] * p2[2] + p1[2] * p2[1]) * InvP(c, 1 + t)) % c.p,
        ((p1[2] * p2[2] + p1[1] * p2[1]) * InvP(c, 1 - t)) % c.p>>

\* _ext_add of <<X, Y, T, Z>>.
ExtAdd(c, p1, p2) ==
  LET a == (p1[1] * p2[1]) % c.p
      b == (p1[2] * p2[2]) % c.p
      t == (((c.d * p1[3]) % c.p) * p2[3]) % c.p
      z == (p1[4] * p2[4]) % c.p
      e == ((p1[1] + p1[2]) * (p2[1] + p2[2]) - a - b) % c.p
  IN  <<(e * (z - t)) % c.p, ((z + t) * (b + a)) % c.p, (e * (b + a)) % c.p, ((z - t) * (z + t)) % c.p>>

\* _scalarmult
EdMult(c, k, q) ==
  LET bits == BitLength(8 * c.l)
      pt == <<q[1], q[2], (q[1] * q[2]) % c.p, 1>>
      acc[i \in 0 .. bits] ==
        IF i = 0 THEN <<0, 1, 0, 1>>
        ELSE LET dbl == ExtAdd(c, acc[i - 1], acc[i - 1])
             IN  Select(Bit(k, bits - i), ExtAdd(c, dbl, pt), dbl)
      zinv == InvP(c, acc[bits][4])
  IN  <<(acc[bits][1] * zinv) % c.p, (acc[bits][2] * zinv) % c.p>>

EdEncode(q) == [y |-> q[2], sign |-> q[1] % 2]

\* Mutant: zero is given a sign.
HasSignAny(x, sign) == TRUE

\* Zero has no root of the other sign.
HasSign(x, sign) == x # 0 \/ sign = 0

\* _decode_point_strict of octets that are the number y and a sign bit; <<>> stands for None.
EdDecode(c, e) ==
  LET xx == ((e.y ^ 2 - 1) * InvP(c, c.d * e.y ^ 2 + 1)) % c.p
      x1 == Pow(xx, (c.p + 3) \div 8, c.p)
      x2 == (x1 * Pow(2, (c.p - 1) \div 4, c.p)) % c.p
      Root(x) == (x * x - xx) % c.p = 0
      x == IF Root(x1) THEN x1 ELSE x2
  IN  IF e.y >= c.p \/ ~Root(x) \/ ~HasSign(x, e.sign) THEN <<>>
      ELSE <<IF x % 2 # e.sign THEN c.p - x ELSE x, e.y>>

\* _sign with the scalar a, when the hashes give r and k.
EdSign(c, a, r, k) == [r |-> EdEncode(EdMult(c, r, c.b)), s |-> (r + k * a) % c.l]

\* _verify, when the hash gives k.
EdVerify(c, pub, sig, k) ==
  LET a == EdDecode(c, pub)
      r == EdDecode(c, sig.r)
  IN  /\ sig.s < c.l
      /\ a # <<>> /\ EdMult(c, 8, a) # Identity
      /\ r # <<>>
      /\ EdMult(c, 8 * sig.s, c.b) = EdMult(c, 8, EdAdd(c, r, EdMult(c, k, a)))

OnEdwards(c, x, y) == (y * y - x * x - 1 - ((c.d * x * x) % c.p) * y * y) % c.p = 0

\* The strict decoder takes exactly the encodings of the points of the curve, so that there is
\* one for each: no y beyond p, no sign of zero; and the extended coordinates multiply a
\* point of any order as the sum in affine ones does (eddsa.py:130-148, 99-122).
EdDecodesExactly(c, e) ==
  LET q == EdDecode(c, e)
      m[i \in 0 .. 8 * c.l] == IF i = 0 THEN Identity ELSE EdAdd(c, m[i - 1], q)
  IN  IF q = <<>>
      THEN ~\E x \in 0 .. c.p - 1 : e.y < c.p /\ OnEdwards(c, x, e.y) /\ EdEncode(<<x, e.y>>) = e
      ELSE /\ OnEdwards(c, q[1], q[2]) /\ q[1] \in 0 .. c.p - 1 /\ EdEncode(q) = e
           /\ \A k \in 0 .. 8 * c.l : EdMult(c, k, q) = m[k]

\* A signature verifies whatever the hashes are, also for r = 0 and k = 0, and does not with
\* another s in the range (eddsa.py:231-267).
EdSignatureVerifies(c, a, r, k) ==
  LET pub == EdEncode(EdMult(c, a, c.b))
      sig == EdSign(c, a, r, k)
  IN  \A s \in 0 .. 2 * c.l - 1 : EdVerify(c, pub, [sig EXCEPT !.s = s], k) <=> s = sig.s
=============================================================================
