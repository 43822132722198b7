---------------------------------- MODULE Ec ----------------------------------
(***************************************************************************)
(* Short-Weierstrass curves (ec.py): point arithmetic, the scalar          *)
(* multiplication with its masks, the validation of public points and the  *)
(* SEC1 encodings.  A curve is a record as in the code, of the fields      *)
(* p, a, b, gx, gy and n.                                                  *)
(***************************************************************************)
EXTENDS ModArith

Infinity == <<>>
NoCurve == [p |-> 0]
G(c) == <<c.gx, c.gy>>

\* _point_add
PointAdd(c, p1, p2) ==
  LET x1 == p1[1]  y1 == p1[2]  x2 == p2[1]  y2 == p2[2]
      lam == IF x1 = x2 THEN (3 * x1 * x1 + c.a) * Inv((2 * y1) % c.p, c.p)
                        ELSE (y2 - y1) * Inv((x2 - x1) % c.p, c.p)
      x3 == (lam * lam - x1 - x2) % c.p
  IN  IF p1 = Infinity THEN p2
      ELSE IF p2 = Infinity THEN p1
      ELSE IF x1 = x2 /\ (y1 + y2) % c.p = 0 THEN Infinity
      ELSE <<x3, (lam * (x1 - x3) - y1) % c.p>>

\* The multiples of G by repeated addition.
GMultiples(c) ==
  LET m[k \in 0 .. c.n] == IF k = 0 THEN Infinity ELSE PointAdd(c, m[k - 1], G(c)) IN m

\* _jdouble: a point is <<x, y, z>>, infinity when z is 0.
JDouble(c, r) ==
  LET xx == (r[1] * r[1]) % c.p  yy == (r[2] * r[2]) % c.p  zz == (r[3] * r[3]) % c.p
      s == (2 * (Square(r[1] + yy) - xx - yy * yy)) % c.p
      m == (3 * xx + c.a * zz * zz) % c.p
      t == (m * m - 2 * s) % c.p
  IN  <<t, (m * (s - t) - 8 * yy * yy) % c.p, (Square(r[2] + r[3]) - yy - zz) % c.p>>

\* _jadd_mixed: the sum, and whether the two points coincide.
JAddMixed(c, r, q) ==
  LET zz == (r[3] * r[3]) % c.p
      h == (q[1] * zz - r[1]) % c.p
      d == (2 * (q[2] * r[3] * zz - r[2])) % c.p
      hh == (h * h) % c.p
      j == (4 * h * hh) % c.p
      v == (4 * r[1] * hh) % c.p
      x3 == (d * d - j - 2 * v) % c.p
  IN  [sum |-> <<x3, (d * (v - x3) - 2 * r[2] * j) % c.p, (Square(r[3] + h) - zz - hh) % c.p>>,
       equal |-> IF h = 0 /\ d = 0 THEN 1 ELSE 0]

\* Mutant: no substitute for the sum of a point and itself.
AddNoDouble(c, q, dbl) ==
  Select(IF dbl[3] = 0 THEN 1 ELSE 0, <<q[1], q[2], 1>>, JAddMixed(c, dbl, q).sum)

\* The sum of the accumulator and the affine point q, with both corrections of _scalar_mult.
Add(c, q, dbl) ==
  LET add == JAddMixed(c, dbl, q)
  IN  Select(IF dbl[3] = 0 THEN 1 ELSE 0, <<q[1], q[2], 1>>,
             Select(add.equal, JDouble(c, <<q[1], q[2], 1>>), add.sum))

\* One iteration of the loop, after the doubling.
MulStep(c, q, dbl, bit) == Select(bit, Add(c, q, dbl), dbl)

AffineAt(c, r, zinv) == <<(r[1] * zinv * zinv) % c.p, (((r[2] * zinv * zinv) % c.p) * zinv) % c.p>>
Affine(c, r) == IF r[3] = 0 THEN Infinity ELSE AffineAt(c, r, Inv(r[3], c.p))

\* _scalar_mult, for k from 0 to n; there are as many iterations as n has bits.
ScalarMult(c, k, q) ==
  LET bits == BitLength(c.n)
      r[i \in 0 .. bits] == IF i = 0 THEN <<1, 1, 0>>
                            ELSE MulStep(c, q, JDouble(c, r[i - 1]), Bit(k, bits - i))
  IN  Affine(c, r[bits])

OnCurve(c, q) ==
  /\ q[1] \in 0 .. c.p - 1 /\ q[2] \in 0 .. c.p - 1
  /\ (q[2] * q[2] - (q[1] * q[1] * q[1] + c.a * q[1] + c.b)) % c.p = 0

\* validate_public_point
ValidPublicPoint(c, q) == OnCurve(c, q) /\ ScalarMult(c, c.n, q) = Infinity

-----------------------------------------------------------------------------
(* SEC1: the format byte, whether the octets after it have the length of the  *)
(* format, and the integers that they are.                                    *)

EncodePoint(c, q, compressed) ==
  IF compressed THEN [format |-> 2 + (q[2] % 2), fits |-> TRUE, x |-> q[1]]
                ELSE [format |-> 4, fits |-> TRUE, x |-> q[1], y |-> q[2]]

\* _recover_y
HasRoot(c, x) ==
  LET alpha == (x ^ 3 + c.a * x + c.b) % c.p
      beta == Pow(alpha, (c.p + 1) \div 4, c.p)
  IN  (beta * beta) % c.p = alpha

RecoverY(c, x, odd) ==
  LET beta == Pow((x ^ 3 + c.a * x + c.b) % c.p, (c.p + 1) \div 4, c.p)
  IN  IF beta % 2 = odd THEN beta ELSE c.p - beta

\* decode_point: a point, or the exception.
Checked(c, q) ==
  IF ValidPublicPoint(c, q) THEN [point |-> q] ELSE [raised |-> "InvalidKey"]

DecodePoint(c, e) ==
  IF e.format \notin {2, 3, 4} \/ ~e.fits THEN [raised |-> "InvalidSerialization"]
  ELSE IF e.format = 4                     THEN Checked(c, <<e.x, e.y>>)
  ELSE IF c.p % 4 # 3                      THEN [raised |-> "UnsupportedAlgorithm"]
  ELSE IF e.x >= c.p \/ ~HasRoot(c, e.x)   THEN [raised |-> "InvalidSerialization"]
  ELSE Checked(c, <<e.x, RecoverY(c, e.x, e.format % 2)>>)

-----------------------------------------------------------------------------
(* Private keys and ECDH.                                                    *)

PublicKey(c, d) == ScalarMult(c, d, G(c))

\* A private key of other octets: the version, the scalar, whether its octets have the size of
\* the curve, and the fields after it, [kind |-> "params", curve], [kind |-> "public", point]
\* or [kind |-> "other"].
ToSec1(c, d) ==
  [kind |-> "sec1", version |-> 1, d |-> d, fits |-> TRUE,
   fields |-> <<[kind |-> "params", curve |-> c],
                [kind |-> "public", point |-> EncodePoint(c, PublicKey(c, d), FALSE)]>>]

Places(key, kind) == {i \in 1 .. Len(key.fields) : key.fields[i].kind = kind}

\* _sec1_curve: the first parameters field, and without one the curve of the caller or of the
\* PKCS#8 wrapping; NoCurve stands for None.
Sec1Curve(key, fallback) ==
  LET S == Places(key, "params")
  IN  IF S = {} THEN fallback ELSE key.fields[CHOOSE i \in S : \A j \in S : i <= j].curve

\* _sec1_check_public
PublicMatches(c, key) ==
  \A i \in Places(key, "public") :
    key.fields[i].point = EncodePoint(c, PublicKey(c, key.d), FALSE)

LoadSec1On(c, key) ==
  IF Len(key.fields) > 2 \/ key.version # 1 \/ c = NoCurve \/ ~key.fits
  THEN [raised |-> "InvalidSerialization"]
  ELSE IF key.d \in 1 .. c.n - 1 /\ PublicMatches(c, key)
       THEN [curve |-> c, d |-> key.d] ELSE [raised |-> "InvalidKey"]

\* _from_sec1
LoadSec1(key, fallback) == LoadSec1On(Sec1Curve(key, fallback), key)

\* to_pkcs8_der; "" stands for no password.
ToPkcs8(c, d, password) ==
  LET der == [kind |-> "pkcs8", version |-> 0, algorithm |-> "ec", curve |-> c,
              inner |-> [kind |-> "sec1", version |-> 1, d |-> d, fits |-> TRUE, fields |-> <<>>]]
  IN  IF password = "" THEN der ELSE [kind |-> "encrypted", password |-> password, inner |-> der]

\* from_der of what no password is left for, with _from_pkcs8.
LoadPlain(file, fallback) ==
  CASE file.kind = "encrypted" -> [raised |-> "InvalidKey"]
    [] file.kind = "sec1" -> LoadSec1(file, fallback)
    [] OTHER -> IF file.version # 0 \/ file.algorithm # "ec" THEN [raised |-> "InvalidSerialization"]
                ELSE LoadSec1(file.inner, file.curve)

\* from_der: PBES2 returns what it holds or raises InvalidKey (the PBES2 component).
LoadDer(file, fallback, password) ==
  IF file.kind # "encrypted" THEN LoadPlain(file, fallback)
  ELSE IF password = "" \/ file.password # password THEN [raised |-> "InvalidKey"]
  ELSE LoadPlain(file.inner, fallback)

\* ECPrivateKey.ecdh of a point, of a key object or as decode_point has read it.
Ecdh(c, d, q) ==
  LET shared == ScalarMult(c, d, q)
  IN  IF ~ValidPublicPoint(c, q) \/ shared = Infinity THEN [raised |-> "InvalidKey"]
      ELSE [secret |-> shared[1]]

-----------------------------------------------------------------------------

\* A point is decoded exactly if its octets are one of the two encodings of a multiple of G
\* other than infinity, and then to that (ec.py:259-302); compressed octets need a prime
\* that is 3 modulo 4.  What is decoded is multiplied as repeated addition does,
\* and ECDH is refused for none of them.
EcDecodesExactly(c, e) ==
  LET m == GMultiples(c)
      named == {k \in 1 .. c.n - 1 :
              \/ e = EncodePoint(c, m[k], FALSE)
              \/ c.p % 4 = 3 /\ e = EncodePoint(c, m[k], TRUE)}
  IN  IF named = {} THEN "raised" \in DOMAIN DecodePoint(c, e)
      ELSE \A k \in named, q \in {m[k] : k \in named} : q = m[k] =>
             /\ DecodePoint(c, e) = [point |-> q]
             /\ \A d \in 0 .. c.n : ScalarMult(c, d, q) = m[(d * k) % c.n]
             /\ \A d \in 1 .. c.n - 1 : Ecdh(c, d, q) = [secret |-> m[(d * k) % c.n][1]]

\* A private key comes back from both of its files on its own curve, whatever the caller's is,
\* and from an encrypted one only with the password; of two files inside one another none
\* is loaded, nor one whose public key is that of another scalar (ec.py:648-655, 717-726).
EcLoadsOwn(c, d, other) ==
  LET refused == [raised |-> "InvalidKey"]
  IN  \A file \in {ToSec1(c, d)}, plain \in {ToPkcs8(c, d, "")}, secret \in {ToPkcs8(c, d, "secret")} :
        /\ \A f \in {file, plain, secret}, curve \in {NoCurve, c} :
             LoadDer(f, curve, "secret") = [curve |-> c, d |-> d]
        /\ \A f \in {[secret EXCEPT !.inner = secret], [file EXCEPT !.d = other]} :
             other # d => LoadDer(f, c, "secret") = refused
        /\ \A password \in {"", "other"} : LoadDer(secret, c, password) = refused
=============================================================================
