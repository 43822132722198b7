-------------------------------- MODULE Ecdsa ---------------------------------
(***************************************************************************)
(* One ECDSA signature (ec.py): the RFC 6979 generator, the candidates it  *)
(* yields and rejects, the retries of sign_ecdsa, and verify_ecdsa.        *)
(*                                                                         *)
(* HMAC is a free constructor: the generator's K and V are terms, in       *)
(* postfix notation.  What number the octets of a term are is chosen when  *)
(* they are first used.                                                    *)
(* The DER of a signature is the DER component's.                          *)
(***************************************************************************)
EXTENDS Ec

CONSTANTS
  EcdsaCalls,     \* records of a curve, a scalar d, a digest and its length in bits, hlen
  MaxCandidates   \* bound: candidates in a call

VARIABLE ecdsa

QLen(c) == BitLength(c.n)

\* _bits2int of octets that are the number v.
Bits2Int(v, bits, qlen) == IF bits > qlen THEN v \div 2 ^ (bits - qlen) ELSE v

Digest(a) == Bits2Int(a.digest, a.hlen, QLen(a.curve))

ASSUME DigestAssumption ==
  \A a \in EcdsaCalls : Digest(a) \in Nat /\ a.curve.n \in Nat \ {0}

\* The arithmetic of a curve: its field and the order of G are primes, and the multiples of G are
\* points of the curve and add up as their scalars do modulo the order.
IsCurve(c) ==
  LET m == GMultiples(c)
  IN  /\ c.p \in Nat /\ c.p > 3 /\ IsPrime(c.p) /\ c.n \in Nat /\ IsPrime(c.n) /\ c.a \in Int /\ c.b \in Int
      /\ m[0] = Infinity /\ m[1] = G(c)
      /\ \A k \in 1 .. c.n - 1 : m[k] \in (0 .. c.p - 1) \X (0 .. c.p - 1) /\ OnCurve(c, m[k])
      /\ \A i, j \in 0 .. c.n - 1 : PointAdd(c, m[i], m[j]) = m[(i + j) % c.n]

\* The curves of the module and the scalars of their keys; what the provers do not know of powers of 2.
ASSUME CurvesAssumption ==
  \A a \in EcdsaCalls :
    /\ a.d \in 1 .. a.curve.n - 1 /\ IsCurve(a.curve)
    /\ QLen(a.curve) \in Nat /\ a.curve.n < 2 ^ QLen(a.curve)
    /\ \A i \in 1 .. QLen(a.curve) : 2 ^ i = 2 * 2 ^ (i - 1)

\* Mutant: the digest is cut to whole octets, here of two bits, before it is hashed.
SeedCut(a) == [d |-> a.d, h |-> (Digest(a) \div 4) * 4]

\* The octets bx: the key and _bits2octets of the digest.
Seed(a) == [d |-> a.d, h |-> IF Digest(a) < a.curve.n THEN Digest(a) ELSE Digest(a) - a.curve.n]

-----------------------------------------------------------------------------
(* The generator.                                                            *)

NoSeed == [d |-> 0, h |-> 0]
Hmac(k, v, sep, seed) == k \o v \o <<[sep |-> sep, seed |-> seed]>>
NextV(k, v) == Hmac(k, v, "none", NoSeed)

\* A reseeding of K and V.
Rekey(g, sep, seed) ==
  LET k == Hmac(g.k, g.v, sep, seed) IN [k |-> k, v |-> NextV(k, g.v)]

Generator(a) ==
  Rekey(Rekey([k |-> <<[start |-> "0"]>>, v |-> <<[start |-> "1"]>>], "0", Seed(a)), "1", Seed(a))

EcdsaInit == ecdsa = [stage |-> "idle"]

EcdsaSign ==
  /\ ecdsa.stage = "idle"
  /\ \E a \in EcdsaCalls :
       ecdsa' = [stage |-> "draw", call |-> a, gen |-> Generator(a), t |-> <<>>, drawn |-> <<>>]

\* One HMAC of a candidate: several when the hash is shorter than the order.
EcdsaDraw ==
  /\ ecdsa.stage = "draw"
  /\ LET v == NextV(ecdsa.gen.k, ecdsa.gen.v)
         t == Append(ecdsa.t, v)
     IN  ecdsa' = [ecdsa EXCEPT
                     !.gen.v = v, !.t = t,
                     !.stage = IF Len(t) * ecdsa.call.hlen < QLen(ecdsa.call.curve)
                               THEN "draw" ELSE "candidate"]

RValue(a, k) == PublicKey(a.curve, k)[1] % a.curve.n

SValue(a, k) == (Inv(k, a.curve.n) * ((Digest(a) + RValue(a, k) * a.d) % a.curve.n)) % a.curve.n

\* Mutant: a signature whose s is zero is returned.
UsableR(a, k) == k \in 1 .. a.curve.n - 1 /\ RValue(a, k) # 0

Usable(a, k) == k \in 1 .. a.curve.n - 1 /\ RValue(a, k) # 0 /\ SValue(a, k) # 0

LowS(c, s) == IF s > c.n \div 2 THEN c.n - s ELSE s

EcdsaReturn ==
  /\ ecdsa.stage = "candidate"
  /\ \E k \in 1 .. ecdsa.call.curve.n - 1 :
       /\ Usable(ecdsa.call, k)
       /\ ecdsa' = [stage |-> "done", call |-> ecdsa.call, drawn |-> Append(ecdsa.drawn, ecdsa.t),
                    r |-> RValue(ecdsa.call, k), s |-> LowS(ecdsa.call.curve, SValue(ecdsa.call, k))]

RetryGen(g) == Rekey(g, "0", NoSeed)

\* A candidate that is out of range, or that gives r = 0 or s = 0.
EcdsaRetry ==
  /\ ecdsa.stage = "candidate" /\ Len(ecdsa.drawn) < MaxCandidates
  /\ \E k \in 0 .. 2 ^ QLen(ecdsa.call.curve) - 1 : ~Usable(ecdsa.call, k)
  /\ ecdsa' = [ecdsa EXCEPT !.stage = "draw", !.gen = RetryGen(@), !.t = <<>>,
                            !.drawn = Append(@, ecdsa.t)]

EcdsaNext == EcdsaSign \/ EcdsaDraw \/ EcdsaReturn \/ EcdsaRetry

EcdsaSpec == EcdsaInit /\ [][EcdsaNext]_ecdsa

-----------------------------------------------------------------------------

\* verify_ecdsa, after _decode_dss; q is a public key that has been validated.
Verifies(c, q, z, r, s) ==
  LET w == Inv(s, c.n)
      point == PointAdd(c, ScalarMult(c, (z * w) % c.n, G(c)), ScalarMult(c, (r * w) % c.n, q))
  IN  /\ r \in 1 .. c.n - 1 /\ s \in 1 .. c.n - 1
      /\ point # Infinity /\ point[1] % c.n = r

\* A signature that sign_ecdsa returns has the canonical s and verifies, and so does the
\* other one of the two that ECDSA has (ec.py:22-26): for nonces whose r or s is zero,
\* digests longer and shorter than the order and not below it, and an order below the prime.
SignatureVerifies ==
  ecdsa.stage = "done" =>
    LET a == ecdsa.call
        q == PublicKey(a.curve, a.d)
    IN  /\ 2 * ecdsa.s <= a.curve.n
        /\ Verifies(a.curve, q, Digest(a), ecdsa.r, ecdsa.s)
        /\ Verifies(a.curve, q, Digest(a), ecdsa.r, a.curve.n - ecdsa.s)

\* No octets of the generator are used for two candidates (ec.py:391-392), and no two calls
\* draw the same ones unless they have the same key and the same signature equation: a
\* nonce for two equations would give the key away (ec.py:376).
NonceFresh ==
  ecdsa.stage \in {"draw", "candidate", "done"} =>
    /\ \A i, j \in 1 .. Len(ecdsa.drawn) : ecdsa.drawn[i] = ecdsa.drawn[j] => i = j
    /\ \A a \in EcdsaCalls :
         a.curve = ecdsa.call.curve /\ Generator(a) = Generator(ecdsa.call) =>
           a.d = ecdsa.call.d /\ (Digest(a) - Digest(ecdsa.call)) % a.curve.n = 0
=============================================================================
