--------------------------------- MODULE MlDsa --------------------------------
(***************************************************************************)
(* ML-DSA (mldsa.py): the key pair, the rejection loop of one signature    *)
(* and its verification.  SHAKE is abstracted: the seeds rho, rho_pp and   *)
(* the rest stand for the polynomials that are expanded from them, a       *)
(* challenge hash is the octets that are hashed, and the ball that is      *)
(* sampled from a hash may be any.  In a string of octets a seed or a hash *)
(* is one element.                                                         *)
(***************************************************************************)
EXTENDS Ring, FiniteSets

CONSTANTS
  MlDsaParams,    \* a record with the fields of _Params, the ring and d
  MlDsaSecrets,   \* records of a_hat, s1 and s2, the outcomes of expanding a seed
  MlDsaMasks,     \* vectors of polynomials, outcomes of expand_mask
  MlDsaHints,     \* octets: positions and ends, as in a signature
  MlDsaBalls,     \* outcomes of sample_in_ball
  MaxAttempts     \* bound: attempts in a call

ASSUME HintsAssumption ==
  /\ MlDsaParams.omega \in Nat /\ MlDsaParams.k \in Nat \ {0} /\ MlDsaParams.ring.n \in Nat
  /\ \A e \in MlDsaHints : /\ e \in Seq(Nat) /\ Len(e) = MlDsaParams.omega + MlDsaParams.k
                          /\ \A j \in 1 .. MlDsaParams.omega : e[j] < MlDsaParams.ring.n

ASSUME EllAssumption == MlDsaParams.ell \in Nat \ {0}

R == MlDsaParams.ring

ASSUME RoundingAssumption ==
  /\ MlDsaParams.gamma2 \in Nat \ {0} /\ R.q \in Nat /\ R.q > 2 * MlDsaParams.gamma2
  /\ (R.q - 1) % (2 * MlDsaParams.gamma2) = 0

VARIABLE mldsa

Rows == 1 .. MlDsaParams.k
Columns == 1 .. MlDsaParams.ell
Coeffs == 0 .. R.n - 1

-----------------------------------------------------------------------------
(* Rounding.                                                                 *)

\* _mod_pm_range, and _mod_pm for m = q.
ModPm(x, m) == LET y == x % m IN IF y > m \div 2 THEN y - m ELSE y

\* _power2round
T0(r) == ModPm(r % R.q, 2 ^ MlDsaParams.d)
T1(r) == ((r % R.q) - T0(r)) \div 2 ^ MlDsaParams.d

\* Mutant: no special case for the last multiple.
DecomposePlain(r) ==
  LET r0 == ModPm(r % R.q, 2 * MlDsaParams.gamma2)
  IN  <<((r % R.q) - r0) \div (2 * MlDsaParams.gamma2), r0>>

\* _decompose
Decompose(r) ==
  LET r0 == ModPm(r % R.q, 2 * MlDsaParams.gamma2)
  IN  IF (r % R.q) - r0 = R.q - 1 THEN <<0, r0 - 1>>
      ELSE <<((r % R.q) - r0) \div (2 * MlDsaParams.gamma2), r0>>

HighBits(r) == Decompose(r)[1]

MakeHint(z, r) == IF HighBits(r) # HighBits(r + z) THEN 1 ELSE 0

UseHint(h, r) ==
  LET m == (R.q - 1) \div (2 * MlDsaParams.gamma2)
      d == Decompose(r)
  IN  IF h = 1 THEN (IF d[2] > 0 THEN d[1] + 1 ELSE d[1] - 1) % m ELSE d[1]

\* _norm_ok of each polynomial of a vector.
NormOk(v, bound) ==
  \A i \in DOMAIN v : \A j \in Coeffs : ModPm(v[i][j], R.q) \in 1 - bound .. bound - 1

-----------------------------------------------------------------------------
(* The hints of a signature: the positions of the ones, row after row, and   *)
(* for each row where its positions end.                                     *)

Ones(p) == {i \in Coeffs : p[i] # 0}
Weight(h, i) == LET w[r \in 0 .. i] == IF r = 0 THEN 0 ELSE w[r - 1] + Cardinality(Ones(h[r]))
                IN  w[i]

HintEncode(h) ==
  [j \in 1 .. MlDsaParams.omega |->
     IF j > Weight(h, MlDsaParams.k) THEN 0
     ELSE LET i == CHOOSE r \in Rows : Weight(h, r - 1) < j /\ j <= Weight(h, r)
          IN  CHOOSE x \in Ones(h[i]) :
                Cardinality({y \in Ones(h[i]) : y < x}) = j - 1 - Weight(h, i - 1)]
  \o [i \in Rows |-> Weight(h, i)]

\* The tests of _sig_decode; the positions of row i are behind the first Begin(e, i) ones.
Begin(e, i) == IF i = 1 THEN 0 ELSE e[MlDsaParams.omega + i - 1]
Ends(e, i) == e[MlDsaParams.omega + i]
WellFormed(e) ==
  /\ \A i \in Rows : /\ Ends(e, i) \in Begin(e, i) .. MlDsaParams.omega
                     /\ \A j \in Begin(e, i) + 2 .. Ends(e, i) : e[j - 1] < e[j]
  /\ \A j \in Ends(e, MlDsaParams.k) + 1 .. MlDsaParams.omega : e[j] = 0

\* <<>> stands for None.
HintDecode(e) ==
  IF ~WellFormed(e) THEN <<>>
  ELSE [i \in Rows |-> [x \in Coeffs |->
          IF \E j \in Begin(e, i) + 1 .. Ends(e, i) : e[j] = x THEN 1 ELSE 0]]

-----------------------------------------------------------------------------
(* Encodings of keys and signatures.                                         *)

\* _pack_poly_offset and _unpack_poly_offset, without the packing.
Offset(v, offset) == [i \in DOMAIN v |-> [j \in Coeffs |-> offset - ModPm(v[i][j], R.q)]]
FromOffset(v, offset) == [i \in DOMAIN v |-> [j \in Coeffs |-> (offset - v[i][j]) % R.q]]

\* s_bits, z_bits, w1_bits, and 10 in the code.
SBits == BitLength(2 * MlDsaParams.eta)
ZBits == BitLength(2 * MlDsaParams.gamma1 - 1)
W1Bits == BitLength((R.q - 1) \div (2 * MlDsaParams.gamma2) - 1)
T1Bits == BitLength(R.q - 1) - MlDsaParams.d
T0Offset == 2 ^ (MlDsaParams.d - 1)

\* _pk_encode, _pk_decode; the matrix stands for rho.
PkEncode(a_hat, t1) == <<a_hat>> \o PackPolys(R, t1, T1Bits)
PkDecode(pk) == [a_hat |-> pk[1], t1 |-> UnpackPolys(R, pk, 1, MlDsaParams.k, T1Bits)]

\* _sk_encode, _sk_decode: rho, the key, the hash of the public key, and the vectors.
SkEncode(a_hat, pk, s1, s2, t0) ==
  <<a_hat, "key", pk>> \o PackPolys(R, Offset(s1, MlDsaParams.eta), SBits)
  \o PackPolys(R, Offset(s2, MlDsaParams.eta), SBits)
  \o PackPolys(R, Offset(t0, T0Offset), MlDsaParams.d)
SkDecode(sk) ==
  LET at2 == 3 + PolySize(R, SBits) * MlDsaParams.ell
      at0 == at2 + PolySize(R, SBits) * MlDsaParams.k
  IN  [a_hat |-> sk[1],
       s1 |-> FromOffset(UnpackPolys(R, sk, 3, MlDsaParams.ell, SBits), MlDsaParams.eta),
       s2 |-> FromOffset(UnpackPolys(R, sk, at2, MlDsaParams.k, SBits), MlDsaParams.eta),
       t0 |-> FromOffset(UnpackPolys(R, sk, at0, MlDsaParams.k, MlDsaParams.d), T0Offset)]

\* _w1_encode, _sig_encode, _sig_decode without its hints, sig_size.
W1Encode(w1) == PackPolys(R, w1, W1Bits)
SigEncode(ctilde, z, h) ==
  <<ctilde>> \o PackPolys(R, Offset(z, MlDsaParams.gamma1), ZBits) \o HintEncode(h)
ZSize == PolySize(R, ZBits) * MlDsaParams.ell
SigZ(sig) == FromOffset(UnpackPolys(R, sig, 1, MlDsaParams.ell, ZBits), MlDsaParams.gamma1)
SigHints(sig) == HintDecode(SubSeq(sig, 1 + ZSize + 1, Len(sig)))
SigSize == 1 + ZSize + MlDsaParams.omega + MlDsaParams.k

-----------------------------------------------------------------------------
(* Keys, signing and verification.                                           *)

NttVector(v) == [i \in DOMAIN v |-> Ntt(R, v[i])]
\* A vector times the challenge, and the matrix times a vector.
Scaled(c, v) == [i \in DOMAIN v |-> NttInv(R, NttMul(R, Ntt(R, c), Ntt(R, v[i])))]
Times(a_hat, v) == [i \in Rows |-> NttInv(R, NttDot(R, a_hat[i], NttVector(v)))]

Added(v, w) == [i \in DOMAIN v |-> PolyAdd(R, v[i], w[i])]
Subtracted(v, w) == [i \in DOMAIN v |-> PolySub(R, v[i], w[i])]
Each(op(_), v) == [i \in DOMAIN v |-> [j \in Coeffs |-> op(v[i][j])]]

\* t of _keygen_internal, which begins with the seed's matrix and secrets s.
KeyT(s) == Added(Times(s.a_hat, s.s1), s.s2)
KeyPair(s) ==
  LET pk == PkEncode(s.a_hat, Each(T1, KeyT(s)))
  IN  [pk |-> pk, sk |-> SkEncode(s.a_hat, pk, s.s1, s.s2, Each(T0, KeyT(s)))]

MlDsaInit == mldsa = [stage |-> "idle"]

\* A key pair is made, and a signature begun with its private key.
MlDsaKeygen ==
  /\ mldsa.stage = "idle"
  /\ \E s \in MlDsaSecrets :
       LET pair == KeyPair(s)
           key == SkDecode(pair.sk)
       IN  mldsa' = [stage |-> "loop", a_hat |-> key.a_hat, s1 |-> key.s1, s2 |-> key.s2, t0 |-> key.t0,
                     pk |-> pair.pk, kappa |-> 0, nonces |-> <<>>]

\* What one attempt of _sign_mu computes from the mask y and the challenge c.
Response(y, c) == Added(y, Scaled(c, mldsa.s1))
Remainder(w, c) == Subtracted(w, Scaled(c, mldsa.s2))
Hints(w, c) ==
  LET ct0 == Scaled(c, mldsa.t0)
      r == Remainder(w, c)
  IN  [i \in Rows |-> [j \in Coeffs |-> MakeHint(-ct0[i][j], r[i][j] + ct0[i][j])]]

LowBits(r) == Decompose(r)[2]

Accepted(y, w, c) ==
  /\ NormOk(Response(y, c), MlDsaParams.gamma1 - MlDsaParams.beta)
  /\ NormOk(Each(LowBits, Remainder(w, c)), MlDsaParams.gamma2 - MlDsaParams.beta)
  /\ NormOk(Scaled(c, mldsa.t0), MlDsaParams.gamma2)
  /\ Weight(Hints(w, c), MlDsaParams.k) <= MlDsaParams.omega

\* The nonces of the masks of an attempt.
MaskNonces(kappa) == [i \in Columns |-> kappa + i - 1]

\* Mutant: the counter goes on by one mask.
NextKappaByOne(kappa) == kappa + 1

NextKappa(kappa) == kappa + MlDsaParams.ell

MlDsaReject ==
  /\ mldsa.stage = "loop"
  /\ mldsa.kappa < MlDsaParams.ell * MaxAttempts
  /\ \E y \in MlDsaMasks, c \in MlDsaBalls : ~Accepted(y, Times(mldsa.a_hat, y), c)
  /\ mldsa' = [mldsa EXCEPT !.kappa = NextKappa(@), !.nonces = @ \o MaskNonces(mldsa.kappa)]

MlDsaReturn ==
  /\ mldsa.stage = "loop"
  /\ \E y \in MlDsaMasks, c \in MlDsaBalls :
       LET w == Times(mldsa.a_hat, y)
       IN  /\ Accepted(y, w, c)
           /\ mldsa' = [stage |-> "done", pk |-> mldsa.pk,
                        nonces |-> mldsa.nonces \o MaskNonces(mldsa.kappa),
                        sig |-> SigEncode(W1Encode(Each(HighBits, w)), Response(y, c), Hints(w, c)),
                        ball |-> c]

\* The hints of a signature that comes from elsewhere.
MlDsaDecode ==
  /\ mldsa.stage = "idle"
  /\ \E e \in MlDsaHints : mldsa' = [stage |-> "decoded", from |-> e, hints |-> HintDecode(e)]

MlDsaNext == MlDsaKeygen \/ MlDsaReject \/ MlDsaReturn \/ MlDsaDecode
MlDsaSpec == MlDsaInit /\ [][MlDsaNext]_mldsa

\* _verify_internal with _verify_mu; the ball is the one that is sampled from the hash.
MlDsaVerifies(pk, sig, ball) ==
  LET key == PkDecode(pk)
      z == SigZ(sig)
      h == SigHints(sig)
      up == [i \in Rows |-> [j \in Coeffs |-> (key.t1[i][j] * 2 ^ MlDsaParams.d) % R.q]]
      w == Subtracted(Times(key.a_hat, z), Scaled(ball, up))
  IN  /\ Len(sig) = SigSize /\ h # <<>>
      /\ NormOk(z, MlDsaParams.gamma1 - MlDsaParams.beta)
      /\ sig[1] = W1Encode([i \in Rows |-> [j \in Coeffs |-> UseHint(h[i][j], w[i][j])]])

-----------------------------------------------------------------------------

\* No mask is used for two attempts, whole or in a part (mldsa.py:541).
MasksFresh ==
  mldsa.stage \in {"loop", "done"} =>
    \A i, j \in 1 .. Len(mldsa.nonces) : mldsa.nonces[i] = mldsa.nonces[j] => i = j

\* A signature that the loop returns verifies, keys and signature having gone through their
\* encodings: the hints give back the high bits that were hashed although the public key lacks
\* t0, at the corner of decompose (mldsa.py:216) and for a remainder or a mask at its bound.
DoneVerifies == mldsa.stage = "done" => MlDsaVerifies(mldsa.pk, mldsa.sig, mldsa.ball)

\* An encoding of hints that is taken is the only one of what it is decoded to
\* (mldsa.py:482-494).
HintsUnique == mldsa.stage = "decoded" /\ mldsa.hints # <<>> => HintEncode(mldsa.hints) = mldsa.from

MlDsaSound == DoneVerifies /\ HintsUnique
=============================================================================
