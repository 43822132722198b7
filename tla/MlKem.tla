--------------------------------- MODULE MlKem ---------------------------------
(***************************************************************************)
(* ML-KEM (mlkem.py): compression, sampling, K-PKE and decapsulation with  *)
(* implicit rejection, on octets.  The hashes G, H and J are free          *)
(* constructors; Noise is what sample_cbd makes of the PRF at a nonce, for *)
(* any function of a seed.  In a string of octets a seed or a hash is one  *)
(* element, that of rho being the matrix which is expanded from it.        *)
(***************************************************************************)
EXTENDS Ring, FiniteSets
LOCAL INSTANCE SequencesExt

CONSTANTS
  KemRing, K,       \* the ring, and the length of vectors
  Du, Dv,           \* bits of the coefficients of a ciphertext
  Noise(_, _)       \* of a seed and a nonce: a small polynomial

\* _compress, _decompress
Compress(d, x) == ((x * 2 ^ (d + 1) + KemRing.q) \div (2 * KemRing.q)) % 2 ^ d
Decompress(d, y) == (y * KemRing.q + 2 ^ (d - 1)) \div 2 ^ d

Coeffwise(op(_, _), d, f) == [i \in 0 .. KemRing.n - 1 |-> op(d, f[i])]

\* _sample_cbd: the difference of two sums of eta bits.
SampleCbd(R, eta, data) ==
  LET bits == UnpackBits(data, 1)
      Sum(from) == Cardinality({j \in from + 1 .. from + eta : bits[j] = 1})
  IN  [i \in 0 .. R.n - 1 |-> (Sum(2 * i * eta) - Sum(2 * i * eta + eta)) % R.q]

\* k noise polynomials from the counter ctr on.
NoiseVector(seed, ctr) == [i \in 1 .. K |-> Noise(seed, ctr + i - 1)]
KemNtt(v) == [i \in 1 .. K |-> Ntt(KemRing, v[i])]

\* 12 in the code, and the octets of a vector, 384 * k.
CoeffBits == BitLength(KemRing.q - 1)
VectorSize == PolySize(KemRing, CoeffBits) * K

KpkeKeygen(sigma, a_hat) ==
  LET s_hat == KemNtt(NoiseVector(sigma, 0))
      e_hat == KemNtt(NoiseVector(sigma, K))
      t_hat == [i \in 1 .. K |-> PolyAdd(KemRing, NttDot(KemRing, a_hat[i], s_hat), e_hat[i])]
  IN  [ek |-> PackPolys(KemRing, t_hat, CoeffBits) \o <<a_hat>>,
       dk |-> PackPolys(KemRing, s_hat, CoeffBits)]

KpkeEncrypt(ek, m, r) ==
  LET t_hat == UnpackPolys(KemRing, ek, 0, K, CoeffBits)
      a_hat == ek[VectorSize + 1]
      y_hat == KemNtt(NoiseVector(r, 0))
      column(i) == [j \in 1 .. K |-> a_hat[j][i]]
      u(i) == PolyAdd(KemRing, NttInv(KemRing, NttDot(KemRing, column(i), y_hat)),
                      NoiseVector(r, K)[i])
      mu == Coeffwise(Decompress, 1, UnpackPolys(KemRing, m, 0, 1, 1)[1])
      v == PolyAdd(KemRing,
             PolyAdd(KemRing, NttInv(KemRing, NttDot(KemRing, t_hat, y_hat)), Noise(r, 2 * K)), mu)
  IN  PackPolys(KemRing, [i \in 1 .. K |-> Coeffwise(Compress, Du, u(i))], Du)
      \o PackPolys(KemRing, <<Coeffwise(Compress, Dv, v)>>, Dv)

KpkeDecrypt(dk, c) ==
  LET s_hat == UnpackPolys(KemRing, dk, 0, K, CoeffBits)
      u == UnpackPolys(KemRing, c, 0, K, Du)
      v == UnpackPolys(KemRing, c, PolySize(KemRing, Du) * K, 1, Dv)[1]
      u_hat == KemNtt([i \in 1 .. K |-> Coeffwise(Decompress, Du, u[i])])
      w == PolySub(KemRing, Coeffwise(Decompress, Dv, v),
                   NttInv(KemRing, NttDot(KemRing, s_hat, u_hat)))
  IN  PackPolys(KemRing, <<Coeffwise(Compress, 1, w)>>, 1)

\* The two halves of G, and J; H(ek) is ek.
SharedOf(m, h) == [from |-> "G", m |-> m, h |-> h]
CoinsOf(m, h) == <<m, h>>
RejectionOf(z, c) == [from |-> "J", z |-> z, c |-> c]

KemKeygen(sigma, a_hat, z) ==
  LET k == KpkeKeygen(sigma, a_hat)
  IN  k.dk \o k.ek \o <<k.ek, z>>

\* The parts of a decapsulation key.
DkPke(dk) == SubSeq(dk, 1, VectorSize)
EkOf(dk) == SubSeq(dk, VectorSize + 1, 2 * VectorSize + 1)
HashOf(dk) == dk[2 * VectorSize + 2]
ZOf(dk) == dk[2 * VectorSize + 3]

EncapsCiphertext(ek, m) == KpkeEncrypt(ek, m, CoinsOf(m, ek))

\* Mutant: only the first part of the ciphertext is compared.
SameFirstPart(c, d) ==
  LET n == PolySize(KemRing, Du) * K IN SubSeq(c, 1, n) = SubSeq(d, 1, n)

\* _ct_equal of the ciphertext and the one that is encrypted again.
SameCiphertext(c, d) == c = d

Decaps(dk, c) ==
  LET m == KpkeDecrypt(DkPke(dk), c)
  IN  IF SameCiphertext(c, KpkeEncrypt(EkOf(dk), m, CoinsOf(m, HashOf(dk))))
      THEN SharedOf(m, HashOf(dk)) ELSE RejectionOf(ZOf(dk), c)

\* ek_size and dk_size, by which the parameter set is found.
EkSize == VectorSize + 1
DkSize == 2 * VectorSize + 3

\* check_encaps_key, check_decaps_key
EncapsKeyOk(ek) ==
  /\ Len(ek) = EkSize
  /\ \A p \in ToSet(UnpackPolys(KemRing, ek, 0, K, CoeffBits)) : \A j \in DOMAIN p : p[j] < KemRing.q
DecapsKeyOk(dk) == Len(dk) = DkSize /\ HashOf(dk) = EkOf(dk)

-----------------------------------------------------------------------------

\* The key that an encapsulation agrees on is the one its ciphertext decapsulates to.  Of
\* the ciphertexts that differ from it in an octet, or not at all, each gives a secret of its
\* own: it is rejected with that of no other ciphertext, or it is the encryption of another
\* message (mlkem.py:363-370).  A decapsulation key passes its check, and with another octet in
\* the encapsulation key within it, or another hash, it does not (mlkem.py:417-428).
KemAgrees(dk, m) ==
  LET c == EncapsCiphertext(EkOf(dk), m)
      Changed(s, S) == {[s EXCEPT ![i] = x] : i \in S, x \in 0 .. Base - 1}
      others == Changed(c, 1 .. Len(c))
      broken == Changed(dk, VectorSize + 1 .. 2 * VectorSize) \ {dk}
  IN  /\ EncapsKeyOk(EkOf(dk)) /\ DecapsKeyOk(dk)
      /\ \A d \in broken : ~DecapsKeyOk(d)
      /\ Decaps(dk, c) = SharedOf(m, EkOf(dk))
      /\ Cardinality({Decaps(dk, d) : d \in others}) = Cardinality(others)

\* Every value of the binomial distribution has the weight of the distribution, whatever the
\* coefficient, over all data (mlkem.py:186-194).
CbdCentered(R, eta) ==
  LET bits == 2 * eta * R.n
      All == [1 .. bits \div OctetBits -> 0 .. Base - 1]
      Drawn(i, v) == Cardinality({data \in All : SampleCbd(R, eta, data)[i] = v % R.q})
      Binomial(k) == Cardinality({S \in SUBSET (1 .. 2 * eta) : Cardinality(S) = k})
  IN  \A i \in 0 .. R.n - 1, v \in -eta .. eta : Drawn(i, v) = Binomial(eta + v) * 2 ^ (bits - 2 * eta)
=============================================================================
