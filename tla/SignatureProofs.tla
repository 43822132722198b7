--------------------------- MODULE SignatureProofs ----------------------------
(***************************************************************************)
(* Proofs about signatures and private keys: nonces of ECDSA, for all      *)
(* curves, keys and digests, and masks of ML-DSA, for every parameter set  *)
(* and key, in any number of attempts; and RSA, for keys of all sizes:     *)
(* that generated keys are accepted, and that the private operation        *)
(* releases roots only, and the root when nothing has gone wrong.  What    *)
(* RSA needs of number theory is proved from the definitions: congruence,  *)
(* powers, Bezout's identity, Euclid's lemma, Fermat's little theorem and  *)
(* the Chinese remainder theorem.  And that ECDSA signatures verify: that  *)
(* the Jacobian formulas and the masked loop of _scalar_mult compute       *)
(* multiples by repeated addition, and the algebra of the two equations.   *)
(* Last, the hints of ML-DSA, for every parameter set: they give back the  *)
(* high bits that were hashed, and they have one encoding that is taken.   *)
(***************************************************************************)
EXTENDS Ecdsa, MlDsa, Rsa, SequenceTheorems, FiniteSetTheorems, WellFoundedInduction, TLAPS

-----------------------------------------------------------------------------
(* ML-DSA.                                                                   *)

Distinct(s) == \A i, j \in 1 .. Len(s) : s[i] = s[j] => i = j
Below(s, n) == \A i \in 1 .. Len(s) : s[i] < n

\* The state in the loop, as a record of its fields.
LoopShape ==
  mldsa = [stage |-> "loop", a_hat |-> mldsa.a_hat, s1 |-> mldsa.s1, s2 |-> mldsa.s2, t0 |-> mldsa.t0, pk |-> mldsa.pk,
           kappa |-> mldsa.kappa, nonces |-> mldsa.nonces]

\* The nonces of the attempts before lie below the counter.
InLoop ==
  mldsa.stage = "loop" =>
    /\ LoopShape
    /\ mldsa.kappa \in Nat /\ mldsa.nonces \in Seq(Nat)
    /\ Below(mldsa.nonces, mldsa.kappa) /\ Distinct(mldsa.nonces)
AtEnd == mldsa.stage = "done" => Distinct(mldsa.nonces)
MlDsaIInv == InLoop /\ AtEnd

\* The nonces of an attempt that begins at the counter kappa continue those before: they
\* are new, and the next counter is above them.
LEMMA AttemptIsFresh ==
  ASSUME NEW kappa \in Nat, NEW s \in Seq(Nat), Below(s, kappa), Distinct(s)
  PROVE  /\ s \o MaskNonces(kappa) \in Seq(Nat)
         /\ Distinct(s \o MaskNonces(kappa))
         /\ Below(s \o MaskNonces(kappa), NextKappa(kappa))
         /\ NextKappa(kappa) \in Nat
<1> DEFINE ell == MlDsaParams.ell
           t == MaskNonces(kappa)
<1>1. ell \in Nat \ {0}
  BY EllAssumption
<1>2. t \in Seq(Nat) /\ Len(t) = ell /\ \A i \in 1 .. ell : t[i] = kappa + i - 1
  <2>1. t \in [1 .. ell -> Nat] /\ \A i \in 1 .. ell : t[i] = kappa + i - 1
    BY <1>1 DEF MaskNonces, Columns
  <2>2. t \in Seq(Nat)
    BY <2>1, <1>1, SeqDef
  <2>. QED BY <2>1, <2>2, <1>1, LenProperties
<1>3. NextKappa(kappa) = kappa + ell
  BY DEF NextKappa
<1>. HIDE DEF ell, t
<1>4. /\ s \o t \in Seq(Nat)
      /\ Len(s \o t) = Len(s) + ell
      /\ \A i \in 1 .. Len(s) + ell :
           (s \o t)[i] = IF i <= Len(s) THEN s[i] ELSE t[i - Len(s)]
  BY <1>2, ConcatProperties
<1>5. Len(s) \in Nat /\ \A i \in 1 .. Len(s) : s[i] \in Nat
  BY LenProperties, ElementOfSeq
\* Where each nonce is, and on which side of kappa.
<1>6. \A i \in 1 .. Len(s) + ell :
        \/ i \in 1 .. Len(s) /\ (s \o t)[i] = s[i] /\ s[i] \in Nat /\ s[i] < kappa
        \/ i > Len(s) /\ (s \o t)[i] = kappa + (i - Len(s)) - 1
  <2> TAKE i \in 1 .. Len(s) + ell
  <2>0. i \in Nat /\ i >= 1 /\ i <= Len(s) + ell /\ Len(s) \in Nat /\ ell \in Nat
    BY <1>1, <1>5
  <2>1. CASE i <= Len(s)
    <3>1. i \in 1 .. Len(s) /\ (s \o t)[i] = s[i]
      BY <2>0, <2>1, <1>4
    <3>. QED BY <3>1, <1>5 DEF Below
  <2>2. CASE i > Len(s)
    <3>1. i - Len(s) \in 1 .. ell
      BY <2>0, <2>2
    <3>2. (s \o t)[i] = t[i - Len(s)]
      BY <2>0, <2>2, <1>4
    <3>. QED BY <3>1, <3>2, <1>2
  <2>3. i <= Len(s) \/ i > Len(s)
    BY <2>0
  <2>. QED BY <2>1, <2>2, <2>3, Zenon
<1>7. Distinct(s \o t)
  <2> SUFFICES ASSUME NEW i \in 1 .. Len(s) + ell, NEW j \in 1 .. Len(s) + ell,
                      (s \o t)[i] = (s \o t)[j]
               PROVE  i = j
    BY <1>4 DEF Distinct
  <2>1. CASE i \in 1 .. Len(s) /\ j \in 1 .. Len(s)
    <3>1. s[i] = s[j]
      BY <2>1, <1>4, <1>5
    <3>. QED BY <3>1, <2>1 DEF Distinct
  <2>2. CASE ~(i \in 1 .. Len(s) /\ j \in 1 .. Len(s))
    <3> DEFINE u == (s \o t)[i]
               v == (s \o t)[j]
    <3>1. /\ \/ i \in 1 .. Len(s) /\ u \in Nat /\ u < kappa
             \/ i > Len(s) /\ u = kappa + (i - Len(s)) - 1
          /\ \/ j \in 1 .. Len(s) /\ v \in Nat /\ v < kappa
             \/ j > Len(s) /\ v = kappa + (j - Len(s)) - 1
      BY <1>6, Zenon
    <3>2. u = v /\ i \in Nat /\ j \in Nat /\ Len(s) \in Nat
      BY <1>1, <1>5
    <3>. HIDE DEF u, v
    <3>. QED BY <3>1, <3>2, <2>2
  <2>. QED BY <2>1, <2>2
<1>8. Below(s \o t, kappa + ell)
  BY <1>1, <1>4, <1>5, <1>6 DEF Below
<1>. QED BY <1>1, <1>3, <1>4, <1>7, <1>8 DEF t

LEMMA MlDsaInitHolds == MlDsaInit => MlDsaIInv
BY DEF MlDsaInit, MlDsaIInv, InLoop, AtEnd

\* Every step keeps the nonces distinct and below the counter.
LEMMA MlDsaStepHolds == MlDsaIInv /\ [MlDsaNext]_mldsa => MlDsaIInv'
<1> SUFFICES ASSUME MlDsaIInv, [MlDsaNext]_mldsa PROVE MlDsaIInv'
  OBVIOUS
<1>1. CASE MlDsaKeygen
  <2>1. PICK s \in MlDsaSecrets :
          LET pair == KeyPair(s)
              key == SkDecode(pair.sk)
          IN  mldsa' = [stage |-> "loop", a_hat |-> key.a_hat, s1 |-> key.s1, s2 |-> key.s2, t0 |-> key.t0,
                        pk |-> pair.pk, kappa |-> 0, nonces |-> <<>>]
    BY <1>1 DEF MlDsaKeygen
  <2>2. /\ mldsa'.stage = "loop" /\ mldsa'.kappa = 0 /\ mldsa'.nonces = <<>>
        /\ LoopShape'
    BY <2>1 DEF LoopShape
  <2>3. <<>> \in Seq(Nat) /\ Below(<<>>, 0) /\ Distinct(<<>>)
    BY DEF Below, Distinct
  <2>. QED BY <2>2, <2>3 DEF MlDsaIInv, InLoop, AtEnd
<1>2. CASE MlDsaReject
  <2>1. mldsa.stage = "loop" /\ InLoop
    BY <1>2 DEF MlDsaReject, MlDsaIInv
  <2>2. mldsa' = [mldsa EXCEPT !.kappa = NextKappa(@),
                               !.nonces = @ \o MaskNonces(mldsa.kappa)]
    BY <1>2 DEF MlDsaReject
  <2>3. /\ mldsa'.stage = "loop" /\ LoopShape'
        /\ mldsa'.kappa = NextKappa(mldsa.kappa)
        /\ mldsa'.nonces = mldsa.nonces \o MaskNonces(mldsa.kappa)
    BY <2>1, <2>2 DEF InLoop, LoopShape
  <2>. QED BY <2>1, <2>3, AttemptIsFresh DEF MlDsaIInv, InLoop, AtEnd
<1>3. CASE MlDsaReturn
  <2>1. mldsa.stage = "loop" /\ InLoop
    BY <1>3 DEF MlDsaReturn, MlDsaIInv
  <2>2. mldsa'.stage = "done" /\ mldsa'.nonces = mldsa.nonces \o MaskNonces(mldsa.kappa)
    <3>1. PICK y \in MlDsaMasks, c \in MlDsaBalls :
            LET w == Times(mldsa.a_hat, y)
            IN  mldsa' = [stage |-> "done", pk |-> mldsa.pk,
                          nonces |-> mldsa.nonces \o MaskNonces(mldsa.kappa),
                          sig |-> SigEncode(W1Encode(Each(HighBits, w)), Response(y, c), Hints(w, c)),
                          ball |-> c]
      BY <1>3, Zenon DEF MlDsaReturn
    <3>. QED BY <3>1
  <2>. QED BY <2>1, <2>2, AttemptIsFresh DEF MlDsaIInv, InLoop, AtEnd
<1>4. CASE MlDsaDecode
  <2>1. mldsa'.stage = "decoded"
    BY <1>4 DEF MlDsaDecode
  <2>. QED BY <2>1 DEF MlDsaIInv, InLoop, AtEnd
<1>5. CASE UNCHANGED mldsa
  BY <1>5 DEF MlDsaIInv, InLoop, AtEnd, LoopShape
<1>. QED BY <1>1, <1>2, <1>3, <1>4, <1>5 DEF MlDsaNext

\* However many attempts are rejected, no mask is drawn from a nonce that was used before,
\* in whole or in part: the counter advances by all the polynomials of a mask (mldsa.py:541).
THEOREM MasksFreshCorrect == MlDsaSpec => []MasksFresh
<1>1. MlDsaIInv => MasksFresh
  BY DEF MlDsaIInv, InLoop, AtEnd, MasksFresh, Distinct
<1>. QED BY MlDsaInitHolds, MlDsaStepHolds, <1>1, PTL DEF MlDsaSpec
-----------------------------------------------------------------------------
(* ECDSA.                                                                    *)

\* What a term of HMAC is written with.
Symbol ==
  [start : {"0", "1"}]
  \cup [sep : {"none", "0", "1"}, seed : {NoSeed} \cup {Seed(a) : a \in EcdsaCalls}]
Term == Seq(Symbol)

\* A sequence with one more element.
LEMMA ExtendedProperties ==
  ASSUME NEW S, NEW s \in Seq(S), NEW x \in S
  PROVE  /\ s \o <<x>> \in Seq(S) /\ Len(s) \in Nat /\ Len(s \o <<x>>) = Len(s) + 1
         /\ (s \o <<x>>)[Len(s) + 1] = x
<1>1. <<x>> \in Seq(S) /\ Len(<<x>>) = 1 /\ <<x>>[1] = x /\ Len(s) \in Nat
  BY LenProperties
<1>2. /\ s \o <<x>> \in Seq(S) /\ Len(s \o <<x>>) = Len(s) + Len(<<x>>)
      /\ \A i \in 1 .. Len(s) + Len(<<x>>) :
           (s \o <<x>>)[i] = IF i <= Len(s) THEN s[i] ELSE <<x>>[i - Len(s)]
  BY <1>1, ConcatProperties
<1>3. /\ Len(s) + 1 \in 1 .. Len(s) + Len(<<x>>) /\ ~(Len(s) + 1 <= Len(s))
      /\ (Len(s) + 1) - Len(s) = 1
  BY <1>1
<1> QED BY <1>1, <1>2, <1>3

\* A term is longer than those inside it, and ends with what has been hashed last.
LEMMA HmacProperties ==
  ASSUME NEW k \in Term, NEW v \in Term, NEW sep \in {"none", "0", "1"},
         NEW seed \in {NoSeed} \cup {Seed(a) : a \in EcdsaCalls}
  PROVE  /\ Hmac(k, v, sep, seed) \in Term
         /\ Len(k) < Len(Hmac(k, v, sep, seed)) /\ Len(v) < Len(Hmac(k, v, sep, seed))
         /\ Hmac(k, v, sep, seed)[Len(Hmac(k, v, sep, seed))] = [sep |-> sep, seed |-> seed]
<1>1. PICK x \in Symbol : x = [sep |-> sep, seed |-> seed]
  BY DEF Symbol
<1>2. PICK kv \in Seq(Symbol) : /\ kv = k \o v /\ Len(kv) = Len(k) + Len(v)
                                /\ Len(k) \in Nat /\ Len(v) \in Nat
  BY ConcatProperties, LenProperties DEF Term
<1>3. PICK t : t = kv \o <<x>>
  OBVIOUS
<1>4. t \in Seq(Symbol) /\ Len(t) = Len(kv) + 1 /\ t[Len(kv) + 1] = x
  BY <1>3, ExtendedProperties
<1>5. Hmac(k, v, sep, seed) = t
  BY <1>1, <1>2, <1>3 DEF Hmac
<1>6. t[Len(t)] = x
  BY <1>4, Zenon
<1>7. Len(k) < Len(t) /\ Len(v) < Len(t)
  <2>1. \A a, b \in Nat : a < (a + b) + 1 /\ b < (a + b) + 1
    OBVIOUS
  <2>2. Len(t) = (Len(k) + Len(v)) + 1 /\ Len(k) \in Nat /\ Len(v) \in Nat
    BY <1>2, <1>4, Zenon
  <2> QED BY <2>1, <2>2, Zenon
<1> QED BY <1>1, <1>4, <1>5, <1>6, <1>7 DEF Term

\* A generator has terms for K and V.
GenOK(g) == g = [k |-> g.k, v |-> g.v] /\ g.k \in Term /\ g.v \in Term

LEMMA RekeyProperties ==
  ASSUME NEW g, GenOK(g), NEW sep \in {"none", "0", "1"},
         NEW seed \in {NoSeed} \cup {Seed(a) : a \in EcdsaCalls}
  PROVE  /\ GenOK(Rekey(g, sep, seed)) /\ Len(g.v) < Len(Rekey(g, sep, seed).v)
         /\ Rekey(g, sep, seed).k[Len(Rekey(g, sep, seed).k)] = [sep |-> sep, seed |-> seed]
<1>1. g.k \in Term /\ g.v \in Term
  BY DEF GenOK
<1>2. PICK h \in Term : h = Hmac(g.k, g.v, sep, seed) /\ h[Len(h)] = [sep |-> sep, seed |-> seed]
  <2>1. \A k, v \in Term :
          Hmac(k, v, sep, seed) \in Term
          /\ Hmac(k, v, sep, seed)[Len(Hmac(k, v, sep, seed))] = [sep |-> sep, seed |-> seed]
    BY HmacProperties
  <2> QED BY <1>1, <2>1, Zenon
<1>3. PICK w \in Term : w = Hmac(h, g.v, "none", NoSeed) /\ Len(g.v) < Len(w)
  BY <1>1, HmacProperties
<1>4. Rekey(g, sep, seed) = [k |-> h, v |-> w]
  BY <1>2, <1>3 DEF Rekey, NextV
<1>5. PICK r : r = [k |-> h, v |-> w] /\ r.k = h /\ r.v = w
  <2>1. [k |-> h, v |-> w].k = h /\ [k |-> h, v |-> w].v = w
    OBVIOUS
  <2> QED BY <2>1, Zenon
<1>6. GenOK(r)
  BY <1>5 DEF GenOK
<1> QED BY <1>2, <1>3, <1>4, <1>5, <1>6

\* The first octets of a call determine its key and its reduced digest.
LEMMA GeneratorProperties ==
  ASSUME NEW a \in EcdsaCalls
  PROVE  GenOK(Generator(a)) /\ Generator(a).k[Len(Generator(a).k)] = [sep |-> "1", seed |-> Seed(a)]
<1> DEFINE g == [k |-> <<[start |-> "0"]>>, v |-> <<[start |-> "1"]>>]
<1>1. GenOK(g)
  <2>1. [start |-> "0"] \in Symbol /\ [start |-> "1"] \in Symbol
    BY DEF Symbol
  <2> QED BY <2>1 DEF GenOK, Term
<1>2. Generator(a) = Rekey(Rekey(g, "0", Seed(a)), "1", Seed(a))
  BY DEF Generator
<1>3. Seed(a) \in {NoSeed} \cup {Seed(b) : b \in EcdsaCalls}
  OBVIOUS
<1>. HIDE DEF g
<1>4. PICK f : f = Rekey(g, "0", Seed(a)) /\ GenOK(f)
  BY <1>1, <1>3, RekeyProperties
<1>5. GenOK(Rekey(f, "1", Seed(a)))
      /\ Rekey(f, "1", Seed(a)).k[Len(Rekey(f, "1", Seed(a)).k)] = [sep |-> "1", seed |-> Seed(a)]
  BY <1>3, <1>4, RekeyProperties
<1> QED BY <1>2, <1>4, <1>5

\* Two calls on a curve with equal generators have the same key and the same equation.
LEMMA SameGenerator ==
  ASSUME NEW a \in EcdsaCalls, NEW b \in EcdsaCalls,
         a.curve = b.curve, Generator(a) = Generator(b)
  PROVE  a.d = b.d /\ (Digest(a) - Digest(b)) % a.curve.n = 0
<1>1. Seed(a) = Seed(b)
  <2>1. [sep |-> "1", seed |-> Seed(a)] = [sep |-> "1", seed |-> Seed(b)]
    BY GeneratorProperties
  <2> QED BY <2>1
<1> DEFINE x == Digest(a)
           y == Digest(b)
           n == a.curve.n
           h == IF x < n THEN x ELSE x - n
           k == IF y < n THEN y ELSE y - n
<1>2. x \in Nat /\ y \in Nat /\ n \in Nat \ {0}
  BY DigestAssumption
<1>3. Seed(a) = [d |-> a.d, h |-> h] /\ Seed(b) = [d |-> b.d, h |-> k]
  BY DEF Seed
<1>. HIDE DEF x, y, n
<1>4. a.d = b.d /\ h = k
  <2>1. [d |-> a.d, h |-> h] = [d |-> b.d, h |-> k]
    BY <1>1, <1>3
  <2>. HIDE DEF h, k
  <2>2. \A p, q, r, t : [d |-> p, h |-> q] = [d |-> r, h |-> t] => p = r /\ q = t
    OBVIOUS
  <2> QED BY <2>1, <2>2, Zenon
<1>5. x - y = 0 \/ x - y = n \/ x - y = -n
  BY <1>2, <1>4
<1>6. 0 % n = 0 /\ n % n = 0 /\ (-n) % n = 0
  BY <1>2
<1>7. (x - y) % n = 0
  BY <1>5, <1>6
<1> QED BY <1>4, <1>7 DEF x, y, n

\* The terms of one candidate, the first of which was the next V then.
Drawn == Seq(Term) \ {<<>>}

\* The candidates before, ever longer and none longer than V.
Longer(drawn, v) ==
  /\ \A i \in 1 .. Len(drawn) : Len(drawn[i][1]) <= Len(v)
  /\ \A i, j \in 1 .. Len(drawn) : i < j => Len(drawn[i][1]) < Len(drawn[j][1])

\* A candidate that has been begun is longer than those before it.
Begun(t, drawn, v) ==
  t # <<>> => /\ Len(t[1]) <= Len(v)
              /\ \A i \in 1 .. Len(drawn) : Len(drawn[i][1]) < Len(t[1])

EcdsaShape ==
  ecdsa = [stage |-> ecdsa.stage, call |-> ecdsa.call, gen |-> ecdsa.gen, t |-> ecdsa.t,
           drawn |-> ecdsa.drawn]

InCall ==
  ecdsa.stage \in {"draw", "candidate"} =>
    /\ EcdsaShape /\ ecdsa.call \in EcdsaCalls /\ GenOK(ecdsa.gen)
    /\ ecdsa.t \in Seq(Term) /\ ecdsa.drawn \in Seq(Drawn)
    /\ ecdsa.stage = "candidate" => ecdsa.t # <<>>
    /\ Longer(ecdsa.drawn, ecdsa.gen.v) /\ Begun(ecdsa.t, ecdsa.drawn, ecdsa.gen.v)
AfterCall ==
  ecdsa.stage = "done" => ecdsa.call \in EcdsaCalls /\ Distinct(ecdsa.drawn)
EcdsaIInv == InCall /\ AfterCall

LEMMA TermLength ==
  ASSUME NEW v \in Term
  PROVE  Len(v) \in Nat
BY LenProperties DEF Term

LEMMA DrawnLength ==
  ASSUME NEW drawn \in Seq(Drawn)
  PROVE  /\ Len(drawn) \in Nat
         /\ \A i \in 1 .. Len(drawn) : Len(drawn[i][1]) \in Nat
<1>1. ASSUME NEW i \in 1 .. Len(drawn) PROVE Len(drawn[i][1]) \in Nat
  <2>1. drawn[i] \in Seq(Term) /\ drawn[i] # <<>>
    BY ElementOfSeq DEF Drawn
  <2>2. Len(drawn[i]) \in Nat \ {0}
    BY <2>1, EmptySeq, LenProperties
  <2>3. drawn[i][1] \in Term
    BY <2>1, <2>2, ElementOfSeq
  <2> QED BY <2>3, TermLength
<1> QED BY <1>1, LenProperties

\* Ever longer candidates are distinct.
LEMMA LongerDistinct ==
  ASSUME NEW drawn \in Seq(Drawn), NEW v \in Term, Longer(drawn, v)
  PROVE  Distinct(drawn)
<1> SUFFICES ASSUME NEW i \in 1 .. Len(drawn), NEW j \in 1 .. Len(drawn), drawn[i] = drawn[j]
             PROVE  i = j
  BY DEF Distinct
<1>1. Len(drawn[i][1]) \in Nat /\ Len(drawn[i][1]) = Len(drawn[j][1])
  BY DrawnLength
<1>2. ~(i < j) /\ ~(j < i)
  BY <1>1 DEF Longer
<1> QED BY <1>2

\* The candidate that is drawn joins those before it.
LEMMA CandidateJoins ==
  ASSUME NEW drawn \in Seq(Drawn), NEW t \in Drawn, NEW v \in Term,
         Longer(drawn, v), Begun(t, drawn, v)
  PROVE  Append(drawn, t) \in Seq(Drawn) /\ Longer(Append(drawn, t), v)
<1> DEFINE s == Append(drawn, t)
<1>1. /\ s \in Seq(Drawn) /\ Len(s) = Len(drawn) + 1 /\ s[Len(drawn) + 1] = t
      /\ \A i \in 1 .. Len(drawn) : s[i] = drawn[i]
  BY AppendProperties
<1>2. Len(drawn) \in Nat
  BY LenProperties
<1>3. Len(t[1]) <= Len(v) /\ \A i \in 1 .. Len(drawn) : Len(drawn[i][1]) < Len(t[1])
  BY DEF Begun, Drawn
<1>. HIDE DEF s
<1>4. \A i \in 1 .. Len(s) : i \in 1 .. Len(drawn) \/ i = Len(drawn) + 1
  BY <1>1, <1>2
<1>5. \A i \in 1 .. Len(s) : Len(s[i][1]) <= Len(v)
  BY <1>1, <1>3, <1>4 DEF Longer
<1>6. ASSUME NEW i \in 1 .. Len(s), NEW j \in 1 .. Len(s), i < j
      PROVE  Len(s[i][1]) < Len(s[j][1])
  <2>1. i \in 1 .. Len(drawn)
    BY <1>1, <1>2, <1>6
  <2> QED BY <1>1, <1>3, <1>4, <1>6, <2>1 DEF Longer
<1> QED BY <1>1, <1>5, <1>6 DEF Longer, s

\* What is below V stays below a longer one.
LEMMA LongerMonotone ==
  ASSUME NEW drawn \in Seq(Drawn), NEW v \in Term, NEW w \in Term, Longer(drawn, v),
         Len(v) <= Len(w)
  PROVE  Longer(drawn, w)
<1>1. Len(v) \in Nat /\ Len(w) \in Nat
  BY TermLength
<1> QED BY <1>1, DrawnLength DEF Longer

LEMMA EcdsaInitHolds == EcdsaInit => EcdsaIInv
BY DEF EcdsaInit, EcdsaIInv, InCall, AfterCall

LEMMA EcdsaSignHolds == EcdsaSign => EcdsaIInv'
<1> SUFFICES ASSUME EcdsaSign PROVE EcdsaIInv'
  OBVIOUS
<1>1. PICK a \in EcdsaCalls :
        ecdsa' = [stage |-> "draw", call |-> a, gen |-> Generator(a), t |-> <<>>, drawn |-> <<>>]
  BY DEF EcdsaSign
<1>2. GenOK(Generator(a))
  BY GeneratorProperties
<1>. HIDE DEF GenOK
<1>3. /\ ecdsa'.stage = "draw" /\ ecdsa'.call = a /\ ecdsa'.gen = Generator(a)
      /\ ecdsa'.t = <<>> /\ ecdsa'.drawn = <<>> /\ EcdsaShape'
  BY <1>1 DEF EcdsaShape
<1>4. <<>> \in Seq(Term) /\ <<>> \in Seq(Drawn) /\ Len(<<>>) = 0
  OBVIOUS
<1>5. Longer(<<>>, Generator(a).v) /\ Begun(<<>>, <<>>, Generator(a).v)
  BY <1>4 DEF Longer, Begun
<1> QED BY <1>2, <1>3, <1>4, <1>5 DEF EcdsaIInv, InCall, AfterCall

LEMMA EcdsaDrawHolds == EcdsaIInv /\ EcdsaDraw => EcdsaIInv'
<1> SUFFICES ASSUME EcdsaIInv, EcdsaDraw PROVE EcdsaIInv'
  OBVIOUS
<1> DEFINE g == ecdsa.gen
           v == NextV(g.k, g.v)
           t == ecdsa.t
           u == Append(t, v)
           drawn == ecdsa.drawn
<1>1. /\ ecdsa.stage = "draw" /\ EcdsaShape /\ ecdsa.call \in EcdsaCalls
      /\ g = [k |-> g.k, v |-> g.v] /\ g.k \in Term /\ g.v \in Term
      /\ t \in Seq(Term) /\ drawn \in Seq(Drawn) /\ Longer(drawn, g.v) /\ Begun(t, drawn, g.v)
  BY DEF EcdsaDraw, EcdsaIInv, InCall, GenOK
<1>2. /\ ecdsa' = [ecdsa EXCEPT
                     !.gen.v = v, !.t = u,
                     !.stage = IF Len(u) * ecdsa.call.hlen < QLen(ecdsa.call.curve)
                               THEN "draw" ELSE "candidate"]
  BY DEF EcdsaDraw
<1>3. v \in Term /\ Len(g.v) < Len(v)
  <2>1. \A x, y \in Term : NextV(x, y) \in Term /\ Len(y) < Len(NextV(x, y))
    BY HmacProperties DEF NextV
  <2> QED BY <1>1, <2>1, Zenon
<1>4. /\ ecdsa'.stage \in {"draw", "candidate"} /\ EcdsaShape' /\ ecdsa'.call = ecdsa.call
      /\ ecdsa'.gen = [k |-> g.k, v |-> v] /\ ecdsa'.t = u /\ ecdsa'.drawn = drawn
  <2>. HIDE DEF v, u
  <2>1. ecdsa'.gen = [g EXCEPT !.v = v] /\ EcdsaShape'
    BY <1>1, <1>2 DEF EcdsaShape
  <2>2. ecdsa'.stage \in {"draw", "candidate"} /\ ecdsa'.call = ecdsa.call
        /\ ecdsa'.t = u /\ ecdsa'.drawn = drawn
    BY <1>1, <1>2 DEF EcdsaShape
  <2> QED BY <1>1, <2>1, <2>2
<1>. HIDE DEF v
<1>5. /\ u \in Seq(Term) /\ u # <<>> /\ Len(t) \in Nat
      /\ u[1] = IF t = <<>> THEN v ELSE t[1]
  <2>1. /\ u \in Seq(Term) /\ Len(u) = Len(t) + 1 /\ u[Len(t) + 1] = v
        /\ \A i \in 1 .. Len(t) : u[i] = t[i]
    BY <1>1, <1>3, AppendProperties
  <2>2. Len(t) \in Nat /\ (t = <<>> <=> Len(t) = 0)
    BY <1>1, EmptySeq, LenProperties
  <2>. HIDE DEF u, t
  <2>3. u # <<>>
    <3>1. Len(u) # 0
      BY <2>1, <2>2
    <3> QED BY <3>1, EmptySeq
  <2>4. CASE t = <<>>
    BY <2>1, <2>2, <2>4
  <2>5. CASE t # <<>>
    BY <2>1, <2>2, <2>5
  <2> QED BY <2>1, <2>2, <2>3, <2>4, <2>5
<1>6. Len(g.v) \in Nat /\ Len(v) \in Nat
  BY <1>1, <1>3, TermLength
<1>7. Longer(drawn, v)
  BY <1>1, <1>3, <1>6, LongerMonotone
<1>8. Begun(u, drawn, v)
  <2>1. Len(drawn) \in Nat /\ \A i \in 1 .. Len(drawn) : Len(drawn[i][1]) \in Nat
    BY <1>1, DrawnLength
  <2>2. \A i \in 1 .. Len(drawn) : Len(drawn[i][1]) <= Len(g.v)
    BY <1>1 DEF Longer
  <2>. HIDE DEF u, drawn, t
  <2>3. CASE t = <<>>
    <3>1. u[1] = v
      BY <1>5, <2>3
    <3>2. \A i \in 1 .. Len(drawn) : Len(drawn[i][1]) < Len(v)
      BY <1>3, <1>6, <2>1, <2>2
    <3> QED BY <1>6, <3>1, <3>2 DEF Begun
  <2>4. CASE t # <<>>
    <3>1. u[1] = t[1]
      BY <1>5, <2>4
    <3>2. Len(t[1]) <= Len(g.v) /\ \A i \in 1 .. Len(drawn) : Len(drawn[i][1]) < Len(t[1])
      BY <1>1, <2>4 DEF Begun
    <3>3. Len(t[1]) <= Len(v)
      <4>1. t[1] \in Term
        <5>1. Len(t) \in Nat \ {0}
          BY <1>1, <2>4, EmptySeq, LenProperties
        <5> QED BY <1>1, <5>1, ElementOfSeq
      <4>2. Len(t[1]) \in Nat
        BY <4>1, TermLength
      <4> QED BY <1>3, <1>6, <3>2, <4>2
    <3> QED BY <3>1, <3>2, <3>3 DEF Begun
  <2> QED BY <2>3, <2>4
<1>9. GenOK(ecdsa'.gen) /\ ecdsa'.gen.v = v
  BY <1>1, <1>3, <1>4 DEF GenOK
<1> QED BY <1>1, <1>4, <1>5, <1>7, <1>8, <1>9 DEF EcdsaIInv, InCall, AfterCall

LEMMA EcdsaReturnHolds == EcdsaIInv /\ EcdsaReturn => EcdsaIInv'
<1> SUFFICES ASSUME EcdsaIInv, EcdsaReturn PROVE EcdsaIInv'
  OBVIOUS
<1>1. /\ ecdsa.call \in EcdsaCalls /\ ecdsa.gen.v \in Term
      /\ ecdsa.t \in Drawn /\ ecdsa.drawn \in Seq(Drawn)
      /\ Longer(ecdsa.drawn, ecdsa.gen.v) /\ Begun(ecdsa.t, ecdsa.drawn, ecdsa.gen.v)
  BY DEF EcdsaReturn, EcdsaIInv, InCall, GenOK, Drawn
<1>2. PICK k \in 1 .. ecdsa.call.curve.n - 1 :
        ecdsa' = [stage |-> "done", call |-> ecdsa.call, drawn |-> Append(ecdsa.drawn, ecdsa.t),
                  r |-> RValue(ecdsa.call, k), s |-> LowS(ecdsa.call.curve, SValue(ecdsa.call, k))]
  BY DEF EcdsaReturn
<1>3. ecdsa'.stage = "done" /\ ecdsa'.call = ecdsa.call
      /\ ecdsa'.drawn = Append(ecdsa.drawn, ecdsa.t)
  BY <1>2
<1>4. Distinct(Append(ecdsa.drawn, ecdsa.t))
  BY <1>1, CandidateJoins, LongerDistinct
<1> QED BY <1>1, <1>3, <1>4 DEF EcdsaIInv, InCall, AfterCall

LEMMA EcdsaRetryHolds == EcdsaIInv /\ EcdsaRetry => EcdsaIInv'
<1> SUFFICES ASSUME EcdsaIInv, EcdsaRetry PROVE EcdsaIInv'
  OBVIOUS
<1> DEFINE g == ecdsa.gen
           h == RetryGen(g)
           d == Append(ecdsa.drawn, ecdsa.t)
<1>1. /\ EcdsaShape /\ ecdsa.call \in EcdsaCalls /\ GenOK(g) /\ g.v \in Term
      /\ ecdsa.t \in Drawn /\ ecdsa.drawn \in Seq(Drawn)
      /\ Longer(ecdsa.drawn, g.v) /\ Begun(ecdsa.t, ecdsa.drawn, g.v)
  BY DEF EcdsaRetry, EcdsaIInv, InCall, GenOK, Drawn
<1>2. ecdsa' = [ecdsa EXCEPT !.stage = "draw", !.gen = h, !.t = <<>>, !.drawn = d]
  BY DEF EcdsaRetry
<1>3. GenOK(h) /\ Len(g.v) < Len(h.v)
  BY <1>1, RekeyProperties DEF RetryGen
<1>4. d \in Seq(Drawn) /\ Longer(d, g.v)
  BY <1>1, CandidateJoins
<1>. HIDE DEF h, d
<1>5. /\ ecdsa'.stage = "draw" /\ EcdsaShape' /\ ecdsa'.call = ecdsa.call
      /\ ecdsa'.gen = h /\ ecdsa'.t = <<>> /\ ecdsa'.drawn = d
  BY <1>1, <1>2 DEF EcdsaShape
<1>6. Longer(d, h.v)
  <2>1. h.v \in Term
    BY <1>3 DEF GenOK
  <2>2. Len(g.v) \in Nat /\ Len(h.v) \in Nat
    BY <1>1, <2>1, TermLength
  <2>3. Len(g.v) <= Len(h.v)
    BY <1>3, <2>2
  <2> QED BY <1>1, <1>4, <2>1, <2>3, LongerMonotone
<1>7. <<>> \in Seq(Term) /\ Begun(<<>>, d, h.v)
  BY DEF Begun
<1>. HIDE DEF GenOK
<1> QED BY <1>1, <1>3, <1>4, <1>5, <1>6, <1>7 DEF EcdsaIInv, InCall, AfterCall

LEMMA EcdsaStepHolds == EcdsaIInv /\ [EcdsaNext]_ecdsa => EcdsaIInv'
<1> SUFFICES ASSUME EcdsaIInv, [EcdsaNext]_ecdsa PROVE EcdsaIInv'
  OBVIOUS
<1>1. CASE UNCHANGED ecdsa
  BY <1>1 DEF EcdsaIInv, InCall, AfterCall, EcdsaShape
<1> QED BY <1>1, EcdsaSignHolds, EcdsaDrawHolds, EcdsaReturnHolds, EcdsaRetryHolds DEF EcdsaNext

\* No octets of the generator are used for two candidates, however many are rejected, and the first
\* ones determine the key and the signature equation (ec.py:376, 391-392).
THEOREM NonceFreshCorrect == EcdsaSpec => []NonceFresh
<1>1. EcdsaIInv => NonceFresh
  <2> SUFFICES ASSUME EcdsaIInv, ecdsa.stage \in {"draw", "candidate", "done"}
               PROVE  /\ ecdsa.call \in EcdsaCalls /\ Distinct(ecdsa.drawn)
    BY SameGenerator DEF NonceFresh, Distinct
  <2>1. CASE ecdsa.stage = "done"
    BY <2>1 DEF EcdsaIInv, AfterCall
  <2>2. CASE ecdsa.stage # "done"
    BY <2>2, LongerDistinct DEF EcdsaIInv, InCall, GenOK
  <2> QED BY <2>1, <2>2
<1> QED BY EcdsaInitHolds, EcdsaStepHolds, <1>1, PTL DEF EcdsaSpec

-----------------------------------------------------------------------------
(* Recursion over natural numbers.                                           *)

\* A set of natural numbers has a least one.
LEMMA Least ==
  ASSUME NEW S, S \subseteq Nat, S # {}
  PROVE  \E k \in S : \A j \in S : k <= j
<1>1. IsWellFoundedOn(OpToRel(<, Nat), Nat)
  BY NatLessThanWellFounded
<1>2. PICK k \in S : \A j \in S : ~(<<j, k>> \in OpToRel(<, Nat))
  BY <1>1, WFMin
<1>3. \A j \in S : ~(j < k)
  BY <1>2 DEF OpToRel
<1> QED BY <1>3

\* What holds of a number when it holds of all smaller ones holds of all.
LEMMA SmallerFirst ==
  ASSUME NEW T, \A n \in Nat : (\A k \in 0 .. n - 1 : k \in T) => n \in T
  PROVE  \A n \in Nat : n \in T
<1> SUFFICES ASSUME Nat \ T # {} PROVE FALSE
  OBVIOUS
<1>1. PICK m \in Nat \ T : \A j \in Nat \ T : m <= j
  BY Least
<1>2. \A k \in 0 .. m - 1 : k \in T
  BY <1>1
<1> QED BY <1>1, <1>2

\* What holds of 0 and of each successor holds of all.
LEMMA CountUp ==
  ASSUME NEW T, 0 \in T, \A n \in Nat : n \in T => n + 1 \in T
  PROVE  \A n \in Nat : n \in T
<1>1. ASSUME NEW n \in Nat, \A k \in 0 .. n - 1 : k \in T PROVE n \in T
  <2>1. CASE n = 0
    BY <2>1
  <2>2. CASE n # 0
    <3>1. n - 1 \in Nat /\ n - 1 \in 0 .. n - 1 /\ (n - 1) + 1 = n
      BY <2>2
    <3>2. n - 1 \in T
      BY <1>1, <3>1
    <3> QED BY <3>1, <3>2
  <2> QED BY <2>1, <2>2
<1> QED BY <1>1, SmallerFirst

\* D is an initial part of the natural numbers, and Rule[f, n] depends on f below n only.
Recurs(D, U, Rule) ==
  /\ D \subseteq Nat /\ \A n \in D : \A k \in 0 .. n : k \in D
  /\ Rule \in [[D -> U] \X D -> U]
  /\ \A f, g \in [D -> U] : \A n \in D :
       (\A k \in 0 .. n - 1 : f[k] = g[k]) => Rule[f, n] = Rule[g, n]

\* f follows the recursion up to n.
Follows(D, U, Rule, f, n) == f \in [D -> U] /\ \A k \in 0 .. n : k \in D => f[k] = Rule[f, k]

\* Functions that follow the recursion agree.
LEMMA FollowersAgree ==
  ASSUME NEW D, NEW U, NEW Rule, Recurs(D, U, Rule), NEW n \in D, NEW f, NEW g,
         Follows(D, U, Rule, f, n), Follows(D, U, Rule, g, n)
  PROVE  \A k \in 0 .. n : f[k] = g[k]
<1> DEFINE T == {k \in Nat : k <= n => f[k] = g[k]}
<1>1. /\ n \in Nat /\ \A k \in 0 .. n : k \in D
  BY DEF Recurs
<1>2. ASSUME NEW m \in Nat, \A k \in 0 .. m - 1 : k \in T PROVE m \in T
  <2>1. ASSUME m <= n PROVE f[m] = g[m]
    <3>1. m \in 0 .. n
      BY <1>1, <1>2, <2>1
    <3>2. m \in D
      BY <1>1, <3>1
    <3>3. \A k \in 0 .. m - 1 : f[k] = g[k]
      <4> TAKE k \in 0 .. m - 1
      <4>1. k \in Nat /\ k <= n
        BY <1>1, <1>2, <2>1
      <4>2. k \in T
        BY <1>2
      <4> QED BY <4>1, <4>2
    <3>4. f \in [D -> U] /\ g \in [D -> U] /\ f[m] = Rule[f, m] /\ g[m] = Rule[g, m]
      BY <3>1, <3>2, Zenon DEF Follows
    <3>5. Rule[f, m] = Rule[g, m]
      BY <3>2, <3>3, <3>4, Zenon DEF Recurs
    <3> QED BY <3>4, <3>5, Zenon
  <2> QED BY <1>2, <2>1
<1>. HIDE DEF T
<1>3. \A m \in Nat : m \in T
  BY <1>2, SmallerFirst
<1> QED BY <1>1, <1>3 DEF T

\* A function that follows it up to n can be continued.
LEMMA FollowOn ==
  ASSUME NEW D, NEW U, NEW Rule, Recurs(D, U, Rule), NEW n \in Nat, NEW f, Follows(D, U, Rule, f, n)
  PROVE  \E g : Follows(D, U, Rule, g, n + 1)
<1>1. CASE n + 1 \in D
  <2> DEFINE g == [k \in D |-> IF k = n + 1 THEN Rule[f, n + 1] ELSE f[k]]
  <2>1. f \in [D -> U]
    BY DEF Follows
  <2>2. Rule[f, n + 1] \in U
    BY <1>1, <2>1 DEF Recurs
  <2>3. g \in [D -> U]
    BY <2>1, <2>2
  <2>4. \A k \in D : k # n + 1 => g[k] = f[k]
    OBVIOUS
  <2>5. g[n + 1] = Rule[f, n + 1]
    BY <1>1
  <2>. HIDE DEF g
  <2>6. ASSUME NEW k \in 0 .. n + 1, k \in D PROVE g[k] = Rule[g, k]
    <3>1. \A i \in 0 .. k - 1 : i \in 0 .. k /\ i # n + 1
      OBVIOUS
    <3>2. \A i \in 0 .. k : i \in D
      BY <2>6 DEF Recurs
    <3>3. \A i \in 0 .. k - 1 : f[i] = g[i]
      BY <2>4, <3>1, <3>2
    <3>4. Rule[f, k] = Rule[g, k]
      BY <2>1, <2>3, <2>6, <3>3, Zenon DEF Recurs
    <3>5. CASE k = n + 1
      BY <2>5, <3>4, <3>5
    <3>6. CASE k # n + 1
      <4>1. k \in 0 .. n
        BY <2>6, <3>6
      <4>2. f[k] = Rule[f, k]
        BY <2>6, <4>1, Zenon DEF Follows
      <4> QED BY <2>4, <2>6, <3>4, <3>6, <4>2, Zenon
    <3> QED BY <3>5, <3>6
  <2> QED BY <2>3, <2>6, Zenon DEF Follows
<1>2. CASE n + 1 \notin D
  <2>1. \A k \in 0 .. n + 1 : k \in D => k \in 0 .. n
    BY <1>2
  <2> QED BY <2>1, Zenon DEF Follows
<1> QED BY <1>1, <1>2

\* A function satisfies the recursion.
HasSolution(D, U, Rule) == \E f \in [D -> U] : \A n \in D : f[n] = Rule[f, n]

\* Such a recursion defines a function.
LEMMA Recursion ==
  ASSUME NEW D, NEW U, NEW Rule, U # {}, Recurs(D, U, Rule)
  PROVE  HasSolution(D, U, Rule)
<1>a. PICK u : u \in U
  OBVIOUS
<1>1. \A n \in D : n \in Nat /\ \A k \in 0 .. n : k \in D
  BY DEF Recurs
<1>2. \A n \in Nat : \E f : Follows(D, U, Rule, f, n)
  <2> DEFINE T == {n \in Nat : \E f : Follows(D, U, Rule, f, n)}
  <2>1. 0 \in T
    <3> DEFINE e == [k \in D |-> u]
               g == [k \in D |-> IF k = 0 THEN Rule[e, 0] ELSE u]
    <3>1. e \in [D -> U]
      BY <1>a
    <3>2. 0 \in D => Rule[e, 0] \in U
      BY <3>1 DEF Recurs
    <3>3. g \in [D -> U]
      BY <1>a, <3>2
    <3>4. 0 \in D => g[0] = Rule[e, 0]
      OBVIOUS
    <3>. HIDE DEF e, g
    <3>5. \A k \in 0 .. 0 - 1 : e[k] = g[k]
      OBVIOUS
    <3>6. 0 \in D => Rule[e, 0] = Rule[g, 0]
      BY <3>1, <3>3, <3>5, Zenon DEF Recurs
    <3>7. \A k \in 0 .. 0 : k = 0
      OBVIOUS
    <3>8. Follows(D, U, Rule, g, 0)
      BY <3>3, <3>4, <3>6, <3>7, Zenon DEF Follows
    <3> QED BY <3>8
  <2>2. ASSUME NEW n \in Nat, n \in T PROVE n + 1 \in T
    <3>1. n + 1 \in Nat
      OBVIOUS
    <3>2. \E f : Follows(D, U, Rule, f, n)
      BY <2>2
    <3>3. \E f : Follows(D, U, Rule, f, n + 1)
      BY <3>2, FollowOn
    <3> QED BY <3>1, <3>3
  <2>. HIDE DEF T
  <2>3. \A n \in Nat : n \in T
    BY <2>1, <2>2, CountUp
  <2> QED BY <2>3 DEF T
<1> DEFINE h(n) == CHOOSE f : Follows(D, U, Rule, f, n)
           F    == [n \in D |-> h(n)[n]]
<1>3. \A n \in D : Follows(D, U, Rule, h(n), n)
  BY <1>1, <1>2, Zenon
<1>. HIDE DEF h
<1>4. \A n \in D : n \in 0 .. n
  BY <1>1
<1>5. \A n \in D : h(n) \in [D -> U] /\ h(n)[n] = Rule[h(n), n]
  BY <1>3, <1>4, Zenon DEF Follows
<1>6. \A n \in D : h(n)[n] \in U
  <2> TAKE n \in D
  <2>1. PICK a : a = h(n)
    OBVIOUS
  <2>2. a \in [D -> U]
    BY <1>5, <2>1
  <2> QED BY <2>1, <2>2
<1>7. F \in [D -> U]
  BY <1>6, Zenon
<1>8. \A n \in D : F[n] = h(n)[n]
  OBVIOUS
<1>. HIDE DEF F
<1>9. ASSUME NEW n \in D PROVE F[n] = Rule[F, n]
  <2>1. \A k \in 0 .. n - 1 : h(n)[k] = F[k]
    <3> TAKE k \in 0 .. n - 1
    <3>1. n \in Nat
      BY <1>1, <1>9
    <3>2. k \in 0 .. n /\ \A i \in 0 .. k : i \in 0 .. n
      BY <3>1
    <3>3. k \in D /\ k \in 0 .. k
      BY <1>1, <1>4, <1>9, <3>2
    <3>4. Follows(D, U, Rule, h(n), k)
      BY <1>3, <1>9, <3>2, Zenon DEF Follows
    <3>5. PICK a, b : a = h(n) /\ b = h(k)
      OBVIOUS
    <3>6. Follows(D, U, Rule, a, k) /\ Follows(D, U, Rule, b, k)
      BY <1>3, <3>3, <3>4, <3>5, Zenon
    <3>7. \A i \in 0 .. k : a[i] = b[i]
      BY <3>3, <3>6, FollowersAgree
    <3> QED BY <1>8, <3>3, <3>5, <3>7, Zenon
  <2>2. Rule[h(n), n] = Rule[F, n]
    BY <1>5, <1>7, <1>9, <2>1, Zenon DEF Recurs
  <2> QED BY <1>5, <1>8, <1>9, <2>2, Zenon
<1> QED BY <1>7, <1>9, Zenon DEF HasSolution

-----------------------------------------------------------------------------
(* Congruence.                                                               *)

Cong(a, b, m) == \E k \in Int : a = b + k * m

LEMMA CongRefl ==
  ASSUME NEW a \in Int, NEW m \in Int
  PROVE  Cong(a, a, m)
<1>1. 0 \in Int /\ a = a + 0 * m
  OBVIOUS
<1> QED BY <1>1 DEF Cong

LEMMA CongSym ==
  ASSUME NEW a \in Int, NEW b \in Int, NEW m \in Int, Cong(a, b, m)
  PROVE  Cong(b, a, m)
<1>1. PICK k \in Int : a = b + k * m
  BY DEF Cong
<1>2. -k \in Int /\ b = a + (-k) * m
  BY <1>1
<1> QED BY <1>2 DEF Cong

LEMMA CongTrans ==
  ASSUME NEW a \in Int, NEW b \in Int, NEW c \in Int, NEW m \in Int, Cong(a, b, m), Cong(b, c, m)
  PROVE  Cong(a, c, m)
<1>1. PICK k \in Int : a = b + k * m
  BY DEF Cong
<1>2. PICK j \in Int : b = c + j * m
  BY DEF Cong
<1>3. j + k \in Int /\ a = c + (j + k) * m
  BY <1>1, <1>2
<1> QED BY <1>3 DEF Cong

LEMMA CongAdd ==
  ASSUME NEW a \in Int, NEW b \in Int, NEW c \in Int, NEW d \in Int, NEW m \in Int,
         Cong(a, b, m), Cong(c, d, m)
  PROVE  Cong(a + c, b + d, m)
<1>1. PICK k \in Int : a = b + k * m
  BY DEF Cong
<1>2. PICK j \in Int : c = d + j * m
  BY DEF Cong
<1>3. j + k \in Int /\ a + c = (b + d) + (j + k) * m
  BY <1>1, <1>2
<1> QED BY <1>3 DEF Cong

LEMMA CongMul ==
  ASSUME NEW a \in Int, NEW b \in Int, NEW c \in Int, NEW d \in Int, NEW m \in Int,
         Cong(a, b, m), Cong(c, d, m)
  PROVE  Cong(a * c, b * d, m)
<1>1. PICK k \in Int : a = b + k * m
  BY DEF Cong
<1>2. PICK j \in Int : c = d + j * m
  BY DEF Cong
<1> DEFINE i == b * j + k * d + k * (j * m)
<1>3. i \in Int
  OBVIOUS
<1>4. a * c = (b + k * m) * (d + j * m)
  BY <1>1, <1>2
<1>5. (b + k * m) * (d + j * m) = b * d + i * m
  OBVIOUS
<1>6. a * c = b * d + i * m
  BY <1>4, <1>5
<1>. HIDE DEF i
<1> QED BY <1>3, <1>6 DEF Cong

LEMMA ModRange ==
  ASSUME NEW a \in Int, NEW m \in Nat \ {0}
  PROVE  a % m \in 0 .. m - 1 /\ a % m \in Int
OBVIOUS

LEMMA CongMod ==
  ASSUME NEW a \in Int, NEW m \in Nat \ {0}
  PROVE  Cong(a % m, a, m)
<1>1. a \div m \in Int /\ a = m * (a \div m) + (a % m)
  OBVIOUS
<1>2. PICK j : j = a \div m
  OBVIOUS
<1>3. PICK r : r = a % m
  OBVIOUS
<1>4. j \in Int /\ r \in Int /\ a = m * j + r
  BY <1>1, <1>2, <1>3
<1>5. -j \in Int /\ r = a + (-j) * m
  BY <1>4
<1> QED BY <1>3, <1>5 DEF Cong

\* Division has one remainder.
LEMMA OneRemainder ==
  \A a \in Int, m \in Nat \ {0} : \A r \in 0 .. m - 1, k \in Int : a = m * k + r => a % m = r
OBVIOUS

LEMMA CongSmall ==
  ASSUME NEW m \in Nat \ {0}, NEW a \in 0 .. m - 1, NEW b \in 0 .. m - 1, Cong(a, b, m)
  PROVE  a = b
<1>1. PICK k \in Int : a = b + k * m
  BY DEF Cong
<1>2. a \in Int /\ b \in Int /\ 0 \in Int /\ a = m * 0 + a /\ a = m * k + b
  BY <1>1
<1>3. a % m = a /\ a % m = b
  BY <1>2, OneRemainder, Zenon
<1> QED BY <1>3

LEMMA CongSameMod ==
  ASSUME NEW m \in Nat \ {0}, NEW a \in Int, NEW b \in Int
  PROVE  Cong(a, b, m) <=> a % m = b % m
<1>1. a % m \in 0 .. m - 1 /\ b % m \in 0 .. m - 1 /\ a % m \in Int /\ b % m \in Int
  BY ModRange
<1>2. PICK r, s : r = a % m /\ s = b % m
  OBVIOUS
<1>3. r \in 0 .. m - 1 /\ s \in 0 .. m - 1 /\ r \in Int /\ s \in Int /\ m \in Int
  BY <1>1, <1>2
<1>4. Cong(r, a, m) /\ Cong(s, b, m)
  BY <1>2, CongMod
<1>5. Cong(a, r, m) /\ Cong(b, s, m)
  BY <1>3, <1>4, CongSym
<1>6. ASSUME Cong(a, b, m) PROVE r = s
  <2>1. Cong(r, b, m)
    BY <1>3, <1>4, <1>6, CongTrans
  <2>2. Cong(r, s, m)
    BY <1>3, <1>5, <2>1, CongTrans
  <2> QED BY <1>3, <2>2, CongSmall
<1>7. ASSUME r = s PROVE Cong(a, b, m)
  BY <1>3, <1>4, <1>5, <1>7, CongTrans
<1> QED BY <1>2, <1>6, <1>7

\* A divisor of the modulus keeps a congruence.
LEMMA CongFactor ==
  ASSUME NEW a \in Int, NEW b \in Int, NEW p \in Int, NEW q \in Int, Cong(a, b, p * q)
  PROVE  Cong(a, b, p) /\ Cong(a, b, q)
<1>1. PICK k \in Int : a = b + k * (p * q)
  BY DEF Cong
<1>2. /\ k * q \in Int /\ a = b + (k * q) * p
      /\ k * p \in Int /\ a = b + (k * p) * q
  BY <1>1
<1> QED BY <1>2 DEF Cong

\* The Chinese remainder theorem, for factors one of which has an inverse modulo the other.
LEMMA CongBoth ==
  ASSUME NEW a \in Int, NEW b \in Int, NEW p \in Int, NEW q \in Int, NEW u \in Int,
         Cong(u * q, 1, p), Cong(a, b, p), Cong(a, b, q)
  PROVE  Cong(a, b, p * q)
<1>1. PICK t \in Int : u * q = 1 + t * p
  BY DEF Cong
<1>2. PICK k \in Int : a = b + k * p
  BY DEF Cong
<1>3. PICK j \in Int : a = b + j * q
  BY DEF Cong
<1> DEFINE i == k * u - t * j
<1>4. i \in Int
  OBVIOUS
<1>5. a - b = k * p /\ a - b = j * q
  BY <1>2, <1>3
<1>6. a - b = (a - b) * (u * q) - (a - b) * (t * p)
  <2>1. 1 = u * q - t * p
    BY <1>1
  <2>2. a - b = (a - b) * (u * q - t * p)
    BY <2>1
  <2> QED BY <2>2
<1>7. (a - b) * (u * q) = (k * u) * (p * q)
  <2>1. (a - b) * (u * q) = (k * p) * (u * q)
    BY <1>5
  <2> QED BY <2>1
<1>8. (a - b) * (t * p) = (t * j) * (p * q)
  <2>1. (a - b) * (t * p) = (j * q) * (t * p)
    BY <1>5
  <2> QED BY <2>1
<1>9. (k * u) * (p * q) - (t * j) * (p * q) = i * (p * q)
  OBVIOUS
<1>10. a - b = i * (p * q)
  BY <1>6, <1>7, <1>8, <1>9
<1>. HIDE DEF i
<1>11. p * q \in Int
  OBVIOUS
<1>12. PICK n : n = p * q
  OBVIOUS
<1>13. a = b + i * n
  BY <1>4, <1>10, <1>11, <1>12
<1> QED BY <1>4, <1>12, <1>13 DEF Cong

-----------------------------------------------------------------------------
(* Powers.                                                                   *)

Parity(i, x, y) == IF i % 2 = 1 THEN x ELSE y

\* f holds the powers of b modulo m.
IsPowers(f, b, m) ==
  /\ f \in [Nat -> 0 .. m - 1] /\ f[0] = 1 % m
  /\ \A i \in Nat \ {0} : f[i] = (((f[i \div 2] * f[i \div 2]) % m) * Parity(i, b % m, 1)) % m

\* The recursion of pow is one function of all exponents.
LEMMA PowersExist ==
  ASSUME NEW b \in Int, NEW m \in Nat \ {0}
  PROVE  \E f : IsPowers(f, b, m) /\ \A e \in Nat : Pow(b, e, m) = f[e]
<1> DEFINE D == Nat
           U == 0 .. m - 1
           B(f, i) == IF i = 0 THEN 1 % m
                      ELSE LET h == f[i \div 2] IN (((h * h) % m) * (IF i % 2 = 1 THEN b % m ELSE 1)) % m
           Rule == [x \in [D -> U] \X D |-> B(x[1], x[2])]
           W(e) == CHOOSE f : f = [i \in 0 .. e |-> B(f, i)]
<1>1. \A i \in Nat : i # 0 => i \div 2 \in 0 .. i - 1 /\ i \div 2 \in Nat
  OBVIOUS
<1>2. \A f \in [D -> U], i \in D : B(f, i) \in U
  <2> TAKE f \in [D -> U], i \in D
  <2>1. 1 % m \in U
    BY ModRange
  <2>2. PICK h : h = f[i \div 2]
    OBVIOUS
  <2>3. i # 0 => h \in Int
    BY <1>1, <2>2
  <2>4. PICK g : g = (h * h) % m
    OBVIOUS
  <2>5. i # 0 => g \in Int
    BY <2>3, <2>4, ModRange
  <2>6. PICK y : y = (IF i % 2 = 1 THEN b % m ELSE 1)
    OBVIOUS
  <2>7. y \in Int
    BY <2>6, ModRange
  <2>8. i # 0 => (g * y) % m \in U
    <3>1. i # 0 => g * y \in Int
      BY <2>5, <2>7
    <3> QED BY <3>1, ModRange
  <2> QED BY <2>1, <2>2, <2>4, <2>6, <2>8, Zenon
<1>3. ASSUME NEW f, NEW g, NEW i \in Nat, i # 0 => f[i \div 2] = g[i \div 2] PROVE B(f, i) = B(g, i)
  BY <1>3, Zenon
<1>4. \A e \in Nat : Pow(b, e, m) = W(e)[e]
  BY Zenon DEF Pow
<1>5. ASSUME NEW f, NEW i \in Nat \ {0}
      PROVE  B(f, i) = (((f[i \div 2] * f[i \div 2]) % m) * Parity(i, b % m, 1)) % m
  BY Zenon DEF Parity
<1>5a. ASSUME NEW f PROVE B(f, 0) = 1 % m
  BY Zenon
<1>. HIDE DEF B
<1>6. Rule \in [[D -> U] \X D -> U]
  BY <1>2, Zenon
<1>7. \A f \in [D -> U], i \in D : Rule[f, i] = B(f, i)
  BY Zenon
<1>8. Recurs(D, U, Rule)
  <2>. HIDE DEF Rule
  <2>1. D \subseteq Nat /\ \A n \in D : \A k \in 0 .. n : k \in D
    OBVIOUS
  <2>2. \A f, g \in [D -> U] : \A n \in D :
          (\A k \in 0 .. n - 1 : f[k] = g[k]) => Rule[f, n] = Rule[g, n]
    <3> TAKE f, g \in [D -> U]
    <3> TAKE n \in D
    <3> HAVE \A k \in 0 .. n - 1 : f[k] = g[k]
    <3>1. B(f, n) = B(g, n)
      BY <1>1, <1>3, Zenon
    <3>2. Rule[f, n] = B(f, n) /\ Rule[g, n] = B(g, n)
      BY <1>7, Zenon
    <3> QED BY <3>1, <3>2, Zenon
  <2> QED BY <2>1, <2>2, <1>6, Zenon DEF Recurs
<1>9. PICK F \in [D -> U] : \A n \in D : F[n] = B(F, n)
  <2>. HIDE DEF Rule
  <2>1. U # {}
    BY ModRange
  <2>. HIDE DEF D, U
  <2>2. HasSolution(D, U, Rule)
    BY <1>8, <2>1, Recursion, Zenon
  <2>3. \E v \in [D -> U] : \A n \in D : v[n] = Rule[v, n]
    BY <2>2, Zenon DEF HasSolution
  <2> QED BY <2>3, <1>7, Zenon
<1>10. IsPowers(F, b, m)
  <2>1. F[0] = 1 % m
    BY <1>9, <1>5a
  <2>2. \A i \in Nat \ {0} : F[i] = (((F[i \div 2] * F[i \div 2]) % m) * Parity(i, b % m, 1)) % m
    <3> TAKE i \in Nat \ {0}
    <3>1. F[i] = B(F, i)
      BY <1>9
    <3> QED BY <1>5, <3>1, Zenon
  <2> QED BY <1>9, <2>1, <2>2, Zenon DEF IsPowers
<1>11. ASSUME NEW e \in Nat PROVE W(e)[e] = F[e]
  <2>1. W(e) = [i \in 0 .. e |-> B(W(e), i)]
    <3>1. PICK g : g = [i \in 0 .. e |-> F[i]]
      OBVIOUS
    <3>2. \A i \in 0 .. e : g[i] = F[i]
      BY <3>1
    <3>3. \A i \in 0 .. e : i # 0 => i \div 2 \in 0 .. e
      BY <1>1
    <3>4. \A i \in 0 .. e : B(g, i) = F[i]
      <4> TAKE i \in 0 .. e
      <4>1. i # 0 => g[i \div 2] = F[i \div 2]
        BY <3>2, <3>3
      <4>2. i \in Nat
        OBVIOUS
      <4>3. B(g, i) = B(F, i)
        BY <1>3, <4>1, <4>2, Zenon
      <4> QED BY <1>9, <4>2, <4>3
    <3>5. g = [i \in 0 .. e |-> B(g, i)]
      BY <3>1, <3>4, Zenon
    <3> QED BY <3>5, Zenon
  <2>2. PICK w : w = W(e)
    OBVIOUS
  <2>3. w = [i \in 0 .. e |-> B(w, i)]
    BY <2>1, <2>2, Zenon
  <2>4. \A i \in 0 .. e : w[i] = B(w, i)
    BY <2>3, Zenon
  <2> DEFINE T == {i \in Nat : i \in 0 .. e => w[i] = F[i]}
  <2>5. ASSUME NEW i \in Nat, \A k \in 0 .. i - 1 : k \in T PROVE i \in T
    <3>1. ASSUME i \in 0 .. e PROVE w[i] = F[i]
      <4>1. i # 0 => i \div 2 \in 0 .. i - 1 /\ i \div 2 \in 0 .. e
        BY <1>1, <3>1
      <4>2. i # 0 => w[i \div 2] = F[i \div 2]
        BY <2>5, <4>1
      <4>3. B(w, i) = B(F, i)
        BY <1>3, <4>2, Zenon
      <4> QED BY <1>9, <2>4, <3>1, <4>3, Zenon
    <3> QED BY <3>1
  <2>. HIDE DEF T
  <2>6. \A i \in Nat : i \in T
    BY <2>5, SmallerFirst
  <2>7. e \in T /\ e \in 0 .. e
    BY <2>6
  <2>8. w[e] = F[e]
    BY <2>7 DEF T
  <2> QED BY <2>2, <2>8
<1>12. \A e \in Nat : Pow(b, e, m) = F[e]
  BY <1>4, <1>11, Zenon
<1> QED BY <1>10, <1>12

LEMMA PowRange ==
  ASSUME NEW b \in Int, NEW e \in Nat, NEW m \in Nat \ {0}
  PROVE  Pow(b, e, m) \in 0 .. m - 1 /\ Pow(b, e, m) \in Int
<1>1. PICK f : IsPowers(f, b, m) /\ \A k \in Nat : Pow(b, k, m) = f[k]
  BY PowersExist
<1>2. f[e] \in 0 .. m - 1
  BY <1>1 DEF IsPowers
<1>3. \A x \in 0 .. m - 1 : x \in Int
  OBVIOUS
<1> QED BY <1>1, <1>2, <1>3, Zenon

\* Replacing factors by congruent ones.
LEMMA CongProduct ==
  ASSUME NEW a \in Int, NEW b \in Int, NEW c \in Int, NEW d \in Int, NEW m \in Nat \ {0},
         Cong(a, b, m), Cong(c, d, m)
  PROVE  Cong((a * c) % m, b * d, m)
<1>1. a * c \in Int /\ b * d \in Int /\ m \in Int
  OBVIOUS
<1>2. PICK x, y : x = a * c /\ y = b * d
  OBVIOUS
<1>3. x \in Int /\ y \in Int /\ x % m \in Int
  BY <1>1, <1>2, ModRange
<1>4. Cong(x, y, m)
  BY <1>1, <1>2, CongMul
<1>5. Cong(x % m, x, m)
  BY <1>3, CongMod
<1>6. Cong(x % m, y, m)
  BY <1>1, <1>3, <1>4, <1>5, CongTrans
<1> QED BY <1>2, <1>6

\* The recursion by halves and the one by steps give the same powers.
LEMMA PowNext ==
  ASSUME NEW b \in Int, NEW e \in Nat, NEW m \in Nat \ {0}
  PROVE  Cong(Pow(b, e + 1, m), b * Pow(b, e, m), m)
<1>1. PICK f : IsPowers(f, b, m) /\ \A k \in Nat : Pow(b, k, m) = f[k]
  BY PowersExist
<1>2. \A k \in Nat : f[k] \in Int
  BY <1>1 DEF IsPowers
<1>3. m \in Int
  OBVIOUS
\* Two steps of the recursion by halves.
<1>4. ASSUME NEW j \in Nat, NEW y \in Int, NEW k \in Nat, j > 0 \/ k = 1, k \in 0 .. 1, y = Parity(k, b, 1)
      PROVE  Cong(f[2 * j + k], y * (f[j] * f[j]), m)
  <2>1. 2 * j + k \in Nat \ {0} /\ (2 * j + k) \div 2 = j /\ (2 * j + k) % 2 = k /\ k % 2 = k
    BY <1>4
  <2>2. PICK i : i = 2 * j + k
    OBVIOUS
  <2>3. f[i] = (((f[j] * f[j]) % m) * Parity(i, b % m, 1)) % m
    BY <1>1, <2>1, <2>2, Zenon DEF IsPowers
  <2>4. PICK g, z : g = f[j] /\ z = Parity(i, b % m, 1)
    OBVIOUS
  <2>5. g \in Int
    BY <1>2, <1>4, <2>4
  <2>6. z \in Int /\ Cong(z, y, m)
    <3>1. CASE k = 1
      <4>1. z = b % m /\ y = b
        BY <1>4, <2>1, <2>2, <2>4, <3>1, Zenon DEF Parity
      <4> QED BY <4>1, ModRange, CongMod
    <3>2. CASE k # 1
      <4>1. z = 1 /\ y = 1
        BY <1>4, <2>1, <2>2, <2>4, <3>2, Zenon DEF Parity
      <4> QED BY <4>1, <1>3, CongRefl
    <3> QED BY <3>1, <3>2
  <2>7. Cong((g * g) % m, g * g, m)
    <3>1. g * g \in Int
      BY <2>5
    <3> QED BY <3>1, CongMod
  <2>8. PICK h, x : h = (g * g) % m /\ x = g * g
    OBVIOUS
  <2>9. h \in Int /\ x \in Int
    BY <2>5, <2>8, ModRange
  <2>10. Cong((h * z) % m, x * y, m)
    BY <2>6, <2>7, <2>8, <2>9, CongProduct
  <2>11. x * y = y * x
    BY <2>9, <1>4
  <2>12. f[i] = (h * z) % m
    BY <2>3, <2>4, <2>8
  <2>13. Cong(f[i], y * x, m)
    BY <2>10, <2>11, <2>12
  <2> QED BY <2>2, <2>4, <2>8, <2>13
<1>5. f[0] = 1 % m
  BY <1>1 DEF IsPowers
<1>6. Cong(f[0], 1, m)
  BY <1>5, CongMod
<1> DEFINE T == {i \in Nat : Cong(f[i + 1], b * f[i], m)}
<1>7. ASSUME NEW i \in Nat, \A k \in 0 .. i - 1 : k \in T PROVE i \in T
  <2>1. PICK j : j = i \div 2
    OBVIOUS
  <2>2. j \in Nat /\ (i = 2 * j \/ i = 2 * j + 1)
    BY <2>1
  <2>3. PICK g : g = f[j]
    OBVIOUS
  <2>4. g \in Int /\ g * g \in Int /\ b * (g * g) \in Int /\ b * g \in Int
    BY <1>2, <2>2, <2>3
  <2>5. 1 \in 0 .. 1 /\ 0 \in 0 .. 1 /\ 1 \in Nat /\ 0 \in Nat
    OBVIOUS
  <2>6. b = Parity(1, b, 1) /\ 1 = Parity(0, b, 1)
    BY DEF Parity
  <2>7. Cong(f[2 * j + 1], b * (g * g), m)
    BY <1>4, <2>2, <2>3, <2>5, <2>6
  <2>8. CASE i = 2 * j
    <3>1. i + 1 = 2 * j + 1
      BY <2>8
    <3>2. Cong(f[i], g * g, m)
      <4>1. CASE j = 0
        <5>1. i = 0 /\ f[i] = g /\ Cong(g, 1, m)
          BY <1>6, <2>3, <2>8, <4>1
        <5>2. Cong(g * g, 1 * 1, m)
          BY <1>3, <2>4, <5>1, CongMul
        <5>3. Cong(1, g * g, m)
          BY <1>3, <2>4, <5>2, CongSym
        <5> QED BY <1>3, <2>4, <5>1, <5>3, CongTrans
      <4>2. CASE j # 0
        <5>1. j > 0 /\ 2 * j + 0 = i
          BY <2>2, <2>8, <4>2
        <5>2. Cong(f[2 * j + 0], 1 * (g * g), m)
          BY <1>4, <2>2, <2>3, <2>5, <2>6, <5>1
        <5> QED BY <2>4, <5>1, <5>2
      <4> QED BY <4>1, <4>2
    <3>3. f[i] \in Int /\ f[i + 1] \in Int
      BY <1>2, <1>7
    <3>4. Cong(b, b, m)
      BY <1>3, CongRefl
    <3>5. PICK x, y, z : x = f[i] /\ y = f[i + 1] /\ z = g * g
      OBVIOUS
    <3>6. x \in Int /\ y \in Int /\ z \in Int /\ Cong(x, z, m) /\ Cong(y, b * z, m)
      BY <2>4, <2>7, <3>1, <3>2, <3>3, <3>5
    <3>7. Cong(b * x, b * z, m) /\ b * x \in Int /\ b * z \in Int
      BY <1>3, <3>4, <3>6, CongMul
    <3>8. Cong(b * z, b * x, m)
      BY <1>3, <3>7, CongSym
    <3>9. Cong(y, b * x, m)
      BY <1>3, <3>6, <3>7, <3>8, CongTrans
    <3> QED BY <3>5, <3>9
  <2>9. CASE i = 2 * j + 1
    <3>1. j \in 0 .. i - 1 /\ j + 1 \in Nat /\ j + 1 > 0 /\ 2 * (j + 1) + 0 = i + 1
      BY <2>2, <2>9
    <3>2. Cong(f[j + 1], b * f[j], m)
      BY <1>7, <3>1
    <3>3. PICK x, y, z, u : x = f[i] /\ y = f[i + 1] /\ z = g * g /\ u = f[j + 1]
      OBVIOUS
    <3>4. x \in Int /\ y \in Int /\ z \in Int /\ u \in Int
      BY <1>2, <1>7, <2>4, <3>1, <3>3
    <3>5. Cong(u, b * g, m)
      BY <2>3, <3>2, <3>3
    <3>6. Cong(y, 1 * (u * u), m)
      <4>1. Cong(f[2 * (j + 1) + 0], 1 * (f[j + 1] * f[j + 1]), m)
        <5>1. PICK l : l = j + 1
          OBVIOUS
        <5>2. l \in Nat /\ (l > 0 \/ 0 = 1) /\ 1 \in Int
          BY <3>1, <5>1
        <5>3. Cong(f[2 * l + 0], 1 * (f[l] * f[l]), m)
          BY <1>4, <2>5, <2>6, <5>2, Zenon
        <5> QED BY <5>1, <5>3
      <4>2. Cong(f[i + 1], 1 * (f[j + 1] * f[j + 1]), m)
        BY <3>1, <4>1
      <4> QED BY <3>3, <4>2
    <3>7. Cong(u * u, (b * g) * (b * g), m)
      BY <1>3, <2>4, <3>4, <3>5, CongMul
    <3>8. (b * g) * (b * g) = b * (b * z) /\ b * z \in Int /\ b * (b * z) \in Int /\ b * x \in Int
          /\ 1 * (u * u) = u * u /\ u * u \in Int
      <4>1. (b * g) * (b * g) = b * (b * (g * g))
        BY <2>4
      <4> QED BY <3>3, <3>4, <4>1
    <3>9. Cong(x, b * z, m)
      BY <2>7, <2>9, <3>3
    <3>10. Cong(b * z, x, m)
      BY <1>3, <3>4, <3>8, <3>9, CongSym
    <3>11. Cong(b, b, m)
      BY <1>3, CongRefl
    <3>12. Cong(b * (b * z), b * x, m)
      BY <1>3, <3>4, <3>8, <3>10, <3>11, CongMul
    <3>13. Cong(y, b * (b * z), m)
      BY <1>3, <3>4, <3>6, <3>7, <3>8, CongTrans
    <3>14. Cong(y, b * x, m)
      BY <1>3, <3>4, <3>8, <3>12, <3>13, CongTrans
    <3> QED BY <3>3, <3>14
  <2> QED BY <2>2, <2>8, <2>9
<1>. HIDE DEF T
<1>8. \A i \in Nat : i \in T
  BY <1>7, SmallerFirst
<1>9. Cong(f[e + 1], b * f[e], m)
  BY <1>8 DEF T
<1>10. e + 1 \in Nat
  OBVIOUS
<1> QED BY <1>1, <1>9, <1>10, Zenon

LEMMA PowZero ==
  ASSUME NEW b \in Int, NEW m \in Nat \ {0}
  PROVE  Cong(Pow(b, 0, m), 1, m)
<1>1. PICK f : IsPowers(f, b, m) /\ \A k \in Nat : Pow(b, k, m) = f[k]
  BY PowersExist
<1>2. f[0] = 1 % m
  BY <1>1 DEF IsPowers
<1>3. Pow(b, 0, m) = 1 % m
  BY <1>1, <1>2
<1> QED BY <1>3, CongMod

\* Congruence as a relation between integers, with its rules for the provers.
LEMMA PowAdd ==
  ASSUME NEW b \in Int, NEW i \in Nat, NEW j \in Nat, NEW m \in Nat \ {0}
  PROVE  Cong(Pow(b, i + j, m), Pow(b, i, m) * Pow(b, j, m), m)
<1> DEFINE T == {k \in Nat : Cong(Pow(b, i + k, m), Pow(b, i, m) * Pow(b, k, m), m)}
<1>1. m \in Int
  OBVIOUS
<1>2. PICK x : x = Pow(b, i, m)
  OBVIOUS
<1>3. x \in Int
  BY <1>2, PowRange
<1>4. 0 \in T
  <2>1. PICK y : y = Pow(b, 0, m)
    OBVIOUS
  <2>2. y \in Int /\ Cong(y, 1, m)
    BY <2>1, PowRange, PowZero
  <2>3. Cong(1, y, m) /\ Cong(x, x, m)
    BY <1>1, <1>3, <2>2, CongSym, CongRefl
  <2>4. Cong(x * 1, x * y, m)
    BY <1>1, <1>3, <2>2, <2>3, CongMul
  <2>5. x * 1 = x /\ i + 0 = i
    BY <1>3
  <2> QED BY <1>2, <2>1, <2>4, <2>5
<1>5. ASSUME NEW k \in Nat, k \in T PROVE k + 1 \in T
  <2>1. PICK y, z, v, w : /\ y = Pow(b, k, m) /\ z = Pow(b, k + 1, m)
                         /\ v = Pow(b, i + k, m) /\ w = Pow(b, i + (k + 1), m)
    OBVIOUS
  <2>2. k + 1 \in Nat /\ i + k \in Nat /\ i + (k + 1) = (i + k) + 1 /\ i + (k + 1) \in Nat
    OBVIOUS
  <2>3. y \in Int /\ z \in Int /\ v \in Int /\ w \in Int
    BY <2>1, <2>2, PowRange
  <2>4. Cong(w, b * v, m) /\ Cong(z, b * y, m) /\ Cong(v, x * y, m)
    BY <1>2, <1>5, <2>1, <2>2, PowNext
  <2>5. Cong(b, b, m) /\ Cong(x, x, m)
    BY <1>1, <1>3, CongRefl
  <2>6. x * y \in Int /\ b * y \in Int /\ b * v \in Int /\ b * (x * y) \in Int /\ x * z \in Int
        /\ x * (b * y) = b * (x * y)
    BY <1>3, <2>3
  <2>7. Cong(b * v, b * (x * y), m) /\ Cong(x * z, x * (b * y), m)
    BY <1>1, <1>3, <2>3, <2>4, <2>5, <2>6, CongMul
  <2>8. Cong(w, b * (x * y), m)
    BY <1>1, <2>3, <2>4, <2>6, <2>7, CongTrans
  <2>9. Cong(b * (x * y), x * z, m)
    BY <1>1, <2>6, <2>7, CongSym
  <2>10. Cong(w, x * z, m)
    BY <1>1, <2>3, <2>6, <2>8, <2>9, CongTrans
  <2> QED BY <1>2, <2>1, <2>2, <2>10
<1>. HIDE DEF T
<1>6. \A k \in Nat : k \in T
  BY <1>4, <1>5, CountUp
<1>7. j \in T
  BY <1>6
<1> QED BY <1>7 DEF T

\* A power of a congruent number, and of one with a modulus that is a multiple.
LEMMA PowCong ==
  ASSUME NEW a \in Int, NEW b \in Int, NEW i \in Nat, NEW m \in Nat \ {0}, NEW n \in Nat \ {0}, NEW k \in Nat,
         n = k * m, Cong(a, b, m)
  PROVE  Cong(Pow(a, i, n), Pow(b, i, m), m)
<1> DEFINE T == {j \in Nat : Cong(Pow(a, j, n), Pow(b, j, m), m)}
<1>1. m \in Int /\ n \in Int
  OBVIOUS
<1>2. \A x, y \in Int : Cong(x, y, n) => Cong(x, y, m)
  <2>1. ASSUME NEW x \in Int, NEW y \in Int, Cong(x, y, n) PROVE Cong(x, y, m)
    <3>1. Cong(x, y, k * m)
      BY <2>1
    <3>2. k \in Int
      OBVIOUS
    <3> QED BY <1>1, <3>1, <3>2, CongFactor, Zenon
  <2> QED BY <2>1
<1>3. 0 \in T
  <2>1. PICK x, y : x = Pow(a, 0, n) /\ y = Pow(b, 0, m)
    OBVIOUS
  <2>2. x \in Int /\ y \in Int /\ Cong(x, 1, n) /\ Cong(y, 1, m)
    BY <2>1, PowRange, PowZero
  <2>3. Cong(x, 1, m) /\ Cong(1, y, m)
    BY <1>1, <1>2, <2>2, CongSym
  <2>4. Cong(x, y, m)
    BY <1>1, <2>2, <2>3, CongTrans
  <2> QED BY <2>1, <2>4
<1>4. ASSUME NEW j \in Nat, j \in T PROVE j + 1 \in T
  <2>1. PICK x, y, v, w : /\ x = Pow(a, j, n) /\ y = Pow(b, j, m)
                         /\ v = Pow(a, j + 1, n) /\ w = Pow(b, j + 1, m)
    OBVIOUS
  <2>2. j + 1 \in Nat
    OBVIOUS
  <2>3. x \in Int /\ y \in Int /\ v \in Int /\ w \in Int
    BY <2>1, <2>2, PowRange
  <2>4. Cong(v, a * x, n) /\ Cong(w, b * y, m) /\ Cong(x, y, m)
    BY <1>4, <2>1, PowNext
  <2>5. a * x \in Int /\ b * y \in Int
    BY <2>3
  <2>6. Cong(a * x, b * y, m)
    BY <1>1, <2>3, <2>4, CongMul
  <2>7. Cong(v, a * x, m) /\ Cong(b * y, w, m)
    BY <1>1, <1>2, <2>3, <2>4, <2>5, CongSym
  <2>8. Cong(v, b * y, m)
    BY <1>1, <2>3, <2>5, <2>6, <2>7, CongTrans
  <2>9. Cong(v, w, m)
    BY <1>1, <2>3, <2>5, <2>7, <2>8, CongTrans
  <2> QED BY <2>1, <2>2, <2>9
<1>. HIDE DEF T
<1>5. \A j \in Nat : j \in T
  BY <1>3, <1>4, CountUp
<1>6. i \in T
  BY <1>5
<1> QED BY <1>6 DEF T

LEMMA PowProduct ==
  ASSUME NEW a \in Int, NEW b \in Int, NEW i \in Nat, NEW m \in Nat \ {0}
  PROVE  Cong(Pow(a * b, i, m), Pow(a, i, m) * Pow(b, i, m), m)
<1> DEFINE T == {j \in Nat : Cong(Pow(a * b, j, m), Pow(a, j, m) * Pow(b, j, m), m)}
<1>1. m \in Int /\ a * b \in Int
  OBVIOUS
<1>2. 0 \in T
  <2>1. PICK x, y, z : x = Pow(a, 0, m) /\ y = Pow(b, 0, m) /\ z = Pow(a * b, 0, m)
    OBVIOUS
  <2>2. /\ x \in Int /\ y \in Int /\ z \in Int /\ x * y \in Int /\ 1 * 1 = 1
        /\ Cong(x, 1, m) /\ Cong(y, 1, m) /\ Cong(z, 1, m)
    <3>1. Cong(x, 1, m) /\ Cong(y, 1, m) /\ x \in Int /\ y \in Int
      BY <2>1, PowRange, PowZero
    <3>2. Cong(z, 1, m) /\ z \in Int
      BY <1>1, <2>1, PowRange, PowZero
    <3> QED BY <3>1, <3>2
  <2>3. Cong(x * y, 1 * 1, m)
    BY <1>1, <2>2, CongMul
  <2>4. Cong(1, x * y, m)
    BY <1>1, <2>2, <2>3, CongSym
  <2>5. Cong(z, x * y, m)
    BY <1>1, <2>2, <2>4, CongTrans
  <2> QED BY <2>1, <2>5
<1>3. ASSUME NEW j \in Nat, j \in T PROVE j + 1 \in T
  <2>1. PICK x, y, z, u, v, w : /\ x = Pow(a, j, m) /\ y = Pow(b, j, m) /\ z = Pow(a * b, j, m)
                               /\ u = Pow(a, j + 1, m) /\ v = Pow(b, j + 1, m) /\ w = Pow(a * b, j + 1, m)
    OBVIOUS
  <2>2. j + 1 \in Nat
    OBVIOUS
  <2>3. x \in Int /\ y \in Int /\ u \in Int /\ v \in Int /\ Cong(u, a * x, m) /\ Cong(v, b * y, m)
    BY <2>1, <2>2, PowRange, PowNext
  <2>4. z \in Int /\ w \in Int /\ Cong(w, (a * b) * z, m) /\ Cong(z, x * y, m)
    BY <1>1, <1>3, <2>1, <2>2, PowRange, PowNext
  <2>5. /\ a * x \in Int /\ b * y \in Int /\ (a * b) * z \in Int /\ x * y \in Int /\ u * v \in Int
        /\ (a * b) * (x * y) \in Int
    BY <2>3, <2>4
  <2>6. (a * b) * (x * y) = (a * x) * (b * y)
    BY <2>3
  <2>7. Cong(a * b, a * b, m)
    BY <1>1, CongRefl
  <2>8. Cong((a * b) * z, (a * b) * (x * y), m)
    BY <1>1, <2>4, <2>5, <2>7, CongMul
  <2>9. Cong(u * v, (a * x) * (b * y), m)
    BY <1>1, <2>3, <2>5, CongMul
  <2>10. Cong((a * b) * (x * y), u * v, m)
    BY <1>1, <2>5, <2>6, <2>9, CongSym
  <2>11. Cong(w, (a * b) * (x * y), m)
    BY <1>1, <2>4, <2>5, <2>8, CongTrans
  <2>12. Cong(w, u * v, m)
    BY <1>1, <2>4, <2>5, <2>10, <2>11, CongTrans
  <2> QED BY <2>1, <2>2, <2>12
<1>. HIDE DEF T
<1>4. \A j \in Nat : j \in T
  BY <1>2, <1>3, CountUp
<1>5. i \in T
  BY <1>4
<1> QED BY <1>5 DEF T

LEMMA PowTimes ==
  ASSUME NEW b \in Int, NEW i \in Nat, NEW j \in Nat, NEW m \in Nat \ {0}
  PROVE  Cong(Pow(b, i * j, m), Pow(Pow(b, i, m), j, m), m)
<1> DEFINE T == {k \in Nat : Cong(Pow(b, i * k, m), Pow(Pow(b, i, m), k, m), m)}
<1>1. m \in Int
  OBVIOUS
<1>2. PICK x : x = Pow(b, i, m)
  OBVIOUS
<1>3. x \in Int
  BY <1>2, PowRange
<1>4. 0 \in T
  <2>1. PICK y, z : y = Pow(x, 0, m) /\ z = Pow(b, 0, m)
    OBVIOUS
  <2>2. y \in Int /\ z \in Int /\ Cong(z, 1, m) /\ Cong(y, 1, m)
    BY <1>3, <2>1, PowRange, PowZero
  <2>3. Cong(1, y, m)
    BY <1>1, <2>2, CongSym
  <2>4. Cong(z, y, m)
    BY <1>1, <2>2, <2>3, CongTrans
  <2>5. i * 0 = 0
    OBVIOUS
  <2> QED BY <1>2, <2>1, <2>4, <2>5
<1>5. ASSUME NEW k \in Nat, k \in T PROVE k + 1 \in T
  <2>1. i * k \in Nat /\ i * (k + 1) = i * k + i /\ k + 1 \in Nat /\ i * (k + 1) \in Nat
    OBVIOUS
  <2>2. PICK u, v, w, y : /\ u = Pow(b, i * k, m) /\ v = Pow(x, k, m)
                         /\ w = Pow(b, i * (k + 1), m) /\ y = Pow(x, k + 1, m)
    OBVIOUS
  <2>3. u \in Int /\ v \in Int /\ w \in Int /\ y \in Int
    BY <1>3, <2>1, <2>2, PowRange
  <2>4. Cong(u, v, m)
    BY <1>2, <1>5, <2>2
  <2>5. Cong(y, x * v, m)
    BY <1>3, <2>2, PowNext
  <2>6. Cong(w, u * x, m)
    <3>1. Cong(Pow(b, i * k + i, m), Pow(b, i * k, m) * Pow(b, i, m), m)
      BY <2>1, PowAdd
    <3> QED BY <1>2, <2>1, <2>2, <3>1
  <2>7. Cong(x, x, m)
    BY <1>1, <1>3, CongRefl
  <2>8. Cong(u * x, v * x, m)
    BY <1>1, <1>3, <2>3, <2>4, <2>7, CongMul
  <2>9. u * x \in Int /\ v * x \in Int /\ v * x = x * v
    BY <1>3, <2>3
  <2>10. Cong(v * x, y, m)
    BY <1>1, <2>3, <2>5, <2>9, CongSym
  <2>11. Cong(u * x, y, m)
    BY <1>1, <2>3, <2>8, <2>9, <2>10, CongTrans
  <2>12. Cong(w, y, m)
    BY <1>1, <2>3, <2>6, <2>9, <2>11, CongTrans
  <2> QED BY <1>2, <2>1, <2>2, <2>12
<1>. HIDE DEF T
<1>6. \A k \in Nat : k \in T
  BY <1>4, <1>5, CountUp
<1>7. j \in T
  BY <1>6
<1> QED BY <1>7 DEF T

-----------------------------------------------------------------------------
(* Divisors, and the inverse of a number without common divisors.            *)

Divides(d, a) == Cong(a, 0, d)

\* A set of numbers that differences and multiples stay in has a divisor of all of them in it.
Ideal(S) == /\ S \subseteq Int
            /\ \A x \in S, y \in S, k \in Int : x - k * y \in S

LEMMA IdealDivisor ==
  ASSUME NEW S, Ideal(S), \E x \in S : x > 0
  PROVE  \E d \in S : d > 0 /\ \A x \in S : Divides(d, x)
<1> DEFINE P == {x \in S : x > 0}
<1>1. P \subseteq Nat /\ P # {}
  <2>1. S \subseteq Int
    BY DEF Ideal
  <2>2. PICK x \in S : x > 0
    OBVIOUS
  <2>3. x \in P
    BY <2>2
  <2>4. \A y \in Int : y > 0 => y \in Nat
    OBVIOUS
  <2> QED BY <2>1, <2>3, <2>4
<1>2. PICK d \in P : \A j \in P : d <= j
  BY <1>1, Least
<1>3. d \in S /\ d \in Nat \ {0} /\ d > 0 /\ d \in Int
  BY <1>1
<1>4. ASSUME NEW x \in S PROVE Divides(d, x)
  <2>1. x \in Int
    BY DEF Ideal
  <2>2. PICK k, r : k = x \div d /\ r = x % d
    OBVIOUS
  <2>3. k \in Int /\ x = d * k + r /\ r \in 0 .. d - 1
    BY <1>3, <2>1, <2>2
  <2>4. x - k * d \in S
    BY <1>3, <1>4, <2>3 DEF Ideal
  <2>5. x - k * d = r
    BY <1>3, <2>1, <2>3
  <2>6. r \in S
    BY <2>4, <2>5
  <2>7. r = 0
    <3>1. r > 0 => r \in P
      BY <2>6
    <3>2. r > 0 => d <= r
      BY <1>2, <3>1
    <3> QED BY <1>3, <2>3, <3>2
  <2>8. x = 0 + k * d
    BY <1>3, <2>3, <2>7
  <2> QED BY <2>3, <2>8 DEF Divides, Cong
<1> QED BY <1>3, <1>4

\* A divisor of a positive number is not larger.
LEMMA DivisorBelow ==
  ASSUME NEW d \in Nat \ {0}, NEW a \in Nat \ {0}, Divides(d, a)
  PROVE  d \in 1 .. a
<1>1. PICK k \in Int : a = 0 + k * d
  BY DEF Divides, Cong
<1>2. a = k * d
  BY <1>1
<1>3. k >= 1
  <2>1. ASSUME k <= 0 PROVE FALSE
    <3>1. k * d <= 0
      BY <2>1
    <3> QED BY <1>2, <3>1
  <2> QED BY <2>1
<1>4. k * d >= d
  BY <1>3
<1> QED BY <1>2, <1>4

LEMMA DividesMod ==
  ASSUME NEW d \in Nat \ {0}, NEW a \in Int
  PROVE  Divides(d, a) <=> a % d = 0
<1>1. 0 % d = 0 /\ 0 \in Int
  OBVIOUS
<1>2. Cong(a, 0, d) <=> a % d = 0 % d
  BY <1>1, CongSameMod, Zenon
<1> QED BY <1>1, <1>2 DEF Divides

\* The greatest common divisor is one.
LEMMA GcdIs ==
  ASSUME NEW a \in Int, NEW b \in Nat \ {0}
  PROVE  /\ Gcd(a, b) \in 1 .. b /\ a % Gcd(a, b) = 0 /\ b % Gcd(a, b) = 0
         /\ \A k \in 1 .. b : a % k = 0 /\ b % k = 0 => k <= Gcd(a, b)
<1> DEFINE D == {k \in 1 .. b : a % k = 0 /\ b % k = 0}
           C == {b - k : k \in D}
<1>1. 1 \in D
  OBVIOUS
<1>2. C \subseteq Nat /\ C # {}
  BY <1>1
<1>3. PICK c \in C : \A j \in C : c <= j
  BY <1>2, Least
<1>4. PICK d \in D : c = b - d
  BY <1>3
<1>5. \A k \in D : k <= d
  <2> TAKE k \in D
  <2>1. b - k \in C
    OBVIOUS
  <2>2. c <= b - k
    BY <1>3, <2>1
  <2> QED BY <1>4, <2>2
<1>6. Gcd(a, b) \in D /\ \A k \in D : k <= Gcd(a, b)
  BY <1>5, Zenon DEF Gcd
<1> QED BY <1>6

LEMMA InverseIs ==
  ASSUME NEW x \in Int, NEW m \in Nat \ {0}, Invertible(x, m)
  PROVE  Inv(x, m) \in 0 .. m - 1 /\ Inv(x, m) \in Int /\ Cong(x * Inv(x, m), 1, m)
<1>1. PICK y \in 0 .. m - 1 : (x * y) % m = 1 % m
  BY DEF Invertible
<1>2. Inv(x, m) \in 0 .. m - 1 /\ (x * Inv(x, m)) % m = 1 % m
  BY <1>1, Zenon DEF Inv
<1>3. PICK v : v = Inv(x, m)
  OBVIOUS
<1>4. v \in Int /\ x * v \in Int
  BY <1>2, <1>3
<1>5. PICK u : u = x * v
  OBVIOUS
<1>6. u \in Int /\ 1 \in Int /\ u % m = 1 % m
  BY <1>2, <1>3, <1>4, <1>5
<1>7. Cong(u, 1, m)
  BY <1>6, CongSameMod, Zenon
<1> QED BY <1>2, <1>3, <1>4, <1>5, <1>7

LEMMA HasInverse ==
  ASSUME NEW x \in Int, NEW m \in Nat \ {0}, NEW y \in Int, Cong(x * y, 1, m)
  PROVE  Invertible(x, m)
<1>1. PICK v : v = y % m
  OBVIOUS
<1>2. v \in 0 .. m - 1 /\ v \in Int /\ Cong(v, y, m)
  BY <1>1, ModRange, CongMod
<1>3. Cong(x, x, m) /\ m \in Int /\ x * v \in Int /\ x * y \in Int
  BY <1>2, CongRefl
<1>4. Cong(x * v, x * y, m)
  BY <1>2, <1>3, CongMul
<1>5. PICK u, w : u = x * v /\ w = x * y
  OBVIOUS
<1>6. u \in Int /\ w \in Int /\ 1 \in Int /\ Cong(u, w, m) /\ Cong(w, 1, m)
  BY <1>3, <1>4, <1>5
<1>7. Cong(u, 1, m)
  BY <1>3, <1>6, CongTrans, Zenon
<1>8. u % m = 1 % m
  BY <1>6, <1>7, CongSameMod, Zenon
<1> QED BY <1>2, <1>5, <1>8 DEF Invertible

\* What is congruent to a multiple of x.
Multiples(x, m) == {z \in Int : \E y \in Int : Cong(x * y, z, m)}

LEMMA MultiplesIdeal ==
  ASSUME NEW x \in Int, NEW m \in Nat \ {0}
  PROVE  Ideal(Multiples(x, m)) /\ m \in Multiples(x, m) /\ x \in Multiples(x, m)
<1>1. m \in Int
  OBVIOUS
<1>2. m \in Multiples(x, m)
  <2>1. x * 0 = m + (-1) * m /\ 0 \in Int /\ -1 \in Int
    OBVIOUS
  <2> QED BY <1>1, <2>1 DEF Multiples, Cong
<1>3. x \in Multiples(x, m)
  <2>1. x * 1 = x /\ 1 \in Int
    OBVIOUS
  <2>2. Cong(x * 1, x, m)
    BY <1>1, <2>1, CongRefl
  <2> QED BY <2>1, <2>2, Zenon DEF Multiples
<1>4. ASSUME NEW z \in Multiples(x, m), NEW w \in Multiples(x, m), NEW k \in Int PROVE z - k * w \in Multiples(x, m)
  <2>1. PICK y \in Int : Cong(x * y, z, m)
    BY DEF Multiples
  <2>2. PICK v \in Int : Cong(x * v, w, m)
    BY DEF Multiples
  <2>3. z \in Int /\ w \in Int
    BY DEF Multiples
  <2>4. PICK i \in Int : x * y = z + i * m
    BY <2>1 DEF Cong
  <2>5. PICK j \in Int : x * v = w + j * m
    BY <2>2 DEF Cong
  <2>6. x * (y - k * v) = x * y - k * (x * v)
    OBVIOUS
  <2>7. k * (x * v) = k * w + (k * j) * m
    <3>1. k * (x * v) = k * (w + j * m)
      BY <2>5
    <3> QED BY <2>3, <2>5, <3>1
  <2>8. (i - k * j) * m = i * m - (k * j) * m /\ i - k * j \in Int /\ y - k * v \in Int /\ z - k * w \in Int
    BY <2>3, <2>4, <2>5
  <2>9. PICK a, b, c, d, e, f, g : /\ a = x * y /\ b = k * (x * v) /\ c = k * w /\ d = i * m /\ e = (k * j) * m
                             /\ f = x * (y - k * v) /\ g = (i - k * j) * m
    OBVIOUS
  <2>10. a \in Int /\ b \in Int /\ c \in Int /\ d \in Int /\ e \in Int
    BY <2>3, <2>4, <2>5, <2>9
  <2>11. f = (z - c) + g
    BY <2>3, <2>4, <2>6, <2>7, <2>8, <2>9, <2>10
  <2>12. x * (y - k * v) = (z - k * w) + (i - k * j) * m
    BY <2>9, <2>11
  <2>13. Cong(x * (y - k * v), z - k * w, m)
    BY <2>8, <2>12, Zenon DEF Cong
  <2> QED BY <2>8, <2>13, Zenon DEF Multiples
<1>5. Multiples(x, m) \subseteq Int
  BY DEF Multiples
<1> QED BY <1>2, <1>3, <1>4, <1>5, Zenon DEF Ideal

\* A number without a common divisor with the modulus has an inverse.
LEMMA CoprimeInvertible ==
  ASSUME NEW x \in Int, NEW m \in Nat \ {0}, Gcd(x, m) = 1
  PROVE  Invertible(x, m)
<1> DEFINE S == Multiples(x, m)
<1>1. Ideal(S) /\ m \in S /\ x \in S
  BY MultiplesIdeal
<1>. HIDE DEF S
<1>2. m > 0
  OBVIOUS
<1>3. PICK d \in S : d > 0 /\ \A z \in S : Divides(d, z)
  BY <1>1, <1>2, IdealDivisor
<1>4. d \in Nat \ {0}
  <2>1. d \in Int
    BY <1>1 DEF Ideal
  <2> QED BY <1>3, <2>1
<1>5. Divides(d, m) /\ Divides(d, x) /\ m \in Int
  BY <1>1, <1>3
<1>6. d \in 1 .. m
  BY <1>4, <1>5, DivisorBelow
<1>7. m % d = 0 /\ x % d = 0
  BY <1>4, <1>5, DividesMod
<1>8. d <= Gcd(x, m)
  BY <1>6, <1>7, GcdIs
<1>9. d = 1
  BY <1>6, <1>8
<1>10. 1 \in S
  BY <1>9
<1>11. PICK y \in Int : Cong(x * y, 1, m)
  BY <1>10 DEF S, Multiples
<1> QED BY <1>11, HasInverse

-----------------------------------------------------------------------------
(* Primes.                                                                   *)

Factors(a, m) == {z \in Int : Divides(m, a * z)}

LEMMA FactorsIdeal ==
  ASSUME NEW a \in Int, NEW m \in Nat \ {0}
  PROVE  Ideal(Factors(a, m)) /\ m \in Factors(a, m)
<1>1. m \in Int
  OBVIOUS
<1>2. m \in Factors(a, m)
  <2>1. a * m = 0 + a * m
    OBVIOUS
  <2> QED BY <1>1, <2>1 DEF Factors, Divides, Cong
<1>3. ASSUME NEW x \in Factors(a, m), NEW y \in Factors(a, m), NEW k \in Int PROVE x - k * y \in Factors(a, m)
  <2>1. x \in Int /\ y \in Int
    BY DEF Factors
  <2>2. PICK i \in Int : a * x = 0 + i * m
    BY DEF Factors, Divides, Cong
  <2>3. PICK j \in Int : a * y = 0 + j * m
    BY DEF Factors, Divides, Cong
  <2>4. a * (x - k * y) = a * x - k * (a * y)
    BY <2>1
  <2>5. k * (a * y) = (k * j) * m
    <3>1. k * (a * y) = k * (j * m)
      BY <2>3
    <3> QED BY <3>1
  <2>6. (i - k * j) * m = i * m - (k * j) * m /\ i - k * j \in Int /\ x - k * y \in Int
    BY <2>1
  <2>7. PICK b, c, d, e, f, g : /\ b = a * x /\ c = k * (a * y) /\ d = i * m /\ e = (k * j) * m
                             /\ f = a * (x - k * y) /\ g = (i - k * j) * m
    OBVIOUS
  <2>8. b \in Int /\ c \in Int /\ d \in Int /\ e \in Int /\ g \in Int
    BY <2>1, <2>6, <2>7
  <2>9. f = 0 + g
    BY <2>2, <2>4, <2>5, <2>6, <2>7, <2>8
  <2>10. a * (x - k * y) = 0 + (i - k * j) * m
    BY <2>7, <2>9
  <2> QED BY <2>6, <2>10, Zenon DEF Factors, Divides, Cong
<1>4. Factors(a, m) \subseteq Int
  BY DEF Factors
<1> QED BY <1>2, <1>3, <1>4, Zenon DEF Ideal

\* Euclid: a prime divides a factor of what it divides.
LEMMA Euclid ==
  ASSUME NEW p \in Int, IsPrime(p), NEW a \in Int, NEW x \in Int, Divides(p, a * x)
  PROVE  Divides(p, a) \/ Divides(p, x)
<1>1. p \in Nat \ {0} /\ p > 1 /\ \A k \in 2 .. p - 1 : p % k # 0
  BY DEF IsPrime
<1> DEFINE S == Factors(a, p)
<1>2. Ideal(S) /\ p \in S
  BY <1>1, FactorsIdeal
<1>3. x \in S
  BY DEF Factors
<1>. HIDE DEF S
<1>4. p > 0
  BY <1>1
<1>5. PICK d \in S : d > 0 /\ \A z \in S : Divides(d, z)
  BY <1>2, <1>4, IdealDivisor
<1>6. d \in Nat \ {0}
  <2>1. d \in Int
    BY <1>2 DEF Ideal
  <2> QED BY <1>5, <2>1
<1>7. Divides(d, p) /\ Divides(d, x)
  BY <1>2, <1>3, <1>5
<1>8. d \in 1 .. p /\ p % d = 0
  BY <1>1, <1>6, <1>7, DivisorBelow, DividesMod
<1>9. d = 1 \/ d = p
  <2>1. d \in 2 .. p - 1 => FALSE
    BY <1>1, <1>8, Zenon
  <2> QED BY <1>1, <1>8, <2>1
<1>10. CASE d = 1
  <2>1. Divides(p, a * 1)
    BY <1>5, <1>10 DEF S, Factors
  <2>2. a * 1 = a
    OBVIOUS
  <2> QED BY <2>1, <2>2
<1>11. CASE d = p
  BY <1>7, <1>11
<1> QED BY <1>9, <1>10, <1>11

LEMMA PowOne ==
  ASSUME NEW i \in Nat, NEW m \in Nat \ {0}
  PROVE  Cong(Pow(1, i, m), 1, m)
<1> DEFINE T == {j \in Nat : Cong(Pow(1, j, m), 1, m)}
<1>1. 0 \in T
  BY PowZero
<1>2. ASSUME NEW j \in Nat, j \in T PROVE j + 1 \in T
  <2>1. PICK x, y : x = Pow(1, j, m) /\ y = Pow(1, j + 1, m)
    OBVIOUS
  <2>2. j + 1 \in Nat /\ m \in Int
    OBVIOUS
  <2>3. x \in Int /\ y \in Int
    BY <2>1, <2>2, PowRange
  <2>4. Cong(y, 1 * x, m) /\ Cong(x, 1, m) /\ 1 * x = x
    BY <1>2, <2>1, <2>3, PowNext
  <2>5. Cong(y, 1, m)
    BY <2>2, <2>3, <2>4, CongTrans
  <2> QED BY <2>1, <2>2, <2>5
<1>. HIDE DEF T
<1>3. \A j \in Nat : j \in T
  BY <1>1, <1>2, CountUp
<1>4. i \in T
  BY <1>3
<1> QED BY <1>4 DEF T

\* A factor that a prime does not divide can be left out.
LEMMA Cancel ==
  ASSUME NEW p \in Int, IsPrime(p), NEW u \in Int, NEW x \in Int, NEW y \in Int,
         ~Divides(p, u), Cong(u * x, u * y, p)
  PROVE  Cong(x, y, p)
<1>1. PICK k \in Int : u * x = u * y + k * p
  BY DEF Cong
<1>2. u * (x - y) = u * x - u * y
  OBVIOUS
<1>3. PICK a, b, c, d : a = u * x /\ b = u * y /\ c = k * p /\ d = u * (x - y)
  OBVIOUS
<1>4. a \in Int /\ b \in Int /\ c \in Int
  BY <1>3
<1>5. d = 0 + c
  BY <1>1, <1>2, <1>3, <1>4
<1>6. x - y \in Int /\ u * (x - y) = 0 + k * p
  BY <1>3, <1>5
<1>7. Divides(p, u * (x - y))
  BY <1>6 DEF Divides, Cong
<1>8. Divides(p, x - y)
  BY <1>6, <1>7, Euclid
<1>9. PICK j \in Int : x - y = 0 + j * p
  BY <1>8 DEF Divides, Cong
<1>10. x = y + j * p
  <2>1. PICK e : e = j * p
    OBVIOUS
  <2>2. e \in Int
    BY <2>1
  <2> QED BY <1>9, <2>1, <2>2
<1> QED BY <1>10 DEF Cong

LEMMA PowNotDivided ==
  ASSUME NEW p \in Int, IsPrime(p), NEW a \in Int, ~Divides(p, a), NEW i \in Nat
  PROVE  ~Divides(p, Pow(a, i, p))
<1>1. p \in Nat \ {0} /\ p > 1
  BY DEF IsPrime
<1> DEFINE T == {j \in Nat : ~Divides(p, Pow(a, j, p))}
<1>2. 0 \in T
  <2>1. PICK x : x = Pow(a, 0, p)
    OBVIOUS
  <2>2. x \in Int /\ Cong(x, 1, p)
    BY <1>1, <2>1, PowRange, PowZero
  <2>3. ASSUME Divides(p, x) PROVE FALSE
    <3>1. Cong(x, 0, p) /\ Cong(1, x, p)
      BY <2>2, <2>3, CongSym DEF Divides
    <3>2. Cong(1, 0, p)
      BY <2>2, <3>1, CongTrans
    <3>3. 1 \in 0 .. p - 1 /\ 0 \in 0 .. p - 1
      BY <1>1
    <3>4. 1 = 0
      BY <1>1, <3>2, <3>3, CongSmall
    <3> QED BY <3>4
  <2> QED BY <2>1, <2>3
<1>3. ASSUME NEW j \in Nat, j \in T PROVE j + 1 \in T
  <2>1. PICK x, y : x = Pow(a, j, p) /\ y = Pow(a, j + 1, p)
    OBVIOUS
  <2>2. j + 1 \in Nat
    OBVIOUS
  <2>3. x \in Int /\ y \in Int /\ Cong(y, a * x, p) /\ ~Divides(p, x)
    BY <1>1, <1>3, <2>1, <2>2, PowRange, PowNext
  <2>4. ASSUME Divides(p, y) PROVE FALSE
    <3>1. a * x \in Int
      BY <2>3
    <3>2. Cong(y, 0, p) /\ Cong(a * x, y, p)
      BY <2>3, <2>4, <3>1, CongSym DEF Divides
    <3>3. Cong(a * x, 0, p)
      BY <2>3, <3>1, <3>2, CongTrans
    <3> QED BY <2>3, <3>3, Euclid DEF Divides
  <2> QED BY <2>1, <2>2, <2>4
<1>. HIDE DEF T
<1>4. \A j \in Nat : j \in T
  BY <1>2, <1>3, CountUp
<1>5. i \in T
  BY <1>4
<1> QED BY <1>5 DEF T

\* Powers that agree make one that is 1.
LEMMA PowRepeats ==
  ASSUME NEW p \in Int, IsPrime(p), NEW a \in Int, ~Divides(p, a), NEW i \in Nat, NEW j \in Nat, i < j,
         Cong(Pow(a, i, p), Pow(a, j, p), p)
  PROVE  Cong(Pow(a, j - i, p), 1, p)
<1>1. p \in Nat \ {0}
  BY DEF IsPrime
<1>2. j - i \in Nat /\ i + (j - i) = j
  OBVIOUS
<1>3. PICK x, y, z : x = Pow(a, i, p) /\ y = Pow(a, j, p) /\ z = Pow(a, j - i, p)
  OBVIOUS
<1>4. x \in Int /\ y \in Int /\ z \in Int
  BY <1>1, <1>2, <1>3, PowRange
<1>5. Cong(Pow(a, i + (j - i), p), Pow(a, i, p) * Pow(a, j - i, p), p)
  BY <1>1, <1>2, PowAdd
<1>6. Cong(y, x * z, p) /\ Cong(x, y, p)
  BY <1>2, <1>3, <1>5
<1>7. x * z \in Int /\ x * 1 = x
  BY <1>4
<1>8. Cong(x, x * z, p)
  BY <1>4, <1>6, <1>7, CongTrans
<1>9. Cong(x * z, x * 1, p)
  BY <1>4, <1>7, <1>8, CongSym
<1>10. ~Divides(p, x)
  BY <1>3, PowNotDivided
<1>11. Cong(z, 1, p)
  BY <1>4, <1>9, <1>10, Cancel
<1> QED BY <1>3, <1>11

\* k is the order of a.
IsOrder(k, a, p) ==
  /\ k \in Nat \ {0} /\ Cong(Pow(a, k, p), 1, p)
  /\ \A j \in 1 .. k - 1 : ~Cong(Pow(a, j, p), 1, p)

LEMMA OrderExists ==
  ASSUME NEW p \in Int, IsPrime(p), NEW a \in Int, ~Divides(p, a)
  PROVE  \E k : IsOrder(k, a, p)
<1>1. p \in Nat \ {0} /\ p > 1
  BY DEF IsPrime
<1>2. PICK f : f = [i \in 0 .. p |-> Pow(a, i, p)]
  OBVIOUS
<1>3. \A i \in 0 .. p : Pow(a, i, p) \in 0 .. p - 1 /\ i \in Nat
  <2> TAKE i \in 0 .. p
  <2>1. i \in Nat
    OBVIOUS
  <2> QED BY <1>1, <2>1, PowRange
<1>4. f \in [0 .. p -> 0 .. p - 1]
  BY <1>2, <1>3
<1>5. /\ IsFiniteSet(0 .. p) /\ Cardinality(0 .. p) = p + 1
      /\ IsFiniteSet(0 .. p - 1) /\ Cardinality(0 .. p - 1) = p
  BY <1>1, FS_Interval
<1>6. Cardinality(0 .. p - 1) < Cardinality(0 .. p)
  BY <1>1, <1>5
<1>7. PICK i, j \in 0 .. p : i # j /\ f[i] = f[j]
  BY <1>4, <1>5, <1>6, FS_PigeonHole, Zenon
<1>8. \E x, y \in 0 .. p : x < y /\ f[x] = f[y]
  <2>1. i < j \/ j < i
    BY <1>7
  <2> QED BY <1>7, <2>1, Zenon
<1>9. PICK x \in 0 .. p, y \in 0 .. p : x < y /\ f[x] = f[y]
  BY <1>8
<1>10. Cong(Pow(a, x, p), Pow(a, y, p), p)
  <2>1. PICK u, v : u = Pow(a, x, p) /\ v = Pow(a, y, p)
    OBVIOUS
  <2>2. u = v /\ u \in Int
    BY <1>1, <1>2, <1>3, <1>9, <2>1, PowRange
  <2> QED BY <2>1, <2>2, CongRefl
<1>11. x \in Nat /\ y \in Nat /\ y - x \in Nat /\ y - x > 0
  BY <1>9
<1>12. Cong(Pow(a, y - x, p), 1, p)
  BY <1>9, <1>10, <1>11, PowRepeats
<1> DEFINE S == {k \in Nat : k > 0 /\ Cong(Pow(a, k, p), 1, p)}
<1>13. S \subseteq Nat /\ S # {}
  BY <1>11, <1>12
<1>14. PICK k \in S : \A l \in S : k <= l
  BY <1>13, Least
<1>15. \A l \in 1 .. k - 1 : ~Cong(Pow(a, l, p), 1, p)
  <2> TAKE l \in 1 .. k - 1
  <2>1. l \in Nat /\ l > 0 /\ ~(k <= l)
    BY <1>14
  <2> QED BY <1>14, <2>1
<1> QED BY <1>14, <1>15 DEF IsOrder

\* Multiplication by a stays in X.
IsClosed(X, a, p) == X \subseteq 1 .. p - 1 /\ \A x \in X : (a * x) % p \in X

\* The numbers that powers of a bring x to.
Orbit(x, k, a, p) == {(Pow(a, i, p) * x) % p : i \in 0 .. k - 1}

LEMMA OrbitInside ==
  ASSUME NEW p \in Int, IsPrime(p), NEW a \in Int, NEW X, IsClosed(X, a, p), NEW x \in X, NEW i \in Nat
  PROVE  (Pow(a, i, p) * x) % p \in X
<1>1. p \in Nat \ {0} /\ p > 1
  BY DEF IsPrime
<1>2. x \in 1 .. p - 1 /\ x \in Int /\ x \in 0 .. p - 1
  BY <1>1 DEF IsClosed
<1> DEFINE T == {j \in Nat : (Pow(a, j, p) * x) % p \in X}
<1>3. 0 \in T
  <2>1. PICK y : y = Pow(a, 0, p)
    OBVIOUS
  <2>2. y \in Int /\ Cong(y, 1, p) /\ Cong(x, x, p)
    BY <1>1, <1>2, <2>1, PowRange, PowZero, CongRefl
  <2>3. Cong((y * x) % p, 1 * x, p) /\ 1 * x = x
    BY <1>1, <1>2, <2>2, CongProduct
  <2>4. PICK z : z = (y * x) % p
    OBVIOUS
  <2>5. z \in 0 .. p - 1
    <3>1. y * x \in Int
      BY <1>2, <2>2
    <3> QED BY <1>1, <2>4, <3>1, ModRange
  <2>6. z = x
    BY <1>1, <1>2, <2>3, <2>4, <2>5, CongSmall
  <2> QED BY <2>1, <2>4, <2>6
<1>4. ASSUME NEW j \in Nat, j \in T PROVE j + 1 \in T
  <2>1. PICK y, z, u, v : /\ y = Pow(a, j, p) /\ z = Pow(a, j + 1, p)
                         /\ u = (y * x) % p /\ v = (z * x) % p
    OBVIOUS
  <2>2. j + 1 \in Nat
    OBVIOUS
  <2>3. y \in Int /\ z \in Int /\ Cong(z, a * y, p)
    BY <1>1, <2>1, <2>2, PowRange, PowNext
  <2>4. y * x \in Int /\ z * x \in Int /\ a * y \in Int
    BY <1>2, <2>3
  <2>5. u \in X /\ u \in Int
    BY <1>1, <1>4, <2>1, <2>4, ModRange
  <2>6. (a * u) % p \in X
    BY <2>5 DEF IsClosed
  <2>7. Cong(x, x, p) /\ Cong(a, a, p) /\ p \in Int
    BY <1>1, <1>2, CongRefl
  <2>8. Cong(v, (a * y) * x, p)
    BY <1>1, <1>2, <2>1, <2>3, <2>4, <2>7, CongProduct
  <2>9. Cong(u, y * x, p)
    BY <1>1, <2>1, <2>4, CongMod
  <2>10. Cong((a * u) % p, a * (y * x), p)
    BY <1>1, <2>4, <2>5, <2>7, <2>9, CongProduct
  <2>11. (a * y) * x = a * (y * x) /\ a * (y * x) \in Int
    BY <1>2, <2>3
  <2>12. PICK w : w = (a * u) % p
    OBVIOUS
  <2>13. w \in 0 .. p - 1 /\ w \in Int /\ v \in 0 .. p - 1 /\ v \in Int
    <3>1. a * u \in Int
      BY <2>5
    <3> QED BY <1>1, <2>1, <2>4, <2>12, <3>1, ModRange
  <2>14. Cong(a * (y * x), w, p)
    BY <2>7, <2>10, <2>11, <2>12, <2>13, CongSym
  <2>15. Cong(v, w, p)
    BY <2>7, <2>8, <2>11, <2>13, <2>14, CongTrans
  <2>16. v = w
    BY <1>1, <2>13, <2>15, CongSmall
  <2> QED BY <2>1, <2>2, <2>6, <2>12, <2>16
<1>. HIDE DEF T
<1>5. \A j \in Nat : j \in T
  BY <1>3, <1>4, CountUp
<1>6. i \in T
  BY <1>5
<1> QED BY <1>6 DEF T

\* An orbit has as many members as the order says.
LEMMA OrbitSize ==
  ASSUME NEW p \in Int, IsPrime(p), NEW a \in Int, ~Divides(p, a), NEW k, IsOrder(k, a, p), NEW x \in 1 .. p - 1
  PROVE  IsFiniteSet(Orbit(x, k, a, p)) /\ Cardinality(Orbit(x, k, a, p)) = k
<1>1. p \in Nat \ {0} /\ p > 1 /\ x \in Int /\ k \in Nat \ {0}
  BY DEF IsPrime, IsOrder
<1> DEFINE H == Orbit(x, k, a, p)
           I == 0 .. k - 1
           f == [i \in I |-> (Pow(a, i, p) * x) % p]
<1>2. \A i \in I : i \in Nat
  BY <1>1
<1>3. ~Divides(p, x)
  <2>1. ASSUME Divides(p, x) PROVE FALSE
    <3>1. Cong(x, 0, p) /\ x \in 0 .. p - 1 /\ 0 \in 0 .. p - 1
      BY <1>1, <2>1 DEF Divides
    <3>2. x = 0
      BY <1>1, <3>1, CongSmall
    <3> QED BY <3>2
  <2> QED BY <2>1
<1>4. ASSUME NEW i \in I, NEW j \in I, i < j, (Pow(a, i, p) * x) % p = (Pow(a, j, p) * x) % p PROVE FALSE
  <2>1. PICK y, z : y = Pow(a, i, p) /\ z = Pow(a, j, p)
    OBVIOUS
  <2>2. y \in Int /\ z \in Int
    BY <1>1, <1>2, <2>1, PowRange
  <2>3. PICK u, v : u = y * x /\ v = z * x
    OBVIOUS
  <2>4. u \in Int /\ v \in Int /\ u % p = v % p /\ u = x * y /\ v = x * z
    BY <1>1, <1>4, <2>1, <2>2, <2>3
  <2>5. Cong(u, v, p)
    BY <1>1, <2>4, CongSameMod, Zenon
  <2>6. Cong(x * y, x * z, p)
    BY <2>4, <2>5
  <2>7. Cong(y, z, p)
    BY <1>1, <1>3, <2>2, <2>6, Cancel
  <2>8. i \in Nat /\ j \in Nat /\ j - i \in 1 .. k - 1
    BY <1>1, <1>4
  <2>9. Cong(Pow(a, j - i, p), 1, p)
    BY <1>4, <2>1, <2>7, <2>8, PowRepeats
  <2> QED BY <2>8, <2>9 DEF IsOrder
<1>5. \A i, j \in I : f[i] = f[j] => i = j
  <2> TAKE i, j \in I
  <2> HAVE f[i] = f[j]
  <2>1. (Pow(a, i, p) * x) % p = (Pow(a, j, p) * x) % p
    OBVIOUS
  <2>2. ~(i < j) /\ ~(j < i)
    BY <1>4, <2>1
  <2> QED BY <1>2, <2>2
<1>6. f \in [I -> H]
  BY DEF Orbit
<1>7. \A h \in H : \E i \in I : f[i] = h
  BY DEF Orbit
<1>8. IsFiniteSet(I) /\ Cardinality(I) = k
  <2>1. 0 \in Int /\ k - 1 \in Int /\ ~(0 > k - 1) /\ (k - 1) - 0 + 1 = k
    BY <1>1
  <2>2. IsFiniteSet(0 .. k - 1) /\ Cardinality(0 .. k - 1) = (IF 0 > k - 1 THEN 0 ELSE (k - 1) - 0 + 1)
    BY <2>1, FS_Interval, Zenon
  <2> QED BY <2>1, <2>2
<1>. HIDE DEF H, I, f
<1>9. f \in Bijection(I, H)
  BY <1>5, <1>6, <1>7, Zenon DEF Bijection, Injection, Surjection, IsInjective
<1>10. ExistsBijection(I, H)
  BY <1>9 DEF ExistsBijection
<1>11. IsFiniteSet(H) /\ Cardinality(H) = k
  BY <1>8, <1>10, FS_Bijection
<1> QED BY <1>11 DEF H

\* What is left of a closed set without an orbit is closed.
LEMMA RestClosed ==
  ASSUME NEW p \in Int, IsPrime(p), NEW a \in Int, ~Divides(p, a), NEW k, IsOrder(k, a, p),
         NEW X, IsClosed(X, a, p), NEW x \in X
  PROVE  IsClosed(X \ Orbit(x, k, a, p), a, p)
<1>1. p \in Nat \ {0} /\ p > 1 /\ k \in Nat \ {0}
  BY DEF IsPrime, IsOrder
<1>2. X \subseteq 1 .. p - 1 /\ \A y \in X : y \in Int /\ y \in 0 .. p - 1
  BY <1>1 DEF IsClosed
<1>3. ASSUME NEW y \in X, NEW i \in Nat, i < k, (a * y) % p = (Pow(a, i, p) * x) % p
      PROVE  y \in Orbit(x, k, a, p)
  \* The power before.
  <2>1. PICK j \in 0 .. k - 1 : Cong(Pow(a, i, p), a * Pow(a, j, p), p)
    <3>1. CASE i = 0
      <4>1. k - 1 \in Nat /\ (k - 1) + 1 = k /\ k - 1 \in 0 .. k - 1
        BY <1>1
      <4>2. PICK u, v, w : u = Pow(a, i, p) /\ v = Pow(a, k - 1, p) /\ w = Pow(a, k, p)
        OBVIOUS
      <4>3. u \in Int /\ v \in Int /\ w \in Int
        BY <1>1, <1>3, <4>1, <4>2, PowRange
      <4>4. Cong(u, 1, p)
        BY <1>1, <3>1, <4>2, PowZero
      <4>5. Cong(w, 1, p)
        BY <4>2 DEF IsOrder
      <4>6. Cong(Pow(a, (k - 1) + 1, p), a * Pow(a, k - 1, p), p)
        BY <1>1, <4>1, PowNext
      <4>7. Cong(w, a * v, p) /\ a * v \in Int
        BY <4>1, <4>2, <4>3, <4>6
      <4>8. Cong(1, w, p)
        BY <4>3, <4>5, CongSym
      <4>9. Cong(u, w, p)
        BY <4>3, <4>4, <4>8, CongTrans
      <4>10. Cong(u, a * v, p)
        BY <4>3, <4>7, <4>9, CongTrans
      <4> QED BY <4>1, <4>2, <4>10
    <3>2. CASE i # 0
      <4>1. i - 1 \in Nat /\ (i - 1) + 1 = i /\ i - 1 \in 0 .. k - 1
        BY <1>1, <1>3, <3>2
      <4>2. Cong(Pow(a, (i - 1) + 1, p), a * Pow(a, i - 1, p), p)
        BY <1>1, <4>1, PowNext
      <4> QED BY <4>1, <4>2
    <3> QED BY <3>1, <3>2
  <2>2. PICK u, v : u = Pow(a, i, p) /\ v = Pow(a, j, p)
    OBVIOUS
  <2>3. u \in Int /\ v \in Int /\ x \in Int /\ y \in Int /\ Cong(x, x, p)
    <3>1. x \in Int /\ y \in Int
      BY <1>2, <1>3
    <3>2. j \in Nat
      BY <1>1
    <3> QED BY <1>1, <1>3, <2>2, <3>1, <3>2, PowRange, CongRefl
  <2>4. PICK s, t, r : s = a * y /\ t = u * x /\ r = v * x
    OBVIOUS
  <2>5. s \in Int /\ t \in Int /\ r \in Int /\ s % p = t % p /\ a * v \in Int
    BY <1>3, <2>2, <2>3, <2>4
  <2>6. Cong(s, t, p)
    BY <1>1, <2>5, CongSameMod, Zenon
  <2>7. Cong(t, (a * v) * x, p)
    BY <2>1, <2>2, <2>3, <2>4, <2>5, CongMul
  <2>8. (a * v) * x = a * r /\ a * r \in Int
    BY <2>3, <2>4
  <2>9. Cong(a * y, a * r, p)
    BY <2>4, <2>5, <2>6, <2>7, <2>8, CongTrans
  <2>10. Cong(y, r, p)
    BY <2>3, <2>5, <2>9, Cancel
  <2>11. PICK z : z = r % p
    OBVIOUS
  <2>12. z \in 0 .. p - 1 /\ z \in Int /\ Cong(z, r, p)
    BY <1>1, <2>5, <2>11, ModRange, CongMod
  <2>13. Cong(r, z, p)
    BY <2>5, <2>12, CongSym
  <2>14. Cong(y, z, p)
    BY <2>3, <2>5, <2>10, <2>12, <2>13, CongTrans
  <2>15. y \in 0 .. p - 1
    BY <1>2, <1>3
  <2>16. y = z
    BY <1>1, <2>12, <2>14, <2>15, CongSmall
  <2> QED BY <2>2, <2>4, <2>11, <2>16 DEF Orbit
<1>4. \A y \in X : (a * y) % p \in X
  BY DEF IsClosed
<1>5. ASSUME NEW y \in X, (a * y) % p \in Orbit(x, k, a, p) PROVE y \in Orbit(x, k, a, p)
  <2>1. PICK i \in 0 .. k - 1 : (a * y) % p = (Pow(a, i, p) * x) % p
    BY <1>5 DEF Orbit
  <2>2. i \in Nat /\ i < k
    BY <1>1
  <2> QED BY <1>3, <2>1, <2>2
<1> QED BY <1>2, <1>4, <1>5, Zenon DEF IsClosed

\* The order divides the size of a closed set: it is made of orbits.
LEMMA OrderDividesClosed ==
  ASSUME NEW p \in Int, IsPrime(p), NEW a \in Int, ~Divides(p, a), NEW k, IsOrder(k, a, p),
         NEW X, IsClosed(X, a, p)
  PROVE  Divides(k, Cardinality(X))
<1>1. p \in Nat \ {0} /\ p > 1 /\ k \in Nat \ {0} /\ k \in Int
  BY DEF IsPrime, IsOrder
<1>2. ASSUME NEW Y, IsClosed(Y, a, p) PROVE IsFiniteSet(Y) /\ Cardinality(Y) \in Nat
  <2>1. Y \in SUBSET (1 .. p - 1)
    BY <1>2 DEF IsClosed
  <2>2. IsFiniteSet(1 .. p - 1)
    BY <1>1, FS_Interval
  <2>3. IsFiniteSet(Y)
    BY <2>1, <2>2, FS_Subset
  <2> QED BY <2>3, FS_CardinalityType
<1> DEFINE T == {n \in Nat : \A Y : IsClosed(Y, a, p) /\ Cardinality(Y) = n => Divides(k, n)}
<1>3. ASSUME NEW n \in Nat, \A j \in 0 .. n - 1 : j \in T PROVE n \in T
  <2>1. ASSUME NEW Y, IsClosed(Y, a, p), Cardinality(Y) = n PROVE Divides(k, n)
    <3>1. CASE Y = {}
      <4>1. n = 0
        BY <2>1, <3>1, FS_EmptySet
      <4>2. Cong(0, 0, k)
        BY <1>1, CongRefl
      <4> QED BY <4>1, <4>2 DEF Divides
    <3>2. CASE Y # {}
      <4>1. PICK x : x \in Y
        BY <3>2
      <4>2. PICK H : H = Orbit(x, k, a, p)
        OBVIOUS
      <4>3. x \in 1 .. p - 1
        BY <2>1, <4>1 DEF IsClosed
      <4>4. IsFiniteSet(H) /\ Cardinality(H) = k
        BY <4>2, <4>3, OrbitSize
      <4>5. H \subseteq Y
        <5>1. ASSUME NEW i \in 0 .. k - 1 PROVE (Pow(a, i, p) * x) % p \in Y
          <6>1. i \in Nat
            BY <1>1
          <6> QED BY <2>1, <4>1, <6>1, OrbitInside
        <5> QED BY <4>2, <5>1 DEF Orbit
      <4>6. Y \cap H = H
        BY <4>5
      <4>7. Cardinality(Y \ H) = n - k
        <5>1. Cardinality(Y \ H) = Cardinality(Y) - Cardinality(Y \cap H)
          BY <1>2, <2>1, FS_Difference
        <5> QED BY <2>1, <4>4, <4>6, <5>1
      <4>8. IsClosed(Y \ H, a, p)
        BY <2>1, <4>1, <4>2, RestClosed
      <4>9. Cardinality(Y \ H) \in Nat
        BY <1>2, <4>8
      <4>10. n - k \in 0 .. n - 1
        BY <1>1, <4>7, <4>9
      <4>11. Divides(k, n - k)
        BY <1>3, <4>7, <4>8, <4>10
      <4>12. PICK i \in Int : n - k = 0 + i * k
        BY <4>11 DEF Divides, Cong
      <4>13. n = 0 + (i + 1) * k /\ i + 1 \in Int
        BY <1>1, <4>12
      <4> QED BY <4>13, Zenon DEF Divides, Cong
    <3> QED BY <3>1, <3>2
  <2> QED BY <1>3, <2>1
<1>. HIDE DEF T
<1>4. \A n \in Nat : n \in T
  BY <1>3, SmallerFirst
<1>5. Cardinality(X) \in T
  BY <1>2, <1>4
<1> QED BY <1>5 DEF T

\* Fermat's little theorem.
LEMMA Fermat ==
  ASSUME NEW p \in Int, IsPrime(p), NEW a \in Int, ~Divides(p, a)
  PROVE  Cong(Pow(a, p - 1, p), 1, p)
<1>1. p \in Nat \ {0} /\ p > 1 /\ p - 1 \in Nat
  BY DEF IsPrime
<1>2. PICK k : IsOrder(k, a, p)
  BY OrderExists
<1>3. k \in Nat \ {0} /\ k \in Int
  BY <1>2 DEF IsOrder
<1>4. IsClosed(1 .. p - 1, a, p)
  <2>1. ASSUME NEW x \in 1 .. p - 1 PROVE (a * x) % p \in 1 .. p - 1
    <3>1. x \in Int /\ a * x \in Int
      OBVIOUS
    <3>2. (a * x) % p \in 0 .. p - 1
      BY <1>1, <3>1, ModRange
    <3>3. ASSUME (a * x) % p = 0 PROVE FALSE
      <4>1. Divides(p, a * x)
        BY <1>1, <3>1, <3>3, DividesMod
      <4>2. Divides(p, x)
        BY <3>1, <4>1, Euclid
      <4>3. x % p = 0
        BY <1>1, <3>1, <4>2, DividesMod
      <4>4. x \in 0 .. p - 1 /\ 0 \in Int /\ x = p * 0 + x
        BY <1>1
      <4>5. x % p = x
        BY <1>1, <3>1, <4>4, OneRemainder, Zenon
      <4> QED BY <4>3, <4>5
    <3> QED BY <3>2, <3>3
  <2> QED BY <2>1 DEF IsClosed
<1>5. Cardinality(1 .. p - 1) = p - 1
  BY <1>1, FS_Interval
<1>6. Divides(k, p - 1)
  BY <1>2, <1>4, <1>5, OrderDividesClosed
<1>7. PICK s \in Int : p - 1 = 0 + s * k
  BY <1>6 DEF Divides, Cong
<1>8. s \in Nat /\ p - 1 = k * s
  <2>1. s < 0 => s * k < 0
    BY <1>3
  <2> QED BY <1>1, <1>3, <1>7, <2>1
<1>9. PICK x, y, z : x = Pow(a, k, p) /\ y = Pow(x, s, p) /\ z = Pow(a, k * s, p)
  OBVIOUS
<1>10. x \in Int /\ Cong(x, 1, p)
  BY <1>1, <1>2, <1>3, <1>9, PowRange DEF IsOrder
<1>11. y \in Int /\ z \in Int /\ Cong(z, y, p)
  <2>1. k \in Nat /\ k * s \in Nat
    BY <1>3, <1>8
  <2> QED BY <1>1, <1>8, <1>9, <1>10, <2>1, PowRange, PowTimes
<1>12. PICK w : w = Pow(1, s, p)
  OBVIOUS
<1>13. w \in Int /\ Cong(w, 1, p)
  BY <1>1, <1>8, <1>12, PowRange, PowOne
<1>14. Cong(y, w, p)
  <2>1. p = 1 * p /\ 1 \in Nat /\ 1 \in Int
    BY <1>1
  <2> QED BY <1>1, <1>8, <1>9, <1>10, <1>12, <2>1, PowCong
<1>15. Cong(y, 1, p)
  BY <1>11, <1>13, <1>14, CongTrans
<1>16. Cong(z, 1, p)
  BY <1>11, <1>15, CongTrans
<1> QED BY <1>8, <1>9, <1>16

LEMMA PowFirst ==
  ASSUME NEW a \in Int, NEW m \in Nat \ {0}
  PROVE  Cong(Pow(a, 1, m), a, m)
<1>1. PICK x, y : x = Pow(a, 0, m) /\ y = Pow(a, 1, m)
  OBVIOUS
<1>2. x \in Int /\ y \in Int /\ Cong(x, 1, m) /\ m \in Int
  BY <1>1, PowRange, PowZero
<1>3. Cong(Pow(a, 0 + 1, m), a * Pow(a, 0, m), m) /\ 0 + 1 = 1
  BY PowNext
<1>4. Cong(y, a * x, m) /\ Cong(a, a, m) /\ a * 1 = a /\ a * x \in Int
  BY <1>1, <1>2, <1>3, CongRefl
<1>5. Cong(a * x, a * 1, m)
  BY <1>2, <1>4, CongMul
<1>6. Cong(y, a, m)
  BY <1>2, <1>4, <1>5, CongTrans
<1> QED BY <1>1, <1>6

\* Exponents count modulo p - 1, all that are not zero.
LEMMA PowExponent ==
  ASSUME NEW p \in Int, IsPrime(p), NEW a \in Int, NEW i \in Nat \ {0}, NEW s \in Nat
  PROVE  Cong(Pow(a, i + (p - 1) * s, p), Pow(a, i, p), p)
<1>1. p \in Nat \ {0} /\ p > 1 /\ p - 1 \in Nat
  BY DEF IsPrime
<1>2. (p - 1) * s \in Nat
  BY <1>1
<1>3. PICK t : t = (p - 1) * s
  OBVIOUS
<1>4. t \in Nat /\ i + t \in Nat \ {0} /\ i \in Nat
  BY <1>2, <1>3
<1>5. CASE Divides(p, a)
  <2>1. ASSUME NEW j \in Nat \ {0} PROVE Cong(Pow(a, j, p), 0, p)
    <3>1. j - 1 \in Nat /\ (j - 1) + 1 = j
      OBVIOUS
    <3>2. PICK x, y : x = Pow(a, j - 1, p) /\ y = Pow(a, j, p)
      OBVIOUS
    <3>3. x \in Int /\ y \in Int /\ Cong(x, x, p)
      BY <1>1, <3>1, <3>2, PowRange, CongRefl
    <3>4. Cong(Pow(a, (j - 1) + 1, p), a * Pow(a, j - 1, p), p)
      BY <1>1, <3>1, PowNext
    <3>5. Cong(y, a * x, p)
      BY <3>1, <3>2, <3>4
    <3>6. Cong(a, 0, p) /\ 0 * x = 0 /\ a * x \in Int
      BY <1>5, <3>3 DEF Divides
    <3>7. Cong(a * x, 0 * x, p)
      BY <3>3, <3>6, CongMul
    <3>8. Cong(y, 0, p)
      BY <3>3, <3>5, <3>6, <3>7, CongTrans
    <3> QED BY <3>2, <3>8
  <2>2. PICK x, y : x = Pow(a, i + t, p) /\ y = Pow(a, i, p)
    OBVIOUS
  <2>3. x \in Int /\ y \in Int /\ Cong(x, 0, p) /\ Cong(y, 0, p)
    BY <1>1, <1>4, <2>1, <2>2, PowRange
  <2>4. Cong(0, y, p)
    BY <2>3, CongSym
  <2>5. Cong(x, y, p)
    BY <2>3, <2>4, CongTrans
  <2> QED BY <1>3, <2>2, <2>5
<1>6. CASE ~Divides(p, a)
  <2>1. PICK f : f = Pow(a, p - 1, p)
    OBVIOUS
  <2>2. f \in Int /\ Cong(f, 1, p)
    BY <1>1, <1>6, <2>1, PowRange, Fermat
  <2>3. PICK g, h, o : g = Pow(a, t, p) /\ h = Pow(f, s, p) /\ o = Pow(1, s, p)
    OBVIOUS
  <2>4. g \in Int /\ h \in Int /\ o \in Int /\ Cong(o, 1, p)
    BY <1>1, <1>4, <2>2, <2>3, PowRange, PowOne
  <2>5. Cong(g, h, p)
    BY <1>1, <1>3, <2>1, <2>3, PowTimes
  <2>6. Cong(h, o, p)
    <3>1. p = 1 * p /\ 1 \in Nat /\ 1 \in Int
      BY <1>1
    <3> QED BY <1>1, <2>2, <2>3, <3>1, PowCong
  <2>7. Cong(h, 1, p)
    BY <2>4, <2>6, CongTrans
  <2>8. Cong(g, 1, p)
    BY <2>4, <2>5, <2>7, CongTrans
  <2>9. PICK x, y : x = Pow(a, i + t, p) /\ y = Pow(a, i, p)
    OBVIOUS
  <2>10. x \in Int /\ y \in Int /\ Cong(x, y * g, p) /\ Cong(y, y, p)
    BY <1>1, <1>4, <2>3, <2>9, PowRange, PowAdd, CongRefl
  <2>11. Cong(y * g, y * 1, p) /\ y * g \in Int /\ y * 1 = y
    BY <2>4, <2>8, <2>10, CongMul
  <2>12. Cong(x, y, p)
    BY <2>10, <2>11, CongTrans
  <2> QED BY <1>3, <2>9, <2>12
<1> QED BY <1>5, <1>6

\* e and d undo one another in exponents modulo a prime.
LEMMA Undone ==
  ASSUME NEW p \in Int, IsPrime(p), NEW a \in Int, NEW e \in Nat, NEW d \in Nat, NEW w \in Nat,
         e * d = 1 + (p - 1) * w
  PROVE  Cong(Pow(Pow(a, e, p), d, p), a, p)
<1>1. p \in Nat \ {0} /\ p > 1
  BY DEF IsPrime
<1>2. PICK u, v, x, y : u = Pow(a, e, p) /\ v = Pow(u, d, p) /\ x = Pow(a, e * d, p) /\ y = Pow(a, 1, p)
  OBVIOUS
<1>3. e * d \in Nat
  OBVIOUS
<1>4. u \in Int /\ v \in Int /\ x \in Int /\ y \in Int
  <2>1. u \in Int
    BY <1>1, <1>2, PowRange
  <2> QED BY <1>1, <1>2, <1>3, <2>1, PowRange
<1>5. Cong(x, v, p)
  BY <1>1, <1>2, PowTimes
<1>6. Cong(x, y, p)
  <2>1. Cong(Pow(a, 1 + (p - 1) * w, p), Pow(a, 1, p), p)
    <3>1. 1 \in Nat \ {0}
      OBVIOUS
    <3> QED BY <3>1, PowExponent
  <2> QED BY <1>2, <2>1
<1>7. Cong(y, a, p)
  BY <1>1, <1>2, PowFirst
<1>8. Cong(v, x, p)
  BY <1>4, <1>5, CongSym
<1>9. Cong(v, y, p)
  BY <1>4, <1>6, <1>8, CongTrans
<1>10. Cong(v, a, p)
  BY <1>4, <1>7, <1>9, CongTrans
<1> QED BY <1>2, <1>10

\* One half of the private operation is the root of its blinded input; x is the exponent of the half.
LEMMA HalfRoot ==
  ASSUME NEW p \in Int, IsPrime(p), p > 2, NEW n \in Nat \ {0}, NEW k \in Nat, n = k * p,
         NEW c \in Int, NEW r \in Int, NEW e \in Nat, NEW d \in Nat, NEW w \in Nat,
         e * d = 1 + (p - 1) * w
  PROVE  Cong(Pow(((c * Pow(r, e, n)) % n) % p, d % (p - 1), p), Pow(c, d, n) * r, p)
<1>1. p \in Nat \ {0} /\ p > 2 /\ p - 1 \in Nat \ {0} /\ n \in Int /\ p = 1 * p /\ 1 \in Nat
  OBVIOUS
<1>2. PICK x, s : x = d % (p - 1) /\ s = d \div (p - 1)
  OBVIOUS
<1>3. x \in Nat /\ s \in Nat /\ d = x + (p - 1) * s
  <2>1. \A a \in Nat, m \in Nat \ {0} : a % m \in Nat /\ a \div m \in Nat /\ a = (a % m) + m * (a \div m)
    OBVIOUS
  <2> QED BY <1>1, <1>2, <2>1, Zenon
<1>4. x # 0
  <2>1. ASSUME x = 0 PROVE FALSE
    <3>1. d = (p - 1) * s
      BY <1>1, <1>3, <2>1
    <3>2. e * d = (p - 1) * (e * s)
      BY <1>1, <1>3, <3>1
    <3>3. PICK q, t : q = p - 1 /\ t = e * s - w
      OBVIOUS
    <3>4. q \in Int /\ q > 1 /\ t \in Int
      BY <1>1, <1>3, <3>3
    <3>5. q * t = q * (e * s) - q * w
      BY <1>3, <3>3, <3>4
    <3>6. q * t = 1
      <4>1. PICK f, g : f = q * (e * s) /\ g = q * w
        OBVIOUS
      <4>2. f \in Int /\ g \in Int
        BY <1>3, <3>4, <4>1
      <4>3. f = 1 + g
        BY <3>2, <3>3, <4>1
      <4> QED BY <3>5, <4>1, <4>2, <4>3
    <3>7. t > 0 => q * t >= q
      BY <3>4
    <3>8. t <= 0 => q * t <= 0
      BY <3>4
    <3> QED BY <3>4, <3>6, <3>7, <3>8
  <2> QED BY <2>1
<1>5. PICK re : re = Pow(r, e, n)
  OBVIOUS
<1>6. re \in Int /\ c * re \in Int
  <2>1. re \in Int
    BY <1>5, PowRange
  <2> QED BY <2>1
<1>7. PICK b, h : b = (c * re) % n /\ h = b % p
  OBVIOUS
<1>8. b \in Int /\ h \in Int /\ Cong(b, c * re, n) /\ Cong(h, b, p)
  <2>1. b \in Int /\ Cong(b, c * re, n)
    BY <1>6, <1>7, ModRange, CongMod
  <2> QED BY <1>1, <1>7, <2>1, ModRange, CongMod
<1>9. Cong(h, c * re, p)
  <2>1. Cong(b, c * re, p)
    <3>1. k \in Int /\ Cong(b, c * re, k * p)
      BY <1>8
    <3> QED BY <1>6, <1>8, <3>1, CongFactor, Zenon
  <2> QED BY <1>6, <1>8, <2>1, CongTrans
<1>10. PICK hx, hd, cR, cp, Rp, rp, rpd, cn :
         /\ hx = Pow(h, x, p) /\ hd = Pow(h, d, p) /\ cR = Pow(c * re, d, p) /\ cp = Pow(c, d, p)
         /\ Rp = Pow(re, d, p) /\ rp = Pow(r, e, p) /\ rpd = Pow(rp, d, p) /\ cn = Pow(c, d, n)
  OBVIOUS
<1>11. /\ hx \in Int /\ hd \in Int /\ cR \in Int /\ cp \in Int
       /\ Rp \in Int /\ rp \in Int /\ rpd \in Int /\ cn \in Int
  <2>1. rp \in Int
    BY <1>1, <1>10, PowRange
  <2>2. hx \in Int /\ hd \in Int /\ cp \in Int /\ Rp \in Int /\ rpd \in Int /\ cn \in Int
    BY <1>1, <1>3, <1>6, <1>8, <1>10, <2>1, PowRange
  <2>3. cR \in Int
    BY <1>1, <1>6, <1>10, PowRange
  <2> QED BY <2>1, <2>2, <2>3
<1>12. Cong(hd, hx, p)
  <2>1. Cong(Pow(h, x + (p - 1) * s, p), Pow(h, x, p), p)
    BY <1>3, <1>4, <1>8, PowExponent
  <2> QED BY <1>3, <1>10, <2>1
<1>13. Cong(hd, cR, p)
  BY <1>1, <1>6, <1>8, <1>9, <1>10, PowCong
<1>14. Cong(cR, cp * Rp, p)
  BY <1>1, <1>6, <1>10, PowProduct
<1>15. Cong(cn, cp, p)
  BY <1>1, <1>10, CongRefl, PowCong
<1>16. Cong(re, rp, p)
  BY <1>1, <1>5, <1>10, CongRefl, PowCong
<1>17. Cong(Rp, rpd, p)
  BY <1>1, <1>6, <1>10, <1>11, <1>16, PowCong
<1>18. Cong(rpd, r, p)
  BY <1>10, Undone
<1>19. Cong(Rp, r, p)
  BY <1>11, <1>17, <1>18, CongTrans
<1>20. Cong(cp, cn, p)
  BY <1>11, <1>15, CongSym
<1>21. Cong(cp * Rp, cn * r, p) /\ cp * Rp \in Int /\ cn * r \in Int
  BY <1>11, <1>19, <1>20, CongMul
<1>22. Cong(hx, hd, p)
  BY <1>11, <1>12, CongSym
<1>23. Cong(hx, cR, p)
  BY <1>11, <1>13, <1>22, CongTrans
<1>24. Cong(hx, cp * Rp, p)
  BY <1>11, <1>14, <1>21, <1>23, CongTrans
<1>25. Cong(hx, cn * r, p)
  BY <1>11, <1>21, <1>24, CongTrans
<1> QED BY <1>2, <1>5, <1>7, <1>10, <1>25

LEMMA ExactQuotient ==
  \A a \in Int, m \in Nat \ {0} : (m * a) \div m = a
OBVIOUS

LEMMA LcmIs ==
  ASSUME NEW x \in Nat \ {0}, NEW y \in Nat \ {0}
  PROVE  /\ \E i \in Nat \ {0}, j \in Nat \ {0} : Lcm(x, y) = x * j /\ Lcm(x, y) = y * i
         /\ Gcd(x, y) \in Nat /\ x * y = Gcd(x, y) * Lcm(x, y)
<1>1. PICK g : g = Gcd(x, y)
  OBVIOUS
<1>2. x \in Int /\ g \in 1 .. y /\ x % g = 0 /\ y % g = 0
  BY <1>1, GcdIs
<1>3. g \in Nat \ {0}
  BY <1>2
<1>4. PICK i, j : i = x \div g /\ j = y \div g
  OBVIOUS
<1>5. \A a \in Nat, m \in Nat \ {0} : a % m \in Nat /\ a \div m \in Nat /\ a = (a % m) + m * (a \div m)
  OBVIOUS
<1>6. i \in Nat /\ x = 0 + g * i /\ j \in Nat /\ y = 0 + g * j
  BY <1>2, <1>3, <1>4, <1>5
<1>7. x = g * i /\ y = g * j /\ i # 0 /\ j # 0
  BY <1>3, <1>6
<1>8. x * y = g * (x * j) /\ x * y = g * (y * i) /\ x * j \in Int /\ y * i \in Int
  <2>1. x * y = x * (g * j) /\ x * y = (g * i) * y
    BY <1>7
  <2>2. x * (g * j) = g * (x * j) /\ (g * i) * y = g * (y * i)
    BY <1>3, <1>6
  <2> QED BY <1>6, <2>1, <2>2
<1>9. (x * y) \div g = x * j /\ (x * y) \div g = y * i
  BY <1>3, <1>8, ExactQuotient, Zenon
<1>10. Lcm(x, y) = x * j /\ Lcm(x, y) = y * i
  BY <1>1, <1>9 DEF Lcm
<1>11. x * y = Gcd(x, y) * Lcm(x, y)
  BY <1>1, <1>8, <1>10
<1> QED BY <1>1, <1>3, <1>6, <1>7, <1>10, <1>11

\* z is 1 more than a multiple.
OneMore(z, x) == \E v \in Nat : z = 1 + x * v

\* What is 1 modulo the least common multiple is 1 modulo both numbers.
LEMMA LcmRemainder ==
  ASSUME NEW x \in Nat \ {0}, NEW y \in Nat \ {0}, NEW z \in Nat, z % Lcm(x, y) = 1
  PROVE  OneMore(z, x) /\ OneMore(z, y)
<1>1. PICK i \in Nat \ {0}, j \in Nat \ {0} : Lcm(x, y) = x * j /\ Lcm(x, y) = y * i
  BY LcmIs
<1>2. PICK l : l = Lcm(x, y)
  OBVIOUS
<1>3. l = x * j /\ l = y * i /\ l \in Nat \ {0}
  BY <1>1, <1>2
<1>4. PICK t : t = z \div l
  OBVIOUS
<1>5. \A a \in Nat, m \in Nat \ {0} : a % m \in Nat /\ a \div m \in Nat /\ a = (a % m) + m * (a \div m)
  OBVIOUS
<1>6. z \in Nat /\ z % l = 1
  BY <1>2
<1>7. t \in Nat /\ z = 1 + l * t
  BY <1>3, <1>4, <1>5, <1>6
<1>8. l * t = x * (j * t) /\ l * t = y * (i * t) /\ j * t \in Nat /\ i * t \in Nat
  <2>1. l * t = (x * j) * t /\ l * t = (y * i) * t
    BY <1>3
  <2>2. (x * j) * t = x * (j * t) /\ (y * i) * t = y * (i * t)
    BY <1>1, <1>7
  <2> QED BY <1>1, <1>7, <2>1, <2>2
<1> QED BY <1>7, <1>8 DEF OneMore

\* The Chinese remainder theorem of the code: m2 + h * q has both of the remainders.
LEMMA Recombined ==
  ASSUME NEW p \in Nat \ {0}, NEW q \in Nat \ {0}, NEW u \in Int, Cong(u * q, 1, p), NEW a \in Int, NEW b \in Int
  PROVE  /\ Cong(b + ((u * (a - b)) % p) * q, a, p)
         /\ Cong(b + ((u * (a - b)) % p) * q, b, q)
         /\ (u * (a - b)) % p \in Int
<1>1. PICK t : t = u * (a - b)
  OBVIOUS
<1>2. t \in Int /\ p \in Int /\ q \in Int
  BY <1>1
<1>3. PICK h : h = t % p
  OBVIOUS
<1>4. h \in Int /\ Cong(h, t, p)
  BY <1>2, <1>3, ModRange, CongMod
<1>5. Cong(b + h * q, b, q)
  BY <1>2, <1>4 DEF Cong
<1>6. h * q \in Int /\ t * q \in Int /\ (u * q) * (a - b) \in Int /\ t * q = (u * q) * (a - b)
      /\ a - b \in Int /\ u * q \in Int /\ 1 * (a - b) = a - b
  BY <1>1, <1>2, <1>4
<1>7. Cong(q, q, p) /\ Cong(b, b, p) /\ Cong(a - b, a - b, p)
  BY <1>2, <1>6, CongRefl
<1>8. Cong(h * q, t * q, p)
  BY <1>2, <1>4, <1>7, CongMul
<1>9. Cong((u * q) * (a - b), 1 * (a - b), p)
  BY <1>2, <1>6, <1>7, CongMul
<1>10. Cong(h * q, a - b, p)
  BY <1>2, <1>6, <1>8, <1>9, CongTrans
<1>11. Cong(b + h * q, b + (a - b), p)
  BY <1>2, <1>6, <1>7, <1>10, CongAdd
<1>12. b + (a - b) = a
  OBVIOUS
<1> QED BY <1>1, <1>3, <1>4, <1>5, <1>11, <1>12

\* The numbers of a key of primes, u being the inverse of q.
PrimeKey(p, q, n, e, d, u) ==
  /\ p \in Int /\ IsPrime(p) /\ p > 2 /\ q \in Int /\ IsPrime(q) /\ q > 2 /\ n = p * q
  /\ e \in Nat /\ d \in Nat /\ OneMore(e * d, p - 1) /\ OneMore(e * d, q - 1)
  /\ u \in Int /\ Cong(u * q, 1, p)

\* The steps of the private operation without a fault, i being the inverse of the blinding.
Computed(p, q, n, e, d, u, c, r, i, b, m1, m2, m) ==
  /\ b = (c * Pow(r, e, n)) % n
  /\ m1 = Pow(b % p, d % (p - 1), p) /\ m2 = (Pow(b % q, d % (q - 1), q) + 0) % q
  /\ m = (((m2 + ((u * (m1 - m2)) % p) * q) % n) * i) % n

\* They give the root of c.
LEMMA PrivateRoot ==
  ASSUME NEW p, NEW q, NEW n, NEW e, NEW d, NEW u, PrimeKey(p, q, n, e, d, u),
         NEW c \in Int, NEW r \in Int, NEW i \in Int, Cong(r * i, 1, n),
         NEW b, NEW m1, NEW m2, NEW m, Computed(p, q, n, e, d, u, c, r, i, b, m1, m2, m)
  PROVE  m = Pow(c, d, n) /\ Cong(Pow(m, e, n), c, n)
<1>36. /\ p \in Int /\ IsPrime(p) /\ p > 2 /\ q \in Int /\ IsPrime(q) /\ q > 2 /\ n = p * q
      /\ e \in Nat /\ d \in Nat /\ u \in Int /\ Cong(u * q, 1, p)
  BY DEF PrimeKey
<1>37. PICK v \in Nat, w \in Nat : e * d = 1 + (p - 1) * v /\ e * d = 1 + (q - 1) * w
  BY DEF PrimeKey, OneMore
<1>38. /\ b = (c * Pow(r, e, n)) % n
       /\ m1 = Pow(b % p, d % (p - 1), p) /\ m2 = (Pow(b % q, d % (q - 1), q) + 0) % q
       /\ m = (((m2 + ((u * (m1 - m2)) % p) * q) % n) * i) % n
  BY DEF Computed
<1>. USE <1>36, <1>37, <1>38
<1>1. /\ p \in Nat \ {0} /\ q \in Nat \ {0} /\ n \in Nat \ {0} /\ n \in Int /\ n = p * q /\ n = q * p
      /\ p - 1 \in Nat \ {0} /\ q - 1 \in Nat \ {0} /\ p \in Nat /\ q \in Nat
  BY <1>36
<1>2. PICK o : o = Pow(c, d, n)
  OBVIOUS
<1>3. o \in Int /\ o \in 0 .. n - 1 /\ o * r \in Int
  <2>1. o \in Int /\ o \in 0 .. n - 1
    BY <1>1, <1>2, PowRange
  <2> QED BY <2>1
<1>4. PICK re : re = Pow(r, e, n)
  OBVIOUS
<1>5. re \in Int /\ c * re \in Int
  <2>1. re \in Int
    BY <1>1, <1>4, PowRange
  <2> QED BY <2>1
<1>6. b \in Int
  BY <1>1, <1>4, <1>5, ModRange
<1>7. Cong(m1, o * r, p)
  BY <1>1, <1>2, HalfRoot
<1>8. m1 \in Int
  <2>1. b % p \in Int /\ d % (p - 1) \in Nat
    BY <1>1, <1>6
  <2> QED BY <1>1, <2>1, PowRange
<1>9. PICK f : f = Pow(b % q, d % (q - 1), q)
  OBVIOUS
<1>10. f \in Int /\ f + 0 = f
  <2>1. b % q \in Int /\ d % (q - 1) \in Nat
    BY <1>1, <1>6
  <2>2. f \in Int
    BY <1>1, <1>9, <2>1, PowRange
  <2> QED BY <2>2
<1>11. Cong(f, o * r, q)
  BY <1>1, <1>2, <1>9, HalfRoot
<1>12. m2 = f % q
  BY <1>9, <1>10
<1>13. m2 \in Int /\ Cong(m2, f, q)
  BY <1>1, <1>10, <1>12, ModRange, CongMod
<1>14. Cong(m2, o * r, q)
  BY <1>3, <1>10, <1>11, <1>13, CongTrans
<1>15. PICK h, x : h = (u * (m1 - m2)) % p /\ x = m2 + h * q
  OBVIOUS
<1>16. Cong(x, m1, p) /\ Cong(x, m2, q) /\ h \in Int
  BY <1>1, <1>8, <1>13, <1>15, Recombined
<1>17. x \in Int
  <2>1. h * q \in Int
    BY <1>16
  <2> QED BY <1>13, <1>15, <2>1
<1>18. Cong(x, o * r, p) /\ Cong(x, o * r, q)
  BY <1>3, <1>7, <1>8, <1>13, <1>14, <1>16, <1>17, CongTrans
<1>19. Cong(x, o * r, n)
  <2>1. Cong(x, o * r, p * q)
    BY <1>3, <1>17, <1>18, CongBoth
  <2> QED BY <1>1, <2>1
<1>20. PICK y : y = x % n
  OBVIOUS
<1>21. y \in Int /\ Cong(y, x, n)
  BY <1>1, <1>17, <1>20, ModRange, CongMod
<1>22. Cong(y, o * r, n)
  BY <1>1, <1>3, <1>17, <1>19, <1>21, CongTrans
<1>23. m = (y * i) % n
  BY <1>15, <1>20
<1>24. Cong(i, i, n) /\ Cong(o, o, n) /\ (o * r) * i = o * (r * i) /\ r * i \in Int /\ o * 1 = o
       /\ (o * r) * i \in Int /\ y * i \in Int
  BY <1>1, <1>3, <1>21, CongRefl
<1>25. Cong(m, (o * r) * i, n)
  <2>1. PICK z : z = o * r
    OBVIOUS
  <2>2. z \in Int /\ Cong(y, z, n)
    BY <1>3, <1>22, <2>1
  <2>3. Cong((y * i) % n, z * i, n)
    BY <1>1, <1>21, <1>24, <2>2, CongProduct, Zenon
  <2> QED BY <1>23, <2>1, <2>3
<1>26. Cong(o * (r * i), o * 1, n)
  BY <1>1, <1>3, <1>24, CongMul
<1>27. m \in 0 .. n - 1 /\ m \in Int
  BY <1>1, <1>23, <1>24, ModRange
<1>28. Cong(m, o, n)
  <2>1. PICK z : z = (o * r) * i
    OBVIOUS
  <2>2. z \in Int /\ Cong(m, z, n) /\ Cong(z, o, n)
    BY <1>24, <1>25, <1>26, <2>1
  <2> QED BY <1>1, <1>3, <1>27, <2>2, CongTrans
<1>29. m = o
  BY <1>1, <1>3, <1>27, <1>28, CongSmall
\* The check with the public exponent.
<1>30. PICK g : g = Pow(o, e, n)
  OBVIOUS
<1>31. g \in Int
  BY <1>1, <1>3, <1>30, PowRange
<1>32. ASSUME NEW z \in Int, IsPrime(z), z \in Nat \ {0}, NEW k \in Nat, n = k * z, NEW t \in Nat, d * e = 1 + (z - 1) * t
       PROVE  Cong(g, c, z)
  <2>1. PICK cz, gz : cz = Pow(c, d, z) /\ gz = Pow(cz, e, z)
    OBVIOUS
  <2>2. cz \in Int
    BY <1>32, <2>1, PowRange
  <2>3. gz \in Int
    BY <1>32, <2>1, <2>2, PowRange
  <2>4. Cong(o, cz, z)
    BY <1>1, <1>2, <1>32, <2>1, CongRefl, PowCong
  <2>5. Cong(g, gz, z)
    BY <1>1, <1>3, <1>30, <1>32, <2>1, <2>2, <2>4, PowCong
  <2>6. Cong(gz, c, z)
    BY <1>32, <2>1, Undone
  <2> QED BY <1>31, <2>3, <2>5, <2>6, CongTrans
<1>33. d * e = e * d
  OBVIOUS
<1>34. Cong(g, c, p) /\ Cong(g, c, q)
  BY <1>1, <1>32, <1>33
<1>35. Cong(g, c, n)
  <2>1. Cong(g, c, p * q)
    BY <1>31, <1>34, CongBoth
  <2> QED BY <1>1, <2>1
<1> QED BY <1>2, <1>29, <1>30, <1>35

-----------------------------------------------------------------------------
(* The keys and the private operation.                                       *)

KeyNumbers(k) ==
  /\ k.n \in Int /\ k.e \in Nat /\ k.d \in Nat /\ k.p \in Int /\ k.q \in Int /\ k.iqmp \in Int

\* A key that can be used: its numbers, which the constructor has checked.
UsableKey(k) == KeyNumbers(k) /\ CheckPrivate(k) = ""

LEMMA CheckedKey ==
  ASSUME NEW k, CheckPrivate(k) = ""
  PROVE  /\ PublicOk(k) /\ k.p * k.q = k.n /\ k.p # 1
         /\ k.dmp1 = k.d % (k.p - 1) /\ k.dmq1 = k.d % (k.q - 1)
         /\ (k.iqmp * k.q) % k.p = 1 /\ (k.e * k.d) % Lcm(k.p - 1, k.q - 1) = 1
BY Zenon DEF CheckPrivate

\* Odd numbers have odd factors.
LEMMA OddFactors ==
  ASSUME NEW p \in Int, NEW q \in Int, (p * q) % 2 = 1
  PROVE  p % 2 = 1 /\ q % 2 = 1
<1>1. ASSUME NEW a \in Int, NEW b \in Int, a % 2 # 1 PROVE (a * b) % 2 = 0
  <2>1. PICK k \in Int : a = 2 * k
    <3>1. a = 2 * (a \div 2) /\ a \div 2 \in Int
      BY <1>1
    <3> QED BY <3>1
  <2>2. a * b = 2 * (k * b) /\ k * b \in Int
    BY <2>1
  <2>3. PICK i, j : i = a * b /\ j = k * b
    OBVIOUS
  <2>4. j \in Int /\ i = 2 * j
    BY <2>2, <2>3
  <2>5. i % 2 = 0
    BY <2>4
  <2> QED BY <2>3, <2>5
<1>2. p * q = q * p
  OBVIOUS
<1>3. p % 2 # 1 => (p * q) % 2 = 0
  BY <1>1
<1>4. q % 2 # 1 => (q * p) % 2 = 0
  BY <1>1
<1> QED BY <1>2, <1>3, <1>4

\* Without a fault and with primes, the private operation returns the root.
LEMMA WithoutFault ==
  ASSUME NEW k, UsableKey(k), IsPrime(k.p), IsPrime(k.q), NEW c \in 0 .. k.n - 1,
         NEW r \in 2 .. k.n - 1, Gcd(r, k.n) = 1
  PROVE  PrivateOp(k, c, r, 0) = [m |-> Pow(c, k.d, k.n)]
<1>1. /\ k.p * k.q = k.n /\ k.dmp1 = k.d % (k.p - 1) /\ k.dmq1 = k.d % (k.q - 1)
      /\ (k.iqmp * k.q) % k.p = 1 /\ (k.e * k.d) % Lcm(k.p - 1, k.q - 1) = 1
      /\ k.n % 2 = 1
  BY CheckedKey, Zenon DEF UsableKey, PublicOk
<1>2. PICK n, e, d, p, q, u : n = k.n /\ e = k.e /\ d = k.d /\ p = k.p /\ q = k.q /\ u = k.iqmp
  OBVIOUS
<1>3. /\ n \in Int /\ e \in Nat /\ d \in Nat /\ p \in Int /\ q \in Int /\ u \in Int
      /\ IsPrime(p) /\ IsPrime(q) /\ c \in 0 .. n - 1 /\ r \in 2 .. n - 1 /\ Gcd(r, n) = 1
  BY <1>2, Zenon DEF UsableKey, KeyNumbers
<1>4. /\ n = p * q /\ k.dmp1 = d % (p - 1) /\ k.dmq1 = d % (q - 1)
      /\ (u * q) % p = 1 /\ (e * d) % Lcm(p - 1, q - 1) = 1 /\ n % 2 = 1
  BY <1>1, <1>2
<1>5. p > 1 /\ q > 1
  BY <1>3 DEF IsPrime
<1>6. p > 2 /\ q > 2
  <2>1. p % 2 = 1 /\ q % 2 = 1
    BY <1>3, <1>4, OddFactors
  <2> QED BY <1>3, <1>5, <2>1
<1>7. /\ p - 1 \in Nat \ {0} /\ q - 1 \in Nat \ {0} /\ n \in Nat \ {0} /\ p \in Nat \ {0}
      /\ c \in Int /\ r \in Int
  BY <1>3, <1>6
<1>8. OneMore(e * d, p - 1) /\ OneMore(e * d, q - 1)
  <2>1. PICK x, y, z : x = p - 1 /\ y = q - 1 /\ z = e * d
    OBVIOUS
  <2>2. x \in Nat \ {0} /\ y \in Nat \ {0} /\ z \in Nat /\ z % Lcm(x, y) = 1
    BY <1>3, <1>4, <1>7, <2>1
  <2>3. OneMore(z, x) /\ OneMore(z, y)
    BY <2>2, LcmRemainder
  <2> QED BY <2>1, <2>3
<1>9. Cong(u * q, 1, p)
  <2>1. PICK x : x = u * q
    OBVIOUS
  <2>2. x \in Int /\ x % p = 1 /\ 1 % p = 1 /\ 1 \in Int
    BY <1>3, <1>4, <1>6, <2>1
  <2>3. Cong(x, 1, p)
    BY <1>7, <2>2, CongSameMod
  <2> QED BY <2>1, <2>3
<1>10. PICK i : i = Inv(r, n)
  OBVIOUS
<1>11. i \in Int /\ Cong(r * i, 1, n)
  BY <1>3, <1>7, <1>10, CoprimeInvertible, InverseIs
<1>12. PICK b, m1, m2, m :
         /\ b = (c * Pow(r, e, n)) % n
         /\ m1 = Pow(b % p, d % (p - 1), p) /\ m2 = (Pow(b % q, d % (q - 1), q) + 0) % q
         /\ m = (((m2 + ((u * (m1 - m2)) % p) * q) % n) * i) % n
  OBVIOUS
<1>13. m = Pow(c, d, n) /\ Cong(Pow(m, e, n), c, n)
  <2>1. PrimeKey(p, q, n, e, d, u)
    BY <1>3, <1>4, <1>6, <1>8, <1>9 DEF PrimeKey
  <2>2. Computed(p, q, n, e, d, u, c, r, i, b, m1, m2, m)
    BY <1>12 DEF Computed
  <2> QED BY <1>7, <1>11, <2>1, <2>2, PrivateRoot, Zenon
<1>14. Released(k, m, c)
  <2>1. PICK g : g = Pow(m, e, n)
    OBVIOUS
  <2>2. m \in Int
    BY <1>3, <1>7, <1>13, PowRange
  <2>3. g \in 0 .. n - 1 /\ g \in Int
    BY <1>3, <1>7, <2>1, <2>2, PowRange
  <2>4. g % n = c % n
    BY <1>7, <1>13, <2>1, <2>3, CongSameMod
  <2>5. 0 \in Int /\ g = n * 0 + g
    BY <1>7, <2>3
  <2>6. g % n = g
    BY <1>7, <2>3, <2>5, OneRemainder, Zenon
  <2> QED BY <1>2, <2>1, <2>4, <2>6, Zenon DEF Released
<1>15. PrivateOp(k, c, r, 0) = IF Released(k, m, c) THEN [m |-> m] ELSE [raised |-> "PureCryptError"]
  BY <1>2, <1>4, <1>10, <1>12, Zenon DEF PrivateOp
<1> QED BY <1>2, <1>13, <1>14, <1>15

\* A key that is held has been checked.
RsaKeyChecked == rsa.stage = "key" /\ rsa.failed = "" => UsableKey(rsa.key)

LEMMA GeneratedOdd ==
  ASSUME NEW bits, NEW e, NEW c \in Generated(bits, e)
  PROVE  /\ c \in Int /\ c % 2 = 1 /\ Gcd(c - 1, e) = 1
         /\ 2 ^ (bits - 1) \in Int => c >= 2 ^ (bits - 1)
BY DEF Generated

\* KeyOf gives a key of numbers, or none.
LEMMA KeyOfNumbers ==
  ASSUME NEW p \in Int, NEW q \in Int, NEW e \in Nat
  PROVE  \/ KeyOf(p, q, e) = [raised |-> "ValueError"]
         \/ "raised" \notin DOMAIN KeyOf(p, q, e) /\ KeyNumbers(KeyOf(p, q, e))
<1>1. PICK k : k = KeyOf(p, q, e)
  OBVIOUS
<1>2. PICK l : l = Lcm(p - 1, q - 1)
  OBVIOUS
<1>3. ASSUME NEW x, NEW m, Invertible(x, m) PROVE Inv(x, m) \in Nat
  <2>1. Inv(x, m) \in 0 .. m - 1
    BY <1>3, Zenon DEF Invertible, Inv
  <2>2. \A y \in 0 .. m - 1 : y \in Nat
    OBVIOUS
  <2> QED BY <2>1, <2>2, Zenon
<1>4. CASE ~Invertible(e, l) \/ ~Invertible(q, p)
  BY <1>2, <1>4, Zenon DEF KeyOf
<1>5. CASE Invertible(e, l) /\ Invertible(q, p)
  <2>1. PICK d, u, dp, dq : d = Inv(e, l) /\ u = Inv(q, p) /\ dp = d % (p - 1) /\ dq = d % (q - 1)
    OBVIOUS
  <2>2. d \in Nat /\ u \in Nat
    BY <1>3, <1>5, <2>1, Zenon
  <2>3. k = [n |-> p * q, e |-> e, d |-> d, p |-> p, q |-> q, dmp1 |-> dp, dmq1 |-> dq, iqmp |-> u]
    BY <1>1, <1>2, <1>5, <2>1, Zenon DEF KeyOf
  <2>4. "raised" \notin DOMAIN k
    BY <2>3
  <2>5. k.n = p * q /\ k.e = e /\ k.d = d /\ k.p = p /\ k.q = q /\ k.iqmp = u
    BY <2>3
  <2>6. KeyNumbers(k)
    BY <2>2, <2>5 DEF KeyNumbers
  <2> QED BY <1>1, <2>4, <2>6
<1> QED BY <1>4, <1>5

RsaIInv == RsaKeyChecked /\ RsaReleases

LEMMA RsaInitHolds == RsaInit => RsaIInv
<1> SUFFICES ASSUME RsaInit PROVE RsaIInv
  OBVIOUS
<1>1. rsa.stage = "idle"
  BY DEF RsaInit
<1> QED BY <1>1 DEF RsaIInv, RsaKeyChecked, RsaReleases

LEMMA RsaStepHolds == RsaIInv /\ [RsaNext]_rsa => RsaIInv'
<1> SUFFICES ASSUME RsaIInv, [RsaNext]_rsa PROVE RsaIInv'
  OBVIOUS
<1>1. CASE RsaGenerate
  <2>1. PICK a \in RsaRequests :
          \E p \in Generated(a.bits \div 2, a.e), q \in Generated(a.bits - a.bits \div 2, a.e) :
            LET k == IF p < q THEN KeyOf(q, p, a.e) ELSE KeyOf(p, q, a.e)
            IN  rsa' = [stage |-> "key", bits |-> a.bits, primes |-> {p, q}, key |-> k,
                        failed |-> IF "raised" \in DOMAIN k THEN k.raised ELSE CheckPrivate(k)]
    BY <1>1, Zenon DEF RsaGenerate
  <2>2. PICK p \in Generated(a.bits \div 2, a.e), q \in Generated(a.bits - a.bits \div 2, a.e) :
          LET k == IF p < q THEN KeyOf(q, p, a.e) ELSE KeyOf(p, q, a.e)
          IN  rsa' = [stage |-> "key", bits |-> a.bits, primes |-> {p, q}, key |-> k,
                      failed |-> IF "raised" \in DOMAIN k THEN k.raised ELSE CheckPrivate(k)]
    BY <2>1, Zenon
  <2>3. PICK k : k = IF p < q THEN KeyOf(q, p, a.e) ELSE KeyOf(p, q, a.e)
    OBVIOUS
  <2>4. rsa' = [stage |-> "key", bits |-> a.bits, primes |-> {p, q}, key |-> k,
                failed |-> IF "raised" \in DOMAIN k THEN k.raised ELSE CheckPrivate(k)]
    BY <2>2, <2>3, Zenon
  <2>5. rsa'.stage = "key" /\ rsa'.key = k
        /\ rsa'.failed = IF "raised" \in DOMAIN k THEN k.raised ELSE CheckPrivate(k)
    BY <2>4
  <2>6. p \in Int /\ q \in Int /\ a.e \in Nat
    BY GeneratedOdd, RequestsAssumption
  <2>7. \/ k = [raised |-> "ValueError"]
        \/ "raised" \notin DOMAIN k /\ KeyNumbers(k)
    BY <2>3, <2>6, KeyOfNumbers
  <2>8. k = [raised |-> "ValueError"] => rsa'.failed # ""
    BY <2>5
  <2>9. rsa'.failed = "" => UsableKey(k)
    BY <2>5, <2>7, <2>8, Zenon DEF UsableKey
  <2> QED BY <2>5, <2>9 DEF RsaIInv, RsaKeyChecked, RsaReleases
<1>2. CASE RsaLoad
  <2>1. PICK k \in RsaFiles :
          rsa' = [stage |-> "key", bits |-> 0, primes |-> {k.p, k.q}, key |-> k, failed |-> CheckPrivate(k)]
    BY <1>2, Zenon DEF RsaLoad
  <2>2. rsa'.stage = "key" /\ rsa'.key = k /\ rsa'.failed = CheckPrivate(k)
    BY <2>1
  <2>3. k \in [n : Nat, e : Nat, d : Nat, p : Nat, q : Nat, dmp1 : Nat, dmq1 : Nat, iqmp : Nat]
    BY FilesAssumption, Zenon
  <2>4. KeyNumbers(k)
    BY <2>3 DEF KeyNumbers
  <2> QED BY <2>2, <2>4 DEF RsaIInv, RsaKeyChecked, RsaReleases, UsableKey
<1>3. CASE RsaPrivate
  <2>1. rsa.stage = "key" /\ rsa.failed = ""
    BY <1>3 DEF RsaPrivate
  <2>2. PICK k : k = rsa.key
    OBVIOUS
  <2>3. UsableKey(k)
    BY <2>1, <2>2 DEF RsaIInv, RsaKeyChecked
  <2>4. PICK c, fault, r, out :
          /\ c \in 0 .. k.n - 1 /\ r \in 2 .. k.n - 1 /\ Gcd(r, k.n) = 1
          /\ out = PrivateOp(k, c, r, fault)
          /\ rsa' = [stage |-> "done", key |-> k, c |-> c, fault |-> fault, out |-> out]
    BY <1>3, <2>2, Zenon DEF RsaPrivate
  <2>5. rsa'.stage = "done" /\ rsa'.key = k /\ rsa'.c = c /\ rsa'.fault = fault /\ rsa'.out = out
    BY <2>4
  <2>6. ASSUME "m" \in DOMAIN out PROVE Pow(out.m, k.e, k.n) = c
    <3>1. \E m : out = IF Released(k, m, c) THEN [m |-> m] ELSE [raised |-> "PureCryptError"]
      BY <2>4, Zenon DEF PrivateOp
    <3>2. PICK m : out = IF Released(k, m, c) THEN [m |-> m] ELSE [raised |-> "PureCryptError"]
      BY <3>1
    <3>3. ASSUME ~Released(k, m, c) PROVE FALSE
      <4>1. out = [raised |-> "PureCryptError"]
        BY <3>2, <3>3
      <4> QED BY <2>6, <4>1
    <3>4. Released(k, m, c) /\ out = [m |-> m]
      BY <3>2, <3>3
    <3>5. Pow(out.m, k.e, k.n) = c % k.n
      BY <3>4 DEF Released
    <3>6. k.n \in Int
      BY <2>3 DEF UsableKey, KeyNumbers
    <3>7. PICK n : n = k.n
      OBVIOUS
    <3>8. n \in Nat \ {0} /\ c \in 0 .. n - 1 /\ c \in Int /\ 0 \in Int /\ c = n * 0 + c
      BY <2>4, <3>6, <3>7
    <3>9. c % n = c
      BY <3>8, OneRemainder, Zenon
    <3> QED BY <3>5, <3>7, <3>9
  <2>7. ASSUME fault = 0, IsPrime(k.p), IsPrime(k.q) PROVE out = [m |-> Pow(c, k.d, k.n)]
    BY <2>3, <2>4, <2>7, WithoutFault
  <2>8. RsaReleases'
    BY <2>5, <2>6, <2>7, Zenon DEF RsaReleases
  <2>9. RsaKeyChecked'
    BY <2>5 DEF RsaKeyChecked
  <2> QED BY <2>8, <2>9 DEF RsaIInv
<1>4. CASE UNCHANGED rsa
  BY <1>4 DEF RsaIInv, RsaKeyChecked, RsaReleases
<1> QED BY <1>1, <1>2, <1>3, <1>4 DEF RsaNext

\* What the private operation releases is the root of its input whatever a fault has changed, and
\* without a fault, for primes, the root is released (rsa.py:455-490): for all keys, inputs and
\* blindings.
THEOREM RsaReleasesCorrect == RsaSpec => []RsaReleases
<1>1. RsaIInv => RsaReleases
  BY DEF RsaIInv
<1> QED BY RsaInitHolds, RsaStepHolds, <1>1, PTL DEF RsaSpec

-----------------------------------------------------------------------------
(* Generated keys.                                                           *)

\* An inverse modulo e gives one of e.
LEMMA TurnedInverse ==
  ASSUME NEW x \in Int, NEW e \in Int, NEW y \in Int, Cong(x * y, 1, e)
  PROVE  \E i \in Int : Cong(e * i, 1, x)
<1>1. PICK k \in Int : x * y = 1 + k * e
  BY DEF Cong
<1>2. e * (-k) = 1 + (-y) * x /\ -k \in Int /\ -y \in Int
  BY <1>1
<1> QED BY <1>2, Zenon DEF Cong

\* Inverses modulo two numbers give one modulo their product.
LEMMA InverseOfProduct ==
  ASSUME NEW x \in Int, NEW y \in Int, NEW e \in Int, NEW i \in Int, NEW j \in Int,
         Cong(e * i, 1, x), Cong(e * j, 1, y)
  PROVE  Cong(e * (i + j - e * (i * j)), 1, x * y)
<1>1. PICK s \in Int : e * i = 1 + s * x
  BY DEF Cong
<1>2. PICK t \in Int : e * j = 1 + t * y
  BY DEF Cong
<1>3. PICK a, b : a = e * i /\ b = e * j
  OBVIOUS
<1>4. a \in Int /\ b \in Int /\ a - 1 = s * x /\ b - 1 = t * y
  BY <1>1, <1>2, <1>3
<1>5. e * (i + j - e * (i * j)) = e * i + e * j - (e * i) * (e * j)
  OBVIOUS
<1>6. e * (i + j - e * (i * j)) = a + b - a * b
  BY <1>3, <1>5
<1>7. a + b - a * b = 1 - (a - 1) * (b - 1)
  BY <1>4
<1>8. (a - 1) * (b - 1) = (s * t) * (x * y)
  <2>1. (a - 1) * (b - 1) = (s * x) * (t * y)
    BY <1>4
  <2> QED BY <2>1
<1>9. 1 - (s * t) * (x * y) = 1 + (-(s * t)) * (x * y) /\ -(s * t) \in Int
  OBVIOUS
<1>10. e * (i + j - e * (i * j)) = 1 + (-(s * t)) * (x * y)
  BY <1>6, <1>7, <1>8, <1>9
<1> QED BY <1>9, <1>10, Zenon DEF Cong

LEMMA ModOne ==
  ASSUME NEW m \in Nat, m > 1, NEW z \in Int, Cong(z, 1, m)
  PROVE  z % m = 1
<1>1. m \in Nat \ {0} /\ 1 \in Int
  OBVIOUS
<1>2. z % m = 1 % m
  BY <1>1, CongSameMod
<1>3. 1 % m = 1
  OBVIOUS
<1> QED BY <1>2, <1>3

\* e has an inverse modulo the least common multiple of two numbers that it has no common divisor with.
LEMMA ExponentInvertible ==
  ASSUME NEW x \in Nat, x > 1, NEW y \in Nat, y > 1, NEW e \in Nat \ {0}, Gcd(x, e) = 1, Gcd(y, e) = 1
  PROVE  /\ Invertible(e, Lcm(x, y)) /\ Inv(e, Lcm(x, y)) \in Nat
         /\ (e * Inv(e, Lcm(x, y))) % Lcm(x, y) = 1
<1>1. x \in Nat \ {0} /\ y \in Nat \ {0} /\ x \in Int /\ y \in Int /\ e \in Int
  OBVIOUS
<1>2. Invertible(x, e) /\ Invertible(y, e)
  BY <1>1, CoprimeInvertible
<1>3. PICK v, w : v = Inv(x, e) /\ w = Inv(y, e)
  OBVIOUS
<1>4. v \in Int /\ w \in Int /\ Cong(x * v, 1, e) /\ Cong(y * w, 1, e)
  BY <1>1, <1>2, <1>3, InverseIs
<1>5. PICK i \in Int : Cong(e * i, 1, x)
  BY <1>1, <1>4, TurnedInverse
<1>6. PICK j \in Int : Cong(e * j, 1, y)
  BY <1>1, <1>4, TurnedInverse
<1>7. PICK k : k = i + j - e * (i * j)
  OBVIOUS
<1>8. k \in Int /\ Cong(e * k, 1, x * y)
  <2>1. k \in Int
    BY <1>7
  <2> QED BY <1>1, <1>5, <1>6, <1>7, <2>1, InverseOfProduct
<1>9. PICK l, g : l = Lcm(x, y) /\ g = Gcd(x, y)
  OBVIOUS
<1>10. PICK a \in Nat \ {0} : l = x * a
  <2>1. \E s \in Nat \ {0}, t \in Nat \ {0} : Lcm(x, y) = x * t /\ Lcm(x, y) = y * s
    BY <1>1, LcmIs, Zenon
  <2> QED BY <1>9, <2>1, Zenon
<1>11. l \in Nat \ {0} /\ l > 1 /\ l \in Int /\ l \in Nat
  BY <1>10
<1>12. g \in Int /\ x * y = g * l
  BY <1>1, <1>9, LcmIs
<1>13. PICK z : z = e * k
  OBVIOUS
<1>14. z \in Int /\ Cong(z, 1, g * l) /\ 1 \in Int
  BY <1>8, <1>12, <1>13
<1>15. Cong(z, 1, l)
  BY <1>11, <1>12, <1>14, CongFactor, Zenon
<1>16. Invertible(e, l)
  BY <1>8, <1>11, <1>13, <1>15, HasInverse
<1>17. PICK d : d = Inv(e, l)
  OBVIOUS
<1>18. d \in 0 .. l - 1 /\ d \in Int /\ Cong(e * d, 1, l)
  BY <1>11, <1>16, <1>17, InverseIs
<1>19. d \in Nat /\ e * d \in Int
  BY <1>18
<1>20. (e * d) % l = 1
  BY <1>11, <1>18, <1>19, ModOne
<1> QED BY <1>9, <1>16, <1>17, <1>19, <1>20

\* The smaller of two primes has an inverse modulo the larger one.
LEMMA PrimeInvertible ==
  ASSUME NEW p \in Int, IsPrime(p), NEW q \in Int, q > 0, q < p
  PROVE  Invertible(q, p) /\ Inv(q, p) \in Int /\ (Inv(q, p) * q) % p = 1
<1>1. p \in Nat \ {0} /\ p \in Nat /\ p > 1 /\ \A k \in 2 .. p - 1 : p % k # 0
  BY DEF IsPrime
<1>2. PICK g : g = Gcd(q, p)
  OBVIOUS
<1>3. g \in 1 .. p /\ q % g = 0 /\ p % g = 0
  BY <1>1, <1>2, GcdIs
<1>4. g \notin 2 .. p - 1
  BY <1>1, <1>3
<1>5. g # p
  <2>1. q \in 0 .. p - 1 /\ 0 \in Int /\ q = p * 0 + q
    BY <1>1
  <2>2. q % p = q
    BY <1>1, <2>1, OneRemainder, Zenon
  <2> QED BY <1>3, <2>2
<1>6. g = 1
  BY <1>1, <1>3, <1>4, <1>5
<1>7. Invertible(q, p)
  BY <1>1, <1>2, <1>6, CoprimeInvertible
<1>8. PICK u : u = Inv(q, p)
  OBVIOUS
<1>9. u \in Int /\ Cong(q * u, 1, p)
  BY <1>1, <1>7, <1>8, InverseIs
<1>10. q * u \in Int /\ q * u = u * q
  BY <1>9
<1>11. (q * u) % p = 1
  BY <1>1, <1>9, <1>10, ModOne
<1> QED BY <1>7, <1>8, <1>9, <1>10, <1>11

LEMMA OddProduct ==
  ASSUME NEW p \in Int, NEW q \in Int, p % 2 = 1, q % 2 = 1
  PROVE  (p * q) % 2 = 1
<1>1. PICK i \in Int : p = 2 * i + 1
  <2>1. p = 2 * (p \div 2) + 1 /\ p \div 2 \in Int
    OBVIOUS
  <2> QED BY <2>1
<1>2. PICK j \in Int : q = 2 * j + 1
  <2>1. q = 2 * (q \div 2) + 1 /\ q \div 2 \in Int
    OBVIOUS
  <2> QED BY <2>1
<1>3. p * q = (2 * i + 1) * (2 * j + 1)
  BY <1>1, <1>2
<1>4. (2 * i + 1) * (2 * j + 1) = 2 * (2 * (i * j) + i + j) + 1
  OBVIOUS
<1>5. PICK k, n : k = 2 * (i * j) + i + j /\ n = p * q
  OBVIOUS
<1>6. k \in Int /\ n = 2 * k + 1
  BY <1>3, <1>4, <1>5
<1>7. n % 2 = 1
  BY <1>6
<1> QED BY <1>5, <1>7

\* What generate_private_key has of its primes, the larger one first.
DrawnPrimes(p, q, e) ==
  /\ p \in Int /\ q \in Int /\ IsPrime(p) /\ IsPrime(q) /\ q < p /\ p % 2 = 1 /\ q % 2 = 1
  /\ e \in Nat /\ e >= 3 /\ e % 2 = 1 /\ Gcd(p - 1, e) = 1 /\ Gcd(q - 1, e) = 1
  /\ e < p * q /\ BitLength(p * q) >= MinKeyBits

LEMMA DrawnKeyPasses ==
  ASSUME NEW p, NEW q, NEW e, DrawnPrimes(p, q, e)
  PROVE  /\ "raised" \notin DOMAIN KeyOf(p, q, e) /\ CheckPrivate(KeyOf(p, q, e)) = ""
         /\ KeyOf(p, q, e).n = p * q
<1>1. /\ p \in Int /\ q \in Int /\ IsPrime(p) /\ IsPrime(q) /\ q < p /\ p % 2 = 1 /\ q % 2 = 1
      /\ e \in Nat \ {0} /\ e >= 3 /\ e % 2 = 1 /\ Gcd(p - 1, e) = 1 /\ Gcd(q - 1, e) = 1
      /\ e < p * q /\ BitLength(p * q) >= MinKeyBits
  BY DEF DrawnPrimes
<1>2. p > 1 /\ q > 1
  BY <1>1 DEF IsPrime
<1>3. p > 2 /\ q > 2 /\ q > 0 /\ p # 1 /\ q # 1
  BY <1>1, <1>2
<1>4. PICK x, y : x = p - 1 /\ y = q - 1
  OBVIOUS
<1>5. x \in Nat /\ x > 1 /\ y \in Nat /\ y > 1 /\ Gcd(x, e) = 1 /\ Gcd(y, e) = 1
  BY <1>1, <1>3, <1>4
<1>6. PICK l : l = Lcm(x, y)
  OBVIOUS
<1>7. Invertible(e, l) /\ (e * Inv(e, l)) % l = 1
  BY <1>1, <1>5, <1>6, ExponentInvertible
<1>8. Invertible(q, p) /\ (Inv(q, p) * q) % p = 1
  BY <1>1, <1>3, PrimeInvertible
<1>9. PICK n, d, u, dp, dq : n = p * q /\ d = Inv(e, l) /\ u = Inv(q, p) /\ dp = d % x /\ dq = d % y
  OBVIOUS
<1>10. n % 2 = 1 /\ e \in 3 .. n - 1 /\ BitLength(n) >= MinKeyBits
  <2>1. n \in Int /\ e < n
    BY <1>1, <1>9
  <2>2. n % 2 = 1
    BY <1>1, <1>9, OddProduct
  <2> QED BY <1>1, <1>9, <2>1, <2>2
<1>11. PICK k : k = KeyOf(p, q, e)
  OBVIOUS
<1>12. k = [n |-> n, e |-> e, d |-> d, p |-> p, q |-> q, dmp1 |-> dp, dmq1 |-> dq, iqmp |-> u]
  BY <1>4, <1>6, <1>7, <1>8, <1>9, <1>11, Zenon DEF KeyOf
<1>13. k.n = n /\ k.e = e /\ k.d = d /\ k.p = p /\ k.q = q /\ k.dmp1 = dp /\ k.dmq1 = dq /\ k.iqmp = u
       /\ "raised" \notin DOMAIN k
  BY <1>12
<1>14. PublicOk(k)
  BY <1>1, <1>10, <1>13, Zenon DEF PublicOk
<1>15. /\ k.p * k.q = k.n /\ k.p # 1 /\ k.q # 1
       /\ k.dmp1 = k.d % (k.p - 1) /\ k.dmq1 = k.d % (k.q - 1)
       /\ (k.iqmp * k.q) % k.p = 1 /\ (k.e * k.d) % Lcm(k.p - 1, k.q - 1) = 1
  BY <1>3, <1>4, <1>6, <1>7, <1>8, <1>9, <1>13, Zenon
<1>16. CheckPrivate(k) = ""
  BY <1>14, <1>15, Zenon DEF CheckPrivate
<1> QED BY <1>9, <1>11, <1>13, <1>16

LEMMA ProductAbove ==
  ASSUME NEW a \in Nat, NEW b \in Nat, NEW p \in Int, NEW q \in Int, p >= a, q >= b
  PROVE  p * q >= a * b
<1>1. p * q >= p * b
  <2>1. p * (q - b) >= 0
    OBVIOUS
  <2>2. p * (q - b) = p * q - p * b
    OBVIOUS
  <2> QED BY <2>1, <2>2
<1>2. p * b >= a * b
  <2>1. (p - a) * b >= 0
    OBVIOUS
  <2>2. (p - a) * b = p * b - a * b
    OBVIOUS
  <2> QED BY <2>1, <2>2
<1>3. PICK x, y, z : x = p * q /\ y = p * b /\ z = a * b
  OBVIOUS
<1>4. x \in Int /\ y \in Int /\ z \in Int /\ x >= y /\ y >= z
  BY <1>1, <1>2, <1>3
<1>5. x >= z
  BY <1>4
<1> QED BY <1>3, <1>5

LEMMA RsaKeysStep == RsaKeysUsable /\ [RsaNext]_rsa => RsaKeysUsable'
<1> SUFFICES ASSUME RsaKeysUsable, [RsaNext]_rsa PROVE RsaKeysUsable'
  OBVIOUS
<1>1. CASE RsaGenerate
  <2>1. PICK a \in RsaRequests :
          \E p \in Generated(a.bits \div 2, a.e), q \in Generated(a.bits - a.bits \div 2, a.e) :
            /\ p # q /\ BitLength(p * q) = a.bits
            /\ LET k == IF p < q THEN KeyOf(q, p, a.e) ELSE KeyOf(p, q, a.e)
               IN  rsa' = [stage |-> "key", bits |-> a.bits, primes |-> {p, q}, key |-> k,
                           failed |-> IF "raised" \in DOMAIN k THEN k.raised ELSE CheckPrivate(k)]
    BY <1>1, Zenon DEF RsaGenerate
  <2>2. PICK p \in Generated(a.bits \div 2, a.e), q \in Generated(a.bits - a.bits \div 2, a.e) :
          /\ p # q /\ BitLength(p * q) = a.bits
          /\ LET k == IF p < q THEN KeyOf(q, p, a.e) ELSE KeyOf(p, q, a.e)
             IN  rsa' = [stage |-> "key", bits |-> a.bits, primes |-> {p, q}, key |-> k,
                         failed |-> IF "raised" \in DOMAIN k THEN k.raised ELSE CheckPrivate(k)]
    BY <2>1, Zenon
  <2>3. PICK k : k = IF p < q THEN KeyOf(q, p, a.e) ELSE KeyOf(p, q, a.e)
    OBVIOUS
  <2>4. rsa' = [stage |-> "key", bits |-> a.bits, primes |-> {p, q}, key |-> k,
                failed |-> IF "raised" \in DOMAIN k THEN k.raised ELSE CheckPrivate(k)]
    BY <2>2, <2>3, Zenon
  <2>5. rsa'.bits = a.bits /\ rsa'.primes = {p, q} /\ rsa'.key = k
        /\ rsa'.failed = IF "raised" \in DOMAIN k THEN k.raised ELSE CheckPrivate(k)
    BY <2>4
  <2>6. ASSUME IsPrime(p), IsPrime(q) PROVE rsa'.failed = "" /\ BitLength(k.n) = a.bits
    <3>1. PICK low, high : low = 2 ^ (a.bits \div 2 - 1) /\ high = 2 ^ (a.bits - a.bits \div 2 - 1)
      OBVIOUS
    <3>2. /\ a.bits >= MinKeyBits /\ a.e \in Nat /\ a.e >= 3 /\ a.e % 2 = 1
          /\ low \in Nat /\ high \in Nat /\ a.e < low * high
      BY <3>1, RequestsAssumption
    <3>3. low \in Int /\ high \in Int
      BY <3>2
    <3>4. /\ p \in Int /\ p % 2 = 1 /\ Gcd(p - 1, a.e) = 1 /\ p >= low
          /\ q \in Int /\ q % 2 = 1 /\ Gcd(q - 1, a.e) = 1 /\ q >= high
      BY <3>1, <3>3, GeneratedOdd, Zenon
    <3>5. a.e < p * q /\ p * q = q * p
      <4>1. p * q >= low * high
        BY <3>2, <3>4, ProductAbove
      <4>2. PICK x, y : x = p * q /\ y = low * high
        OBVIOUS
      <4>3. x \in Int /\ y \in Int /\ x >= y /\ a.e < y
        BY <3>2, <3>4, <4>1, <4>2
      <4>4. a.e < x
        BY <3>2, <4>3
      <4> QED BY <3>4, <4>2, <4>4
    <3>6. CASE p < q
      <4>1. DrawnPrimes(q, p, a.e)
        BY <2>2, <2>6, <3>2, <3>4, <3>5, <3>6 DEF DrawnPrimes
      <4>2. k = KeyOf(q, p, a.e)
        BY <2>3, <3>6
      <4>3. "raised" \notin DOMAIN k /\ CheckPrivate(k) = "" /\ k.n = q * p
        BY <4>1, <4>2, DrawnKeyPasses
      <4> QED BY <2>2, <2>5, <3>5, <4>3
    <3>7. CASE ~(p < q)
      <4>1. q < p
        BY <2>2, <3>4, <3>7
      <4>2. DrawnPrimes(p, q, a.e)
        BY <2>2, <2>6, <3>2, <3>4, <3>5, <4>1 DEF DrawnPrimes
      <4>3. k = KeyOf(p, q, a.e)
        BY <2>3, <3>7
      <4>4. "raised" \notin DOMAIN k /\ CheckPrivate(k) = "" /\ k.n = p * q
        BY <4>2, <4>3, DrawnKeyPasses
      <4> QED BY <2>2, <2>5, <4>4
    <3> QED BY <3>6, <3>7
  <2> QED BY <2>5, <2>6 DEF RsaKeysUsable
<1>2. CASE RsaLoad
  <2>1. PICK k \in RsaFiles :
          rsa' = [stage |-> "key", bits |-> 0, primes |-> {k.p, k.q}, key |-> k, failed |-> CheckPrivate(k)]
    BY <1>2, Zenon DEF RsaLoad
  <2>2. ~(rsa'.bits > 0)
    BY <2>1
  <2> QED BY <2>2 DEF RsaKeysUsable
<1>3. CASE RsaPrivate
  <2>1. PICK k, c, fault, out : rsa' = [stage |-> "done", key |-> k, c |-> c, fault |-> fault, out |-> out]
    BY <1>3, Zenon DEF RsaPrivate
  <2>2. rsa'.stage = "done"
    BY <2>1
  <2> QED BY <2>2 DEF RsaKeysUsable
<1>4. CASE UNCHANGED rsa
  BY <1>4 DEF RsaKeysUsable
<1> QED BY <1>1, <1>2, <1>3, <1>4 DEF RsaNext

\* A generated key of primes has the size that was asked for and passes the checks of its
\* constructor (rsa.py:180-223): for all sizes and exponents that are accepted.
THEOREM RsaKeysUsableCorrect == RsaSpec => []RsaKeysUsable
<1>1. RsaInit => RsaKeysUsable
  <2> SUFFICES ASSUME RsaInit PROVE RsaKeysUsable
    OBVIOUS
  <2>1. rsa.stage = "idle"
    BY DEF RsaInit
  <2> QED BY <2>1 DEF RsaKeysUsable
<1> QED BY <1>1, RsaKeysStep, PTL DEF RsaSpec

-----------------------------------------------------------------------------
(* Congruent integers.                                                       *)

Same(a, b, m) == a \in Int /\ b \in Int /\ Cong(a, b, m)

LEMMA SameRefl ==
  ASSUME NEW m \in Int, NEW a \in Int
  PROVE  Same(a, a, m)
BY CongRefl DEF Same

LEMMA SameSym ==
  ASSUME NEW m \in Int, NEW a, NEW b, Same(a, b, m)
  PROVE  Same(b, a, m)
BY CongSym, Zenon DEF Same

LEMMA SameTrans ==
  ASSUME NEW m \in Int, NEW a, NEW b, NEW c, Same(a, b, m), Same(b, c, m)
  PROVE  Same(a, c, m)
BY CongTrans, Zenon DEF Same

LEMMA SameSum ==
  ASSUME NEW m \in Int, NEW a, NEW b, NEW c, NEW d, Same(a, b, m), Same(c, d, m)
  PROVE  Same(a + c, b + d, m)
<1>1. a + c \in Int /\ b + d \in Int
  BY DEF Same
<1> QED BY <1>1, CongAdd, Zenon DEF Same

LEMMA SameProduct ==
  ASSUME NEW m \in Int, NEW a, NEW b, NEW c, NEW d, Same(a, b, m), Same(c, d, m)
  PROVE  Same(a * c, b * d, m)
<1>1. a * c \in Int /\ b * d \in Int
  BY DEF Same
<1> QED BY <1>1, CongMul, Zenon DEF Same

LEMMA SameDifference ==
  ASSUME NEW m \in Int, NEW a, NEW b, NEW c, NEW d, Same(a, b, m), Same(c, d, m)
  PROVE  Same(a - c, b - d, m)
<1>1. a \in Int /\ b \in Int /\ c \in Int /\ d \in Int /\ -1 \in Int /\ Cong(a, b, m) /\ Cong(c, d, m)
  BY DEF Same
<1>2. Same(c * (-1), d * (-1), m)
  BY <1>1, SameRefl, SameProduct
<1>3. Same(a + c * (-1), b + d * (-1), m)
  BY <1>2, SameSum
<1>4. a + c * (-1) = a - c /\ b + d * (-1) = b - d
  BY <1>1
<1> QED BY <1>3, <1>4, Zenon

LEMMA SameMod ==
  ASSUME NEW m \in Nat \ {0}, NEW a, NEW b, Same(a, b, m)
  PROVE  Same(a % m, b, m)
<1>1. a \in Int /\ b \in Int /\ m \in Int
  BY DEF Same
<1>2. a % m \in Int /\ Cong(a % m, a, m)
  BY <1>1, ModRange, CongMod
<1>3. Same(a % m, a, m)
  BY <1>1, <1>2 DEF Same
<1> QED BY <1>1, <1>3, SameTrans

LEMMA SameEqual ==
  ASSUME NEW m \in Nat \ {0}, NEW a, NEW b
  PROVE  /\ Same(a, b, m) => a % m = b % m
         /\ a \in Int /\ b \in Int /\ a % m = b % m => Same(a, b, m)
         /\ Same(a, b, m) /\ b \in 0 .. m - 1 => a % m = b
         /\ Same(a, b, m) /\ a \in 0 .. m - 1 /\ b \in 0 .. m - 1 => a = b
<1>1. ASSUME a \in Int, b \in Int PROVE Cong(a, b, m) <=> a % m = b % m
  BY <1>1, CongSameMod
<1>2. ASSUME b \in 0 .. m - 1 PROVE b % m = b
  BY <1>2
<1>3. ASSUME a \in 0 .. m - 1, b \in 0 .. m - 1, Cong(a, b, m) PROVE a = b
  BY <1>3, CongSmall
<1> QED BY <1>1, <1>2, <1>3, Zenon DEF Same

\* 2 is not divided by an odd prime.
LEMMA SameSmall ==
  ASSUME NEW m \in Nat \ {0}, NEW a \in 0 .. m - 1
  PROVE  Same(a, 0, m) <=> a = 0
<1>1. 0 \in 0 .. m - 1 /\ 0 \in Int /\ m \in Int
  OBVIOUS
<1> QED BY <1>1, SameEqual, SameRefl, Zenon

LEMMA SameZeroProduct ==
  ASSUME NEW p \in Int, IsPrime(p), NEW a \in Int, NEW b \in Int, Same(a * b, 0, p)
  PROVE  Same(a, 0, p) \/ Same(b, 0, p)
<1>1. Divides(p, a * b) /\ 0 \in Int
  BY DEF Same, Divides
<1>2. Divides(p, a) \/ Divides(p, b)
  BY <1>1, Euclid
<1> QED BY <1>1, <1>2 DEF Same, Divides

-----------------------------------------------------------------------------
(* Jacobian coordinates: <<x, y>> is <<x * z * z, y * z * z * z, z>>.         *)

\* The steps of _jdouble.
Doubling(p, a, X, Y, Z, xx, yy, zz, s, m, t, u, v) ==
  /\ xx = (X * X) % p /\ yy = (Y * Y) % p /\ zz = (Z * Z) % p
  /\ s = (2 * ((X + yy) * (X + yy) - xx - yy * yy)) % p
  /\ m = (3 * xx + a * zz * zz) % p
  /\ t = (m * m - 2 * s) % p
  /\ u = (m * (s - t) - 8 * yy * yy) % p
  /\ v = ((Y + Z) * (Y + Z) - yy - zz) % p

\* X, Y and Z are coordinates of <<x, y>>.
Jacobian(p, x, y, X, Y, Z) ==
  /\ X \in Int /\ Y \in Int /\ Z \in Int /\ x \in Int /\ y \in Int
  /\ Same(X, x * (Z * Z), p) /\ Same(Y, (y * (Z * Z)) * Z, p)

LEMMA DoublingZ ==
  ASSUME NEW p \in Nat \ {0}, NEW a \in Int, NEW X \in Int, NEW Y \in Int, NEW Z \in Int,
         NEW xx, NEW yy, NEW zz, NEW s, NEW m, NEW t, NEW u, NEW v, Doubling(p, a, X, Y, Z, xx, yy, zz, s, m, t, u, v)
  PROVE  Same(v, 2 * Y * Z, p)
<1>1. yy = (Y * Y) % p /\ zz = (Z * Z) % p /\ v = ((Y + Z) * (Y + Z) - yy - zz) % p /\ p \in Int
  BY DEF Doubling
<1>2. Same(Y * Y, Y * Y, p) /\ Same(Z * Z, Z * Z, p) /\ Same((Y + Z) * (Y + Z), (Y + Z) * (Y + Z), p)
  BY <1>1, SameRefl
<1>3. Same(yy, Y * Y, p) /\ Same(zz, Z * Z, p)
  BY <1>1, <1>2, SameMod
<1>4. Same((Y + Z) * (Y + Z) - yy - zz, (Y + Z) * (Y + Z) - Y * Y - Z * Z, p)
  BY <1>1, <1>2, <1>3, SameDifference
<1>5. (Y + Z) * (Y + Z) - Y * Y - Z * Z = 2 * Y * Z
  OBVIOUS
<1> QED BY <1>1, <1>4, <1>5, SameMod

\* The tangent at <<x, y>> has the slope L.
LEMMA DoublingTangent ==
  ASSUME NEW p \in Nat \ {0}, NEW a \in Int, NEW x \in Int, NEW y \in Int, NEW X \in Int, NEW Y \in Int, NEW Z \in Int,
         Jacobian(p, x, y, X, Y, Z), NEW L \in Int, Same(L * (2 * y), 3 * x * x + a, p),
         NEW xx, NEW yy, NEW zz, NEW s, NEW m, NEW t, NEW u, NEW v, Doubling(p, a, X, Y, Z, xx, yy, zz, s, m, t, u, v),
         NEW x3 \in Int, NEW y3 \in Int, Same(x3, L * L - x - x, p), Same(y3, L * (x - x3) - y, p)
  PROVE  Jacobian(p, x3, y3, t, u, v)
<1>1. PICK w : w = Z * Z
  OBVIOUS
<1>2. w \in Int /\ p \in Int
  BY <1>1
<1>3. Same(X, x * w, p) /\ Same(Y, (y * w) * Z, p)
  BY <1>1 DEF Jacobian
<1>4. PICK B : B = ((y * w) * Z) * ((y * w) * Z)
  OBVIOUS
<1>5. B \in Int /\ B = y * y * w * w * w
  BY <1>1, <1>2, <1>4
<1>6. Same(X * X, (x * w) * (x * w), p) /\ Same(Y * Y, B, p) /\ Same(Z * Z, w, p)
  BY <1>1, <1>2, <1>3, <1>4, SameProduct, SameRefl
<1>7. Same(xx, (x * w) * (x * w), p) /\ Same(yy, B, p) /\ Same(zz, w, p)
  BY <1>6, SameMod DEF Doubling
<1>8. Same(s, 4 * x * w * B, p)
  <2>1. Same(X + yy, x * w + B, p)
    BY <1>2, <1>3, <1>7, SameSum
  <2>2. Same((X + yy) * (X + yy), (x * w + B) * (x * w + B), p) /\ Same(yy * yy, B * B, p)
    BY <1>2, <1>7, <2>1, SameProduct
  <2>3. Same((X + yy) * (X + yy) - xx - yy * yy, (x * w + B) * (x * w + B) - (x * w) * (x * w) - B * B, p)
    BY <1>2, <1>7, <2>2, SameDifference
  <2>4. Same(2, 2, p)
    BY <1>2, SameRefl
  <2>5. Same(2 * ((X + yy) * (X + yy) - xx - yy * yy), 2 * ((x * w + B) * (x * w + B) - (x * w) * (x * w) - B * B), p)
    BY <1>2, <2>3, <2>4, SameProduct
  <2>6. 2 * ((x * w + B) * (x * w + B) - (x * w) * (x * w) - B * B) = 4 * x * w * B
    BY <1>2, <1>5
  <2>7. s = (2 * ((X + yy) * (X + yy) - xx - yy * yy)) % p
    BY DEF Doubling
  <2> QED BY <2>5, <2>6, <2>7, SameMod
<1>9. Same(m, (L * (2 * y)) * (w * w), p)
  <2>1. Same(3, 3, p) /\ Same(a, a, p) /\ Same(w * w, w * w, p)
    BY <1>2, SameRefl
  <2>2. Same(3 * xx, 3 * ((x * w) * (x * w)), p) /\ Same(a * zz * zz, a * w * w, p)
    BY <1>2, <1>7, <2>1, SameProduct
  <2>3. Same(3 * xx + a * zz * zz, 3 * ((x * w) * (x * w)) + a * w * w, p)
    BY <1>2, <2>2, SameSum
  <2>4. 3 * ((x * w) * (x * w)) + a * w * w = (3 * x * x + a) * (w * w)
    BY <1>2
  <2>5. m = (3 * xx + a * zz * zz) % p
    BY DEF Doubling
  <2>6. Same(m, (3 * x * x + a) * (w * w), p)
    BY <2>3, <2>4, <2>5, SameMod
  <2>7. Same((L * (2 * y)) * (w * w), (3 * x * x + a) * (w * w), p)
    BY <1>2, <2>1, SameProduct
  <2> QED BY <1>2, <2>6, <2>7, SameSym, SameTrans
<1>10. PICK V : V = 2 * y * w * w
  OBVIOUS
<1>11. V \in Int /\ V * V = 4 * w * B /\ V * V * V = 8 * y * w * w * w * B
  BY <1>2, <1>5, <1>10
<1>12. Same(v, V, p)
  <2>1. Same(v, 2 * Y * Z, p)
    BY DoublingZ
  <2>2. Same(2, 2, p) /\ Same(Z, Z, p)
    BY <1>2, SameRefl
  <2>3. Same(2 * Y * Z, 2 * ((y * w) * Z) * Z, p)
    BY <1>2, <1>3, <2>2, SameProduct
  <2>4. 2 * ((y * w) * Z) * Z = V
    BY <1>1, <1>2, <1>10
  <2> QED BY <1>2, <2>1, <2>3, <2>4, SameTrans
<1>13. Same(t, x3 * (V * V), p)
  <2>1. Same(m * m, ((L * (2 * y)) * (w * w)) * ((L * (2 * y)) * (w * w)), p)
    BY <1>2, <1>9, SameProduct
  <2>2. Same(2, 2, p) /\ Same(V * V, V * V, p)
    BY <1>2, <1>11, SameRefl
  <2>3. Same(2 * s, 2 * (4 * x * w * B), p)
    BY <1>2, <1>8, <2>2, SameProduct
  <2>4. Same(m * m - 2 * s, ((L * (2 * y)) * (w * w)) * ((L * (2 * y)) * (w * w)) - 2 * (4 * x * w * B), p)
    BY <1>2, <2>1, <2>3, SameDifference
  <2>5. ((L * (2 * y)) * (w * w)) * ((L * (2 * y)) * (w * w)) - 2 * (4 * x * w * B) = (L * L - x - x) * (V * V)
    BY <1>2, <1>5, <1>10
  <2>6. t = (m * m - 2 * s) % p
    BY DEF Doubling
  <2>7. Same(t, (L * L - x - x) * (V * V), p)
    BY <2>4, <2>5, <2>6, SameMod
  <2>8. Same(x3 * (V * V), (L * L - x - x) * (V * V), p)
    BY <1>2, <2>2, SameProduct
  <2> QED BY <1>2, <2>7, <2>8, SameSym, SameTrans
<1>14. Same(u, (y3 * (V * V)) * V, p)
  <2>1. Same(s - t, 4 * x * w * B - x3 * (V * V), p)
    BY <1>2, <1>8, <1>13, SameDifference
  <2>2. Same(m * (s - t), ((L * (2 * y)) * (w * w)) * (4 * x * w * B - x3 * (V * V)), p)
    BY <1>2, <1>9, <2>1, SameProduct
  <2>3. Same(8, 8, p) /\ Same((V * V) * V, (V * V) * V, p)
    BY <1>2, <1>11, SameRefl
  <2>4. Same(8 * yy * yy, 8 * B * B, p)
    BY <1>2, <1>7, <2>3, SameProduct
  <2>5. Same(m * (s - t) - 8 * yy * yy, ((L * (2 * y)) * (w * w)) * (4 * x * w * B - x3 * (V * V)) - 8 * B * B, p)
    BY <1>2, <2>2, <2>4, SameDifference
  <2>6. ((L * (2 * y)) * (w * w)) * (4 * x * w * B - x3 * (V * V)) - 8 * B * B = (L * (x - x3) - y) * ((V * V) * V)
    BY <1>2, <1>5, <1>10
  <2>7. u = (m * (s - t) - 8 * yy * yy) % p
    BY DEF Doubling
  <2>8. Same(u, (L * (x - x3) - y) * ((V * V) * V), p)
    BY <2>5, <2>6, <2>7, SameMod
  <2>9. Same(y3 * ((V * V) * V), (L * (x - x3) - y) * ((V * V) * V), p)
    BY <1>2, <2>3, SameProduct
  <2>10. y3 * ((V * V) * V) = (y3 * (V * V)) * V
    BY <1>11
  <2> QED BY <1>2, <2>8, <2>9, <2>10, SameSym, SameTrans
<1>15. Same(x3 * (v * v), x3 * (V * V), p) /\ Same((y3 * (v * v)) * v, (y3 * (V * V)) * V, p)
  <2>1. Same(x3, x3, p) /\ Same(y3, y3, p) /\ Same(v * v, V * V, p)
    BY <1>2, <1>12, SameRefl, SameProduct
  <2> QED BY <1>2, <1>12, <2>1, SameProduct
<1>16. Same(t, x3 * (v * v), p) /\ Same(u, (y3 * (v * v)) * v, p)
  BY <1>2, <1>13, <1>14, <1>15, SameSym, SameTrans
<1>17. t \in Int /\ u \in Int /\ v \in Int
  BY <1>12, <1>13, <1>14 DEF Same
<1> QED BY <1>16, <1>17, Zenon DEF Jacobian

\* The steps of _jadd_mixed.
Adding(p, X, Y, Z, x2, y2, zz, h, d, hh, j, v, t, u, z) ==
  /\ zz = (Z * Z) % p
  /\ h = (x2 * zz - X) % p
  /\ d = (2 * (y2 * Z * zz - Y)) % p
  /\ hh = (h * h) % p
  /\ j = (4 * h * hh) % p
  /\ v = (4 * X * hh) % p
  /\ t = (d * d - j - 2 * v) % p
  /\ u = (d * (v - t) - 2 * Y * j) % p
  /\ z = ((Z + h) * (Z + h) - zz - hh) % p

\* h and d are multiples of the differences of the coordinates.
LEMMA AddingDifferences ==
  ASSUME NEW p \in Nat \ {0}, NEW x, NEW y, NEW X, NEW Y, NEW Z, Jacobian(p, x, y, X, Y, Z),
         NEW x2 \in Int, NEW y2 \in Int, NEW zz, NEW h, NEW d, NEW hh, NEW j, NEW v, NEW t, NEW u, NEW z,
         Adding(p, X, Y, Z, x2, y2, zz, h, d, hh, j, v, t, u, z)
  PROVE  /\ Same(h, (x2 - x) * (Z * Z), p) /\ h \in 0 .. p - 1
         /\ Same(d, ((y2 - y) * 2) * ((Z * Z) * Z), p) /\ d \in 0 .. p - 1
         /\ Same(z, 2 * Z * h, p)
         /\ Same(zz, Z * Z, p) /\ Same(hh, h * h, p)
<1>1. PICK w : w = Z * Z
  OBVIOUS
<1>2. x \in Int /\ y \in Int /\ X \in Int /\ Y \in Int /\ Z \in Int /\ w \in Int /\ p \in Int
  BY <1>1 DEF Jacobian
<1>3. Same(X, x * w, p) /\ Same(Y, (y * w) * Z, p)
  BY <1>1 DEF Jacobian
<1>4. Same(w, w, p) /\ Same(x2, x2, p) /\ Same(y2, y2, p) /\ Same(Z, Z, p) /\ Same(2, 2, p)
  BY <1>2, SameRefl
<1>5. zz = w % p /\ h = (x2 * zz - X) % p /\ d = (2 * (y2 * Z * zz - Y)) % p /\ hh = (h * h) % p
      /\ z = ((Z + h) * (Z + h) - zz - hh) % p
  BY <1>1 DEF Adding
<1>6. Same(zz, w, p)
  BY <1>4, <1>5, SameMod
<1>7. Same(x2 * zz - X, x2 * w - x * w, p)
  <2>1. Same(x2 * zz, x2 * w, p)
    BY <1>2, <1>4, <1>6, SameProduct
  <2> QED BY <1>2, <1>3, <2>1, SameDifference
<1>8. x2 * w - x * w = (x2 - x) * w /\ (x2 - x) * w \in Int
  BY <1>2
<1>9. Same(h, (x2 - x) * w, p)
  BY <1>5, <1>7, <1>8, SameMod
<1>10. Same(2 * (y2 * Z * zz - Y), 2 * (y2 * Z * w - (y * w) * Z), p)
  <2>1. Same(y2 * Z * zz, y2 * Z * w, p)
    BY <1>2, <1>4, <1>6, SameProduct
  <2>2. Same(y2 * Z * zz - Y, y2 * Z * w - (y * w) * Z, p)
    BY <1>2, <1>3, <2>1, SameDifference
  <2> QED BY <1>2, <1>4, <2>2, SameProduct
<1>11. 2 * (y2 * Z * w - (y * w) * Z) = ((y2 - y) * 2) * (w * Z)
  BY <1>2
<1>12. Same(d, ((y2 - y) * 2) * (w * Z), p)
  BY <1>5, <1>10, <1>11, SameMod
<1>13. x2 * zz - X \in Int /\ 2 * (y2 * Z * zz - Y) \in Int
  BY <1>7, <1>10 DEF Same
<1>14. h \in 0 .. p - 1 /\ d \in 0 .. p - 1 /\ h \in Int
  BY <1>5, <1>13, ModRange
<1>15. Same(h * h, h * h, p) /\ Same((Z + h) * (Z + h), (Z + h) * (Z + h), p)
  BY <1>2, <1>14, SameRefl
<1>16. Same(hh, h * h, p)
  BY <1>5, <1>15, SameMod
<1>17. Same((Z + h) * (Z + h) - zz - hh, (Z + h) * (Z + h) - w - h * h, p)
  BY <1>2, <1>6, <1>15, <1>16, SameDifference
<1>18. (Z + h) * (Z + h) - w - h * h = 2 * Z * h
  BY <1>1, <1>2, <1>14
<1>19. Same(z, 2 * Z * h, p)
  BY <1>5, <1>17, <1>18, SameMod
<1> QED BY <1>1, <1>6, <1>9, <1>12, <1>14, <1>16, <1>19, Zenon

\* The chord through <<x, y>> and <<x2, y2>> has the slope L.
LEMMA AddingChord ==
  ASSUME NEW p \in Nat \ {0}, NEW x, NEW y, NEW X, NEW Y, NEW Z, Jacobian(p, x, y, X, Y, Z),
         NEW x2 \in Int, NEW y2 \in Int, NEW L \in Int, Same(L * (x2 - x), y2 - y, p),
         NEW zz, NEW h, NEW d, NEW hh, NEW j, NEW v, NEW t, NEW u, NEW z,
         Adding(p, X, Y, Z, x2, y2, zz, h, d, hh, j, v, t, u, z),
         NEW x3 \in Int, NEW y3 \in Int, Same(x3, L * L - x - x2, p), Same(y3, L * (x - x3) - y, p)
  PROVE  Jacobian(p, x3, y3, t, u, z)
<1>1. PICK w, g : w = Z * Z /\ g = x2 - x
  OBVIOUS
<1>2. x \in Int /\ y \in Int /\ X \in Int /\ Y \in Int /\ Z \in Int /\ w \in Int /\ g \in Int /\ p \in Int
  BY <1>1 DEF Jacobian
<1>3. Same(X, x * w, p) /\ Same(Y, (y * w) * Z, p)
  BY <1>1 DEF Jacobian
<1>4. Same(h, g * w, p) /\ Same(d, ((y2 - y) * 2) * (w * Z), p) /\ Same(z, 2 * Z * h, p) /\ Same(hh, h * h, p)
  BY <1>1, AddingDifferences, Zenon
<1>5. Same(2, 2, p) /\ Same(4, 4, p) /\ Same(Z, Z, p) /\ Same(w * Z, w * Z, p)
  BY <1>2, SameRefl
<1>6. Same(d, ((L * g) * 2) * (w * Z), p)
  <2>1. Same((L * g) * 2, (y2 - y) * 2, p)
    BY <1>1, <1>2, <1>5, SameProduct
  <2>2. Same(((L * g) * 2) * (w * Z), ((y2 - y) * 2) * (w * Z), p)
    BY <1>2, <1>5, <2>1, SameProduct
  <2> QED BY <1>2, <1>4, <2>2, SameSym, SameTrans
<1>7. Same(hh, (g * w) * (g * w), p)
  BY <1>2, <1>4, SameProduct, SameTrans
<1>8. Same(j, 4 * (g * w) * ((g * w) * (g * w)), p)
  <2>1. Same(4 * h * hh, 4 * (g * w) * ((g * w) * (g * w)), p)
    BY <1>2, <1>4, <1>5, <1>7, SameProduct
  <2>2. j = (4 * h * hh) % p
    BY DEF Adding
  <2> QED BY <2>1, <2>2, SameMod
<1>9. Same(v, 4 * (x * w) * ((g * w) * (g * w)), p)
  <2>1. Same(4 * X * hh, 4 * (x * w) * ((g * w) * (g * w)), p)
    BY <1>2, <1>3, <1>5, <1>7, SameProduct
  <2>2. v = (4 * X * hh) % p
    BY DEF Adding
  <2> QED BY <2>1, <2>2, SameMod
<1>10. PICK V : V = 2 * Z * (g * w)
  OBVIOUS
<1>11. V \in Int /\ V * V = 4 * g * g * w * w * w /\ (V * V) * V = 8 * g * g * g * w * w * w * w * Z
  BY <1>1, <1>2, <1>10
<1>12. Same(z, V, p)
  <2>1. Same(2 * Z * h, 2 * Z * (g * w), p)
    BY <1>2, <1>4, <1>5, SameProduct
  <2> QED BY <1>2, <1>4, <1>10, <2>1, SameTrans
<1>13. Same(t, x3 * (V * V), p)
  <2>1. Same(d * d, (((L * g) * 2) * (w * Z)) * (((L * g) * 2) * (w * Z)), p)
    BY <1>2, <1>6, SameProduct
  <2>2. Same(2 * v, 2 * (4 * (x * w) * ((g * w) * (g * w))), p)
    BY <1>2, <1>5, <1>9, SameProduct
  <2>3. Same(d * d - j - 2 * v,
             (((L * g) * 2) * (w * Z)) * (((L * g) * 2) * (w * Z)) - 4 * (g * w) * ((g * w) * (g * w))
               - 2 * (4 * (x * w) * ((g * w) * (g * w))), p)
    BY <1>2, <1>8, <2>1, <2>2, SameDifference
  <2>4. (((L * g) * 2) * (w * Z)) * (((L * g) * 2) * (w * Z)) = (L * L) * (V * V)
    BY <1>2, <1>10
  <2>5. 4 * (g * w) * ((g * w) * (g * w)) + 2 * (4 * (x * w) * ((g * w) * (g * w))) = (x + x2) * (V * V)
    <3>1. x2 = g + x
      BY <1>1, <1>2
    <3>2. 4 * (g * w) * ((g * w) * (g * w)) + 2 * (4 * (x * w) * ((g * w) * (g * w))) = (g + x + x) * (4 * g * g * w * w * w)
      BY <1>2
    <3> QED BY <1>2, <1>11, <3>1, <3>2
  <2>6. (((L * g) * 2) * (w * Z)) * (((L * g) * 2) * (w * Z)) - 4 * (g * w) * ((g * w) * (g * w))
          - 2 * (4 * (x * w) * ((g * w) * (g * w))) = (L * L - x - x2) * (V * V)
    <3>1. PICK c1, c2, c3, vv : /\ c1 = (((L * g) * 2) * (w * Z)) * (((L * g) * 2) * (w * Z))
                            /\ c2 = 4 * (g * w) * ((g * w) * (g * w))
                            /\ c3 = 2 * (4 * (x * w) * ((g * w) * (g * w))) /\ vv = V * V
      OBVIOUS
    <3>2. c1 \in Int /\ c2 \in Int /\ c3 \in Int /\ vv \in Int
      BY <1>2, <1>11, <3>1
    <3>3. c1 = (L * L) * vv /\ c2 + c3 = (x + x2) * vv
      BY <2>4, <2>5, <3>1, Zenon
    <3>4. c1 - c2 - c3 = (L * L - x - x2) * vv
      BY <1>2, <3>2, <3>3
    <3> QED BY <3>1, <3>4, Zenon
  <2>7. t = (d * d - j - 2 * v) % p
    BY DEF Adding
  <2>8. Same(t, (L * L - x - x2) * (V * V), p)
    BY <2>3, <2>6, <2>7, SameMod
  <2>9. Same(x3 * (V * V), (L * L - x - x2) * (V * V), p)
    <3>1. Same(V * V, V * V, p)
      BY <1>2, <1>11, SameRefl
    <3> QED BY <1>2, <3>1, SameProduct
  <2> QED BY <1>2, <2>8, <2>9, SameSym, SameTrans
<1>14. Same(u, (y3 * (V * V)) * V, p)
  <2>1. Same(v - t, 4 * (x * w) * ((g * w) * (g * w)) - x3 * (V * V), p)
    BY <1>2, <1>9, <1>13, SameDifference
  <2>2. Same(d * (v - t), (((L * g) * 2) * (w * Z)) * (4 * (x * w) * ((g * w) * (g * w)) - x3 * (V * V)), p)
    BY <1>2, <1>6, <2>1, SameProduct
  <2>3. Same(2 * Y * j, 2 * ((y * w) * Z) * (4 * (g * w) * ((g * w) * (g * w))), p)
    BY <1>2, <1>3, <1>5, <1>8, SameProduct
  <2>4. Same(d * (v - t) - 2 * Y * j,
             (((L * g) * 2) * (w * Z)) * (4 * (x * w) * ((g * w) * (g * w)) - x3 * (V * V))
               - 2 * ((y * w) * Z) * (4 * (g * w) * ((g * w) * (g * w))), p)
    BY <1>2, <2>2, <2>3, SameDifference
  <2>5. 4 * (x * w) * ((g * w) * (g * w)) - x3 * (V * V) = (x - x3) * (4 * g * g * w * w * w)
    BY <1>2, <1>11
  <2>6. (((L * g) * 2) * (w * Z)) * ((x - x3) * (4 * g * g * w * w * w))
          - 2 * ((y * w) * Z) * (4 * (g * w) * ((g * w) * (g * w)))
        = (L * (x - x3) - y) * (8 * g * g * g * w * w * w * w * Z)
    BY <1>2
  <2>7. u = (d * (v - t) - 2 * Y * j) % p
    BY DEF Adding
  <2>8. Same(u, (L * (x - x3) - y) * ((V * V) * V), p)
    BY <1>11, <2>4, <2>5, <2>6, <2>7, SameMod, Zenon
  <2>9. Same(y3 * ((V * V) * V), (L * (x - x3) - y) * ((V * V) * V), p)
    <3>1. Same((V * V) * V, (V * V) * V, p)
      BY <1>2, <1>11, SameRefl
    <3> QED BY <1>2, <3>1, SameProduct
  <2>10. y3 * ((V * V) * V) = (y3 * (V * V)) * V
    BY <1>11
  <2> QED BY <1>2, <2>8, <2>9, <2>10, SameSym, SameTrans
<1>15. Same(x3 * (z * z), x3 * (V * V), p) /\ Same((y3 * (z * z)) * z, (y3 * (V * V)) * V, p)
  <2>1. Same(x3, x3, p) /\ Same(y3, y3, p) /\ Same(z * z, V * V, p)
    BY <1>2, <1>12, SameRefl, SameProduct
  <2> QED BY <1>2, <1>12, <2>1, SameProduct
<1>16. Same(t, x3 * (z * z), p) /\ Same(u, (y3 * (z * z)) * z, p)
  BY <1>2, <1>13, <1>14, <1>15, SameSym, SameTrans
<1>17. t \in Int /\ u \in Int /\ z \in Int
  BY <1>12, <1>13, <1>14 DEF Same
<1> QED BY <1>16, <1>17, Zenon DEF Jacobian

-----------------------------------------------------------------------------
(* Affine points.                                                            *)

LEMMA PrimeInverse ==
  ASSUME NEW p \in Nat, IsPrime(p), NEW a, NEW b, Same(a, b, p), ~Same(b, 0, p)
  PROVE  Inv(a % p, p) \in Int /\ Same(b * Inv(a % p, p), 1, p)
<1>1. a \in Int /\ b \in Int /\ p \in Nat \ {0} /\ p > 1 /\ p \in Int
  BY DEF IsPrime, Same
<1>2. PICK x : x = a % p
  OBVIOUS
<1>3. x \in 0 .. p - 1 /\ x \in Int /\ Same(a, a, p) /\ Same(0, 0, p)
  BY <1>1, <1>2, ModRange, SameRefl
<1>4. Same(x, b, p)
  BY <1>1, <1>2, SameMod
<1>5. x # 0
  BY <1>1, <1>4, SameSym
<1>6. x > 0 /\ x < p
  BY <1>1, <1>3, <1>5
<1>7. PICK y : y = Inv(x, p)
  OBVIOUS
<1>8. y \in Int /\ (y * x) % p = 1
  BY <1>1, <1>3, <1>6, <1>7, PrimeInvertible
<1>9. y * x \in Int /\ 1 \in Int /\ 1 % p = 1
  BY <1>1, <1>3, <1>8
<1>10. Same(y * x, 1, p)
  BY <1>1, <1>8, <1>9, SameEqual, Zenon
<1>11. Same(y, y, p) /\ Same(b, x, p)
  BY <1>1, <1>4, <1>8, SameRefl, SameSym
<1>12. Same(y * b, y * x, p)
  BY <1>1, <1>11, SameProduct
<1>13. Same(y * b, 1, p) /\ y * b = b * y
  BY <1>1, <1>8, <1>10, <1>12, SameTrans
<1> QED BY <1>2, <1>7, <1>8, <1>13

\* <<x3, y3>> is on the line through <<x, y>> with slope L, whose other point has the abscissa x2.
OnLine(p, x, y, x2, L, x3, y3) ==
  /\ L \in Int /\ x3 \in 0 .. p - 1 /\ y3 \in 0 .. p - 1
  /\ Same(x3, L * L - x - x2, p) /\ Same(y3, L * (x - x3) - y, p)

\* The slope of that line in PointAdd, and the condition for it.
Slope(c, p, x, y, x2, y2) ==
  IF x = x2 THEN (3 * x * x + c.a) * Inv((2 * y) % p, p) ELSE (y2 - y) * Inv((x2 - x) % p, p)
Opposite(p, x, y, x2, y2) == x = x2 /\ (y + y2) % p = 0

\* The sum, when the coordinates are not those of opposite points.
LEMMA LineSum ==
  ASSUME NEW c, NEW p \in Nat \ {0}, p = c.p, NEW x \in Int, NEW y \in Int, NEW x2 \in Int, NEW y2 \in Int, NEW L \in Int,
         ~Opposite(p, x, y, x2, y2), L = Slope(c, p, x, y, x2, y2)
  PROVE  \E x3, y3 : PointAdd(c, <<x, y>>, <<x2, y2>>) = <<x3, y3>> /\ OnLine(p, x, y, x2, L, x3, y3)
<1>1. PICK x3 : x3 = (L * L - x - x2) % p
  OBVIOUS
<1>2. L * L - x - x2 \in Int /\ p \in Int
  OBVIOUS
<1>3. x3 \in 0 .. p - 1 /\ x3 \in Int /\ Same(L * L - x - x2, L * L - x - x2, p)
  BY <1>1, <1>2, ModRange, SameRefl
<1>4. PICK y3 : y3 = (L * (x - x3) - y) % p
  OBVIOUS
<1>5. L * (x - x3) - y \in Int
  BY <1>3
<1>6. y3 \in 0 .. p - 1 /\ y3 \in Int /\ Same(L * (x - x3) - y, L * (x - x3) - y, p)
  BY <1>2, <1>4, <1>5, ModRange, SameRefl
<1>7. Same(x3, L * L - x - x2, p) /\ Same(y3, L * (x - x3) - y, p)
  BY <1>1, <1>3, <1>4, <1>6, SameMod
<1>8. <<x, y>> # Infinity /\ <<x2, y2>> # Infinity
  BY DEF Infinity
<1>9. <<x, y>>[1] = x /\ <<x, y>>[2] = y /\ <<x2, y2>>[1] = x2 /\ <<x2, y2>>[2] = y2
  OBVIOUS
<1>10. PointAdd(c, <<x, y>>, <<x2, y2>>) = <<x3, y3>>
  BY <1>1, <1>4, <1>8, <1>9, Zenon DEF PointAdd, Slope, Opposite
<1> QED BY <1>3, <1>6, <1>7, <1>10 DEF OnLine

LEMMA OppositeSum ==
  ASSUME NEW c, NEW x \in Int, NEW y \in Int, NEW y2 \in Int, (y + y2) % c.p = 0
  PROVE  PointAdd(c, <<x, y>>, <<x, y2>>) = Infinity
<1>1. <<x, y>> # Infinity /\ <<x, y2>> # Infinity
  BY DEF Infinity
<1>2. <<x, y>>[1] = x /\ <<x, y>>[2] = y /\ <<x, y2>>[1] = x /\ <<x, y2>>[2] = y2
  OBVIOUS
<1> QED BY <1>1, <1>2, Zenon DEF PointAdd

\* A double is on the tangent.
LEMMA TangentSum ==
  ASSUME NEW c, NEW p \in Nat, p = c.p, IsPrime(p), c.a \in Int, NEW x \in Int, NEW y \in Int, ~Same(y + y, 0, p)
  PROVE  \E x3, y3, L : /\ PointAdd(c, <<x, y>>, <<x, y>>) = <<x3, y3>> /\ OnLine(p, x, y, x, L, x3, y3)
                        /\ Same(L * (2 * y), 3 * x * x + c.a, p)
<1>1. PICK a, i : a = 3 * x * x + c.a /\ i = Inv((2 * y) % p, p)
  OBVIOUS
<1>2. p \in Int /\ p \in Nat \ {0} /\ a \in Int /\ 2 * y \in Int /\ 2 * y = y + y
  BY <1>1 DEF IsPrime
<1>3. Same(2 * y, 2 * y, p) /\ Same(a, a, p)
  BY <1>2, SameRefl
<1>4. i \in Int /\ Same((2 * y) * i, 1, p)
  BY <1>1, <1>2, <1>3, PrimeInverse
<1>5. PICK L : L = a * i
  OBVIOUS
<1>6. L \in Int
  BY <1>2, <1>4, <1>5
<1>7. Same(a * ((2 * y) * i), a * 1, p)
  BY <1>2, <1>3, <1>4, SameProduct
<1>8. a * ((2 * y) * i) = L * (2 * y) /\ a * 1 = a
  BY <1>2, <1>4, <1>5
<1>9. ~Opposite(p, x, y, x, y)
  <2>1. 0 \in Int /\ 0 % p = 0 /\ y + y \in Int
    BY <1>2
  <2> QED BY <1>2, <2>1, SameEqual, Zenon DEF Opposite
<1>10. L = Slope(c, p, x, y, x, y)
  BY <1>1, <1>5 DEF Slope
<1>11. \E x3, y3 : PointAdd(c, <<x, y>>, <<x, y>>) = <<x3, y3>> /\ OnLine(p, x, y, x, L, x3, y3)
  BY <1>2, <1>6, <1>9, <1>10, LineSum
<1> QED BY <1>1, <1>7, <1>8, <1>11, Zenon

\* The sum of points with different abscissae is on the chord.
LEMMA ChordSum ==
  ASSUME NEW c, NEW p \in Nat, p = c.p, IsPrime(p), NEW x \in Int, NEW y \in Int, NEW x2 \in Int, NEW y2 \in Int,
         ~Same(x2 - x, 0, p)
  PROVE  \E x3, y3, L : /\ PointAdd(c, <<x, y>>, <<x2, y2>>) = <<x3, y3>> /\ OnLine(p, x, y, x2, L, x3, y3)
                        /\ Same(L * (x2 - x), y2 - y, p)
<1>1. PICK a, g, i : a = y2 - y /\ g = x2 - x /\ i = Inv((x2 - x) % p, p)
  OBVIOUS
<1>2. p \in Int /\ p \in Nat \ {0} /\ a \in Int /\ g \in Int
  BY <1>1 DEF IsPrime
<1>3. Same(g, g, p) /\ Same(a, a, p) /\ Same(0, 0, p)
  BY <1>2, SameRefl
<1>4. i \in Int /\ Same(g * i, 1, p)
  BY <1>1, <1>2, <1>3, PrimeInverse
<1>5. PICK L : L = a * i
  OBVIOUS
<1>6. L \in Int
  BY <1>2, <1>4, <1>5
<1>7. Same(a * (g * i), a * 1, p)
  BY <1>2, <1>3, <1>4, SameProduct
<1>8. a * (g * i) = L * g /\ a * 1 = a
  BY <1>2, <1>4, <1>5
<1>9. x # x2
  BY <1>1, <1>3
<1>10. L = Slope(c, p, x, y, x2, y2) /\ ~Opposite(p, x, y, x2, y2)
  BY <1>1, <1>5, <1>9 DEF Slope, Opposite
<1>11. \E x3, y3 : PointAdd(c, <<x, y>>, <<x2, y2>>) = <<x3, y3>> /\ OnLine(p, x, y, x2, L, x3, y3)
  BY <1>2, <1>6, <1>9, <1>10, LineSum
<1> QED BY <1>1, <1>7, <1>8, <1>11, Zenon

-----------------------------------------------------------------------------
(* The Jacobian operations.                                                  *)

\* What the Jacobian operations need of a curve, with its prime.
HasField(c, p) == p = c.p /\ p \in Nat /\ p > 3 /\ IsPrime(p) /\ c.a \in Int

FieldPoint(p, P) == P = Infinity \/ P \in (0 .. p - 1) \X (0 .. p - 1)

Triple(r, p) == r[1] \in Int /\ r[2] \in Int /\ r[3] \in 0 .. p - 1

\* The triple r stands for the point P.
Represents(p, r, P) ==
  /\ Triple(r, p)
  /\ P = Infinity => r[3] = 0
  /\ P # Infinity => r[3] # 0 /\ Jacobian(p, P[1], P[2], r[1], r[2], r[3])

LEMMA FieldFacts ==
  ASSUME NEW c, NEW p, HasField(c, p)
  PROVE  p \in Nat \ {0} /\ p \in Int /\ IsPrime(p) /\ Same(0, 0, p) /\ ~Same(2, 0, p) /\ Same(1, 1, p) /\ Same(2, 2, p)
<1>1. p \in Nat \ {0} /\ p \in Int /\ IsPrime(p) /\ 2 \in 0 .. p - 1 /\ 2 # 0
  BY DEF HasField
<1>2. ~Same(2, 0, p)
  BY <1>1, SameSmall, Zenon
<1> QED BY <1>1, <1>2, SameRefl

LEMMA NotZero ==
  ASSUME NEW p \in Nat \ {0}, NEW z \in 0 .. p - 1
  PROVE  z = 0 <=> Same(z, 0, p)
BY SameSmall, Zenon

\* Products of what is not zero.
LEMMA NotZeroProduct ==
  ASSUME NEW c, NEW p, HasField(c, p), NEW a \in Int, NEW b \in Int, ~Same(a, 0, p), ~Same(b, 0, p)
  PROVE  ~Same(a * b, 0, p)
BY FieldFacts, SameZeroProduct

LEMMA ZeroProduct ==
  ASSUME NEW p \in Int, NEW a, NEW b, Same(a, 0, p), b \in Int
  PROVE  Same(a * b, 0, p) /\ Same(b * a, 0, p)
<1>1. Same(b, b, p) /\ a \in Int
  BY SameRefl DEF Same
<1>2. Same(a * b, 0 * b, p) /\ 0 * b = 0 /\ a * b = b * a
  BY <1>1, SameProduct
<1> QED BY <1>2

\* _jdouble takes the steps of Doubling.
LEMMA JDoubleSteps ==
  ASSUME NEW c, NEW p, HasField(c, p), NEW r, Triple(r, p)
  PROVE  \E xx, yy, zz, s, m, t, u, v :
           /\ Doubling(p, c.a, r[1], r[2], r[3], xx, yy, zz, s, m, t, u, v)
           /\ JDouble(c, r) = <<t, u, v>> /\ t \in Int /\ u \in Int /\ v \in 0 .. p - 1
<1>1. PICK X, Y, Z, a : X = r[1] /\ Y = r[2] /\ Z = r[3] /\ a = c.a
  OBVIOUS
<1>2. X \in Int /\ Y \in Int /\ Z \in Int /\ a \in Int /\ p \in Nat \ {0} /\ p = c.p
  BY <1>1, FieldFacts DEF Triple, HasField
<1>3. PICK xx, yy, zz : xx = (X * X) % p /\ yy = (Y * Y) % p /\ zz = (Z * Z) % p
  OBVIOUS
<1>4. X * X \in Int /\ Y * Y \in Int /\ Z * Z \in Int
  BY <1>2
<1>5. xx \in Int /\ yy \in Int /\ zz \in Int
  BY <1>2, <1>3, <1>4, ModRange
<1>6. PICK s, m : s = (2 * ((X + yy) * (X + yy) - xx - yy * yy)) % p /\ m = (3 * xx + a * zz * zz) % p
  OBVIOUS
<1>7. 2 * ((X + yy) * (X + yy) - xx - yy * yy) \in Int /\ 3 * xx + a * zz * zz \in Int
  BY <1>2, <1>5
<1>8. s \in Int /\ m \in Int
  BY <1>2, <1>6, <1>7, ModRange
<1>9. PICK t : t = (m * m - 2 * s) % p
  OBVIOUS
<1>10. m * m - 2 * s \in Int
  BY <1>8
<1>11. t \in Int
  BY <1>2, <1>9, <1>10, ModRange
<1>12. PICK u, v : u = (m * (s - t) - 8 * yy * yy) % p /\ v = ((Y + Z) * (Y + Z) - yy - zz) % p
  OBVIOUS
<1>13. m * (s - t) - 8 * yy * yy \in Int /\ (Y + Z) * (Y + Z) - yy - zz \in Int
  BY <1>2, <1>5, <1>8, <1>11
<1>14. u \in Int /\ v \in 0 .. p - 1
  BY <1>2, <1>12, <1>13, ModRange
<1>15. Doubling(p, a, X, Y, Z, xx, yy, zz, s, m, t, u, v)
  BY <1>3, <1>6, <1>9, <1>12, Zenon DEF Doubling
<1>16. JDouble(c, r) = <<t, u, v>>
  <2>1. xx = (r[1] * r[1]) % c.p /\ yy = (r[2] * r[2]) % c.p /\ zz = (r[3] * r[3]) % c.p
    BY <1>1, <1>2, <1>3, Zenon
  <2>2. s = (2 * (Square(r[1] + yy) - xx - yy * yy)) % c.p /\ m = (3 * xx + c.a * zz * zz) % c.p
    BY <1>1, <1>2, <1>6, Zenon DEF Square
  <2>3. t = (m * m - 2 * s) % c.p /\ u = (m * (s - t) - 8 * yy * yy) % c.p
        /\ v = (Square(r[2] + r[3]) - yy - zz) % c.p
    BY <1>1, <1>2, <1>9, <1>12, Zenon DEF Square
  <2> QED BY <2>1, <2>2, <2>3, Zenon DEF JDouble
<1> QED BY <1>1, <1>11, <1>14, <1>15, <1>16, Zenon

\* The double of a triple stands for the double of the point.
LEMMA JDoubleIs ==
  ASSUME NEW c, NEW p, HasField(c, p), NEW P, FieldPoint(p, P), NEW r, Represents(p, r, P)
  PROVE  Represents(p, JDouble(c, r), PointAdd(c, P, P))
<1>1. Triple(r, p)
  BY DEF Represents
<1>2. PICK xx, yy, zz, s, m, t, u, v :
        /\ Doubling(p, c.a, r[1], r[2], r[3], xx, yy, zz, s, m, t, u, v)
        /\ JDouble(c, r) = <<t, u, v>> /\ t \in Int /\ u \in Int /\ v \in 0 .. p - 1
  BY <1>1, JDoubleSteps, Zenon
<1>3. PICK X, Y, Z, a : X = r[1] /\ Y = r[2] /\ Z = r[3] /\ a = c.a
  OBVIOUS
<1>4. X \in Int /\ Y \in Int /\ Z \in Int /\ Z \in 0 .. p - 1 /\ a \in Int /\ p \in Nat \ {0} /\ p \in Int
  BY <1>1, <1>3, FieldFacts DEF Triple, HasField
<1>5. Same(v, 2 * Y * Z, p)
  BY <1>2, <1>3, <1>4, DoublingZ, Zenon
<1>6. /\ JDouble(c, r)[1] = t /\ JDouble(c, r)[2] = u /\ JDouble(c, r)[3] = v
      /\ Triple(JDouble(c, r), p)
  BY <1>2 DEF Triple
<1>7. 2 * Y \in Int /\ 2 * Y * Z = (2 * Y) * Z
  BY <1>4
<1>8. CASE P = Infinity
  <2>1. Z = 0
    BY <1>3, <1>8 DEF Represents
  <2>2. Same(v, 0, p)
    BY <1>4, <1>5, <2>1
  <2>3. v = 0
    BY <1>2, <1>4, <2>2, NotZero
  <2>4. PointAdd(c, P, P) = Infinity
    BY <1>8, Zenon DEF PointAdd
  <2> QED BY <1>6, <2>3, <2>4, Zenon DEF Represents
<1>9. CASE P # Infinity
  <2>1. PICK x \in 0 .. p - 1, y \in 0 .. p - 1 : P = <<x, y>>
    BY <1>9 DEF FieldPoint
  <2>2. P[1] = x /\ P[2] = y /\ x \in Int /\ y \in Int /\ y + y \in Int
    BY <1>4, <2>1
  <2>3. Z # 0 /\ Jacobian(p, x, y, X, Y, Z)
    BY <1>3, <1>9, <2>2, Zenon DEF Represents
  <2>4. CASE Same(y + y, 0, p)
    <3>1. (y + y) % p = 0
      <4>1. 0 \in 0 .. p - 1
        BY <1>4
      <4> QED BY <1>4, <2>4, <4>1, SameEqual, Zenon
    <3>2. PointAdd(c, P, P) = Infinity
      BY <2>1, <2>2, <3>1, OppositeSum DEF HasField
    <3>3. Same(2 * Y, 2 * ((y * (Z * Z)) * Z), p)
      BY <1>4, <2>3, FieldFacts, SameProduct DEF Jacobian
    <3>4. 2 * ((y * (Z * Z)) * Z) = (y + y) * (Z * Z * Z) /\ Z * Z * Z \in Int
      BY <1>4, <2>2
    <3>5. Same((y + y) * (Z * Z * Z), 0, p)
      BY <1>4, <2>4, <3>4, ZeroProduct
    <3>6. Same(2 * Y, 0, p)
      BY <1>4, <3>3, <3>4, <3>5, SameTrans
    <3>7. Same(v, 0, p)
      <4>1. Same((2 * Y) * Z, 0, p)
        BY <1>4, <3>6, ZeroProduct, Zenon
      <4> QED BY <1>4, <1>5, <1>7, <4>1, SameTrans
    <3>8. v = 0
      BY <1>2, <1>4, <3>7, NotZero
    <3> QED BY <1>6, <3>2, <3>8, Zenon DEF Represents
  <2>5. CASE ~Same(y + y, 0, p)
    <3>1. p = c.p /\ p \in Nat /\ IsPrime(p) /\ c.a \in Int
      BY DEF HasField
    <3>2. PICK x3, y3, L : /\ PointAdd(c, <<x, y>>, <<x, y>>) = <<x3, y3>> /\ OnLine(p, x, y, x, L, x3, y3)
                           /\ Same(L * (2 * y), 3 * x * x + c.a, p)
      BY <2>2, <2>5, <3>1, TangentSum, Zenon
    <3>3. /\ L \in Int /\ x3 \in Int /\ y3 \in Int
          /\ Same(x3, L * L - x - x, p) /\ Same(y3, L * (x - x3) - y, p)
      BY <3>2 DEF OnLine
    <3>4. Jacobian(p, x3, y3, t, u, v)
      BY <1>2, <1>3, <1>4, <2>2, <2>3, <3>2, <3>3, DoublingTangent, Zenon
    <3>5. ~Same(Y, 0, p)
      <4>1. y + y = 2 * y
        BY <2>2
      <4>2. ~Same(y, 0, p)
        <5>1. ASSUME Same(y, 0, p) PROVE Same(2 * y, 0, p)
          <6>1. 2 \in Int
            OBVIOUS
          <6> QED BY <1>4, <5>1, <6>1, ZeroProduct, Zenon
        <5> QED BY <2>5, <4>1, <5>1, Zenon
      <4>3. ~Same(Z, 0, p)
        BY <1>4, <2>3, NotZero
      <4>4. ~Same(Z * Z, 0, p) /\ Z * Z \in Int
        BY <1>4, <4>3, NotZeroProduct
      <4>5. ~Same(y * (Z * Z), 0, p) /\ y * (Z * Z) \in Int
        <5>1. ~Same(y * (Z * Z), 0, p)
          BY <2>2, <4>2, <4>4, NotZeroProduct, Zenon
        <5> QED BY <2>2, <4>4, <5>1
      <4>6. ~Same((y * (Z * Z)) * Z, 0, p)
        BY <1>4, <4>3, <4>5, NotZeroProduct
      <4>7. Same((y * (Z * Z)) * Z, Y, p)
        BY <1>4, <2>3, SameSym DEF Jacobian
      <4> QED BY <1>4, <4>6, <4>7, SameTrans
    <3>6. ~Same(Z, 0, p)
      BY <1>4, <2>3, NotZero
    <3>7. ~Same(2 * Y, 0, p)
      BY <1>4, <3>5, FieldFacts, NotZeroProduct
    <3>8. ~Same((2 * Y) * Z, 0, p)
      BY <1>4, <1>7, <3>6, <3>7, NotZeroProduct
    <3>9. v # 0
      <4>1. ASSUME v = 0 PROVE FALSE
        <5>1. Same(v, 0, p)
          BY <1>2, <1>4, <4>1, NotZero
        <5>2. Same(2 * Y * Z, v, p)
          BY <1>4, <1>5, SameSym
        <5> QED BY <1>4, <1>7, <3>8, <5>1, <5>2, SameTrans
      <4> QED BY <4>1
    <3>10. <<x3, y3>> # Infinity /\ <<x3, y3>>[1] = x3 /\ <<x3, y3>>[2] = y3
      BY DEF Infinity
    <3> QED BY <1>6, <2>1, <3>2, <3>4, <3>9, <3>10, Zenon DEF Represents
  <2> QED BY <2>4, <2>5
<1> QED BY <1>8, <1>9

LEMMA JAddMixedSteps ==
  ASSUME NEW c, NEW p, HasField(c, p), NEW r, Triple(r, p), NEW x2 \in Int, NEW y2 \in Int
  PROVE  \E zz, h, d, hh, j, v, t, u, z :
           /\ Adding(p, r[1], r[2], r[3], x2, y2, zz, h, d, hh, j, v, t, u, z)
           /\ JAddMixed(c, r, <<x2, y2>>) = [sum |-> <<t, u, z>>, equal |-> IF h = 0 /\ d = 0 THEN 1 ELSE 0]
           /\ t \in Int /\ u \in Int /\ z \in 0 .. p - 1
<1>1. PICK X, Y, Z : X = r[1] /\ Y = r[2] /\ Z = r[3]
  OBVIOUS
<1>2. X \in Int /\ Y \in Int /\ Z \in Int /\ p \in Nat \ {0} /\ p = c.p
  BY <1>1, FieldFacts DEF Triple, HasField
<1>3. PICK zz : zz = (Z * Z) % p
  OBVIOUS
<1>4. Z * Z \in Int
  BY <1>2
<1>5. zz \in Int
  BY <1>2, <1>3, <1>4, ModRange
<1>6. PICK h, d : h = (x2 * zz - X) % p /\ d = (2 * (y2 * Z * zz - Y)) % p
  OBVIOUS
<1>7. x2 * zz - X \in Int /\ 2 * (y2 * Z * zz - Y) \in Int
  BY <1>2, <1>5
<1>8. h \in Int /\ d \in Int
  BY <1>2, <1>6, <1>7, ModRange
<1>9. PICK hh : hh = (h * h) % p
  OBVIOUS
<1>10. h * h \in Int
  BY <1>8
<1>11. hh \in Int
  BY <1>2, <1>9, <1>10, ModRange
<1>12. PICK j, v : j = (4 * h * hh) % p /\ v = (4 * X * hh) % p
  OBVIOUS
<1>13. 4 * h * hh \in Int /\ 4 * X * hh \in Int
  BY <1>2, <1>8, <1>11
<1>14. j \in Int /\ v \in Int
  BY <1>2, <1>12, <1>13, ModRange
<1>15. PICK t : t = (d * d - j - 2 * v) % p
  OBVIOUS
<1>16. d * d - j - 2 * v \in Int
  BY <1>8, <1>14
<1>17. t \in Int
  BY <1>2, <1>15, <1>16, ModRange
<1>18. PICK u, z : u = (d * (v - t) - 2 * Y * j) % p /\ z = ((Z + h) * (Z + h) - zz - hh) % p
  OBVIOUS
<1>19. d * (v - t) - 2 * Y * j \in Int /\ (Z + h) * (Z + h) - zz - hh \in Int
  BY <1>2, <1>5, <1>8, <1>11, <1>14, <1>17
<1>20. u \in Int /\ z \in 0 .. p - 1
  BY <1>2, <1>18, <1>19, ModRange
<1>21. Adding(p, X, Y, Z, x2, y2, zz, h, d, hh, j, v, t, u, z)
  BY <1>3, <1>6, <1>9, <1>12, <1>15, <1>18, Zenon DEF Adding
<1>22. JAddMixed(c, r, <<x2, y2>>) = [sum |-> <<t, u, z>>, equal |-> IF h = 0 /\ d = 0 THEN 1 ELSE 0]
  <2>1. PICK q : q = <<x2, y2>>
    OBVIOUS
  <2>2. q[1] = x2 /\ q[2] = y2
    BY <2>1
  <2>3. zz = (r[3] * r[3]) % c.p /\ h = (q[1] * zz - r[1]) % c.p /\ d = (2 * (q[2] * r[3] * zz - r[2])) % c.p
    BY <1>1, <1>2, <1>3, <1>6, <2>2, Zenon
  <2>4. hh = (h * h) % c.p /\ j = (4 * h * hh) % c.p /\ v = (4 * r[1] * hh) % c.p
    BY <1>1, <1>2, <1>9, <1>12, Zenon
  <2>5. t = (d * d - j - 2 * v) % c.p /\ u = (d * (v - t) - 2 * r[2] * j) % c.p
        /\ z = (Square(r[3] + h) - zz - hh) % c.p
    BY <1>1, <1>2, <1>15, <1>18, Zenon DEF Square
  <2>6. JAddMixed(c, r, q) = [sum |-> <<t, u, z>>, equal |-> IF h = 0 /\ d = 0 THEN 1 ELSE 0]
    BY <2>3, <2>4, <2>5, Zenon DEF JAddMixed
  <2> QED BY <2>1, <2>6, Zenon
<1> QED BY <1>1, <1>17, <1>20, <1>21, <1>22, Zenon

LEMMA AffineTriple ==
  ASSUME NEW c, NEW p, HasField(c, p), NEW x \in 0 .. p - 1, NEW y \in 0 .. p - 1
  PROVE  Represents(p, <<x, y, 1>>, <<x, y>>) /\ <<x, y>> # Infinity /\ FieldPoint(p, <<x, y>>)
<1>1. p \in Nat \ {0} /\ p \in Int /\ x \in Int /\ y \in Int /\ 1 \in 0 .. p - 1 /\ 1 # 0 /\ 1 \in Int
  BY FieldFacts DEF HasField
<1>2. x * (1 * 1) = x /\ (y * (1 * 1)) * 1 = y
  BY <1>1
<1>3. Jacobian(p, x, y, x, y, 1)
  BY <1>1, <1>2, SameRefl DEF Jacobian
<1>4. <<x, y, 1>>[1] = x /\ <<x, y, 1>>[2] = y /\ <<x, y, 1>>[3] = 1 /\ <<x, y>>[1] = x /\ <<x, y>>[2] = y
  OBVIOUS
<1>5. <<x, y>> # Infinity /\ <<x, y>> \in (0 .. p - 1) \X (0 .. p - 1)
  BY DEF Infinity
<1> QED BY <1>1, <1>3, <1>4, <1>5, Zenon DEF Represents, Triple, FieldPoint

\* Points of the curve with one abscissa are equal or opposite.
Meet(p, P, x2, y2) == P # Infinity /\ P[1] = x2 => P[2] = y2 \/ (P[2] + y2) % p = 0

\* The sum with both corrections stands for the sum of the points.
LEMMA AddIs ==
  ASSUME NEW c, NEW p, HasField(c, p), NEW P, FieldPoint(p, P), NEW r, Represents(p, r, P),
         NEW x2 \in 0 .. p - 1, NEW y2 \in 0 .. p - 1, Meet(p, P, x2, y2)
  PROVE  Represents(p, Add(c, <<x2, y2>>, r), PointAdd(c, P, <<x2, y2>>))
<1>1. Triple(r, p) /\ x2 \in Int /\ y2 \in Int /\ p \in Nat \ {0} /\ p \in Int
  BY FieldFacts DEF Represents
<1>2. PICK q : q = <<x2, y2>>
  OBVIOUS
<1>3. q[1] = x2 /\ q[2] = y2 /\ q # Infinity /\ FieldPoint(p, q) /\ Represents(p, <<x2, y2, 1>>, q)
  BY <1>2, AffineTriple
<1>4. PICK zz, h, d, hh, j, v, t, u, z :
        /\ Adding(p, r[1], r[2], r[3], x2, y2, zz, h, d, hh, j, v, t, u, z)
        /\ JAddMixed(c, r, <<x2, y2>>) = [sum |-> <<t, u, z>>, equal |-> IF h = 0 /\ d = 0 THEN 1 ELSE 0]
        /\ t \in Int /\ u \in Int /\ z \in 0 .. p - 1
  BY <1>1, JAddMixedSteps, Zenon
<1>5. PICK e : e = JAddMixed(c, r, q).equal
  OBVIOUS
<1>6. /\ JAddMixed(c, r, q).sum = <<t, u, z>> /\ e \in {0, 1} /\ (e = 1 <=> h = 0 /\ d = 0)
      /\ Add(c, q, r) = IF r[3] = 0 THEN <<x2, y2, 1>> ELSE IF e = 1 THEN JDouble(c, <<x2, y2, 1>>) ELSE <<t, u, z>>
  <2>1. JAddMixed(c, r, q).sum = <<t, u, z>> /\ e = IF h = 0 /\ d = 0 THEN 1 ELSE 0
    BY <1>2, <1>4, <1>5
  <2>2. e \in {0, 1} /\ (e = 1 <=> h = 0 /\ d = 0)
    BY <2>1
  <2>3. Add(c, q, r) = Select(IF r[3] = 0 THEN 1 ELSE 0, <<x2, y2, 1>>, Select(e, JDouble(c, <<x2, y2, 1>>), <<t, u, z>>))
    BY <1>3, <1>5, <2>1, Zenon DEF Add
  <2>4. (IF r[3] = 0 THEN 1 ELSE 0) = 1 <=> r[3] = 0
    OBVIOUS
  <2> QED BY <2>1, <2>2, <2>3, <2>4, Zenon DEF Select
<1>7. Triple(<<t, u, z>>, p) /\ <<t, u, z>>[1] = t /\ <<t, u, z>>[2] = u /\ <<t, u, z>>[3] = z
  BY <1>4 DEF Triple
<1>8. PICK X, Y, Z : X = r[1] /\ Y = r[2] /\ Z = r[3]
  OBVIOUS
<1>9. CASE P = Infinity
  <2>1. r[3] = 0
    BY <1>9 DEF Represents
  <2>2. PointAdd(c, P, q) = q
    BY <1>9, Zenon DEF PointAdd
  <2> QED BY <1>2, <1>3, <1>6, <2>1, <2>2, Zenon
<1>10. CASE P # Infinity
  <2>1. PICK x \in 0 .. p - 1, y \in 0 .. p - 1 : P = <<x, y>>
    BY <1>10 DEF FieldPoint
  <2>2. P[1] = x /\ P[2] = y /\ x \in Int /\ y \in Int
    BY <1>1, <2>1
  <2>3. Z # 0 /\ Jacobian(p, x, y, X, Y, Z) /\ r[3] # 0
    BY <1>8, <1>10, <2>2, Zenon DEF Represents
  <2>4. Z \in Int /\ Z \in 0 .. p - 1 /\ Z * Z \in Int /\ (Z * Z) * Z \in Int
    BY <1>1, <1>8 DEF Triple
  <2>5. ~Same(Z, 0, p) /\ ~Same(Z * Z, 0, p) /\ ~Same((Z * Z) * Z, 0, p)
    <3>1. ~Same(Z, 0, p)
      BY <1>1, <2>3, <2>4, NotZero
    <3>2. ~Same(Z * Z, 0, p)
      BY <2>4, <3>1, NotZeroProduct
    <3> QED BY <2>4, <3>1, <3>2, NotZeroProduct
  <2>6. /\ Same(h, (x2 - x) * (Z * Z), p) /\ h \in 0 .. p - 1
        /\ Same(d, ((y2 - y) * 2) * ((Z * Z) * Z), p) /\ d \in 0 .. p - 1
        /\ Same(z, 2 * Z * h, p)
    BY <1>1, <1>4, <1>8, <2>3, AddingDifferences, Zenon
  <2>7. (x2 - x) \in Int /\ (y2 - y) \in Int /\ (y2 - y) * 2 \in Int /\ h \in Int /\ d \in Int
    BY <1>1, <2>2, <2>6
  <2>8. CASE x = x2 /\ y = y2
    <3>1. (x2 - x) * (Z * Z) = 0 /\ ((y2 - y) * 2) * ((Z * Z) * Z) = 0
      BY <1>1, <2>4, <2>8
    <3>2. h = 0 /\ d = 0
      BY <1>1, <2>6, <3>1, NotZero
    <3>3. P = q
      BY <1>2, <2>1, <2>8
    <3>4. Represents(p, JDouble(c, <<x2, y2, 1>>), PointAdd(c, q, q))
      BY <1>3, JDoubleIs, Zenon
    <3> QED BY <1>2, <1>6, <2>3, <3>2, <3>3, <3>4, Zenon
  <2>9. CASE x = x2 /\ y # y2
    <3>1. (y + y2) % p = 0
      BY <1>10, <2>2, <2>9 DEF Meet
    <3>2. PointAdd(c, P, q) = Infinity
      BY <1>1, <1>2, <2>1, <2>2, <2>9, <3>1, OppositeSum DEF HasField
    <3>3. ~Same(y2 - y, 0, p)
      <4>1. ASSUME Same(y2 - y, 0, p) PROVE FALSE
        <5>1. Same(y, y, p)
          BY <1>1, <2>2, SameRefl
        <5>2. Same((y2 - y) + y, 0 + y, p)
          BY <1>1, <4>1, <5>1, SameSum
        <5>3. (y2 - y) + y = y2 /\ 0 + y = y
          BY <1>1, <2>2
        <5>4. Same(y2, y, p)
          BY <5>2, <5>3
        <5> QED BY <1>1, <2>9, <5>4, SameEqual, Zenon
      <4> QED BY <4>1
    <3>4. ~Same((y2 - y) * 2, 0, p)
      <4>1. 2 \in Int
        OBVIOUS
      <4> QED BY <2>7, <3>3, <4>1, FieldFacts, NotZeroProduct, Zenon
    <3>5. ~Same(((y2 - y) * 2) * ((Z * Z) * Z), 0, p)
      BY <2>4, <2>5, <2>7, <3>4, NotZeroProduct, Zenon
    <3>6. d # 0
      <4>1. ASSUME d = 0 PROVE FALSE
        <5>1. Same(((y2 - y) * 2) * ((Z * Z) * Z), d, p)
          BY <1>1, <2>6, SameSym, Zenon
        <5> QED BY <3>5, <4>1, <5>1
      <4> QED BY <4>1
    <3>7. h = 0
      <4>1. (x2 - x) * (Z * Z) = 0
        BY <2>2, <2>4, <2>9
      <4> QED BY <1>1, <2>6, <4>1, NotZero
    <3>8. z = 0
      <4>1. 2 * Z * h = 0
        BY <2>4, <3>7
      <4> QED BY <1>1, <1>4, <2>6, <4>1, NotZero
    <3> QED BY <1>2, <1>6, <1>7, <2>3, <3>2, <3>6, <3>8, Zenon DEF Represents
  <2>10. CASE x # x2
    <3>1. ~Same(x2 - x, 0, p)
      <4>1. ASSUME Same(x2 - x, 0, p) PROVE FALSE
        <5>1. Same(x, x, p)
          BY <1>1, <2>2, SameRefl
        <5>2. Same((x2 - x) + x, 0 + x, p)
          BY <1>1, <4>1, <5>1, SameSum
        <5>3. (x2 - x) + x = x2 /\ 0 + x = x
          BY <1>1, <2>2
        <5>4. Same(x2, x, p)
          BY <5>2, <5>3
        <5> QED BY <1>1, <2>10, <5>4, SameEqual, Zenon
      <4> QED BY <4>1
    <3>2. ~Same((x2 - x) * (Z * Z), 0, p)
      BY <2>4, <2>5, <2>7, <3>1, NotZeroProduct, Zenon
    <3>3. ~Same(h, 0, p)
      <4>1. Same((x2 - x) * (Z * Z), h, p)
        BY <1>1, <2>6, SameSym, Zenon
      <4> QED BY <1>1, <3>2, <4>1, SameTrans
    <3>4. h # 0
      BY <1>1, <2>6, <3>3, NotZero
    <3>5. ~Same(2 * Z * h, 0, p)
      <4>1. 2 \in Int /\ 2 * Z \in Int
        BY <2>4
      <4>2. ~Same(2 * Z, 0, p)
        BY <2>4, <2>5, <4>1, FieldFacts, NotZeroProduct, Zenon
      <4> QED BY <2>7, <3>3, <4>1, <4>2, NotZeroProduct, Zenon
    <3>6. z # 0
      <4>1. ASSUME z = 0 PROVE FALSE
        <5>1. Same(2 * Z * h, z, p)
          BY <1>1, <2>6, SameSym, Zenon
        <5> QED BY <3>5, <4>1, <5>1
      <4> QED BY <4>1
    <3>7. p = c.p /\ p \in Nat /\ IsPrime(p)
      BY DEF HasField
    <3>8. PICK x3, y3, L : /\ PointAdd(c, <<x, y>>, <<x2, y2>>) = <<x3, y3>> /\ OnLine(p, x, y, x2, L, x3, y3)
                           /\ Same(L * (x2 - x), y2 - y, p)
      BY <1>1, <2>2, <3>1, <3>7, ChordSum, Zenon
    <3>9. /\ L \in Int /\ x3 \in Int /\ y3 \in Int
          /\ Same(x3, L * L - x - x2, p) /\ Same(y3, L * (x - x3) - y, p)
      BY <3>8 DEF OnLine
    <3>10. Jacobian(p, x3, y3, t, u, z)
      BY <1>1, <1>4, <1>8, <2>3, <3>8, <3>9, AddingChord, Zenon
    <3>11. <<x3, y3>> # Infinity /\ <<x3, y3>>[1] = x3 /\ <<x3, y3>>[2] = y3
      BY DEF Infinity
    <3>12. Represents(p, <<t, u, z>>, <<x3, y3>>)
      BY <1>7, <3>6, <3>10, <3>11, Zenon DEF Represents
    <3> QED BY <1>2, <1>6, <2>1, <2>3, <3>4, <3>8, <3>12, Zenon
  <2> QED BY <2>8, <2>9, <2>10
<1> QED BY <1>9, <1>10

\* The point of a triple is computed back.
LEMMA AffineIs ==
  ASSUME NEW c, NEW p, HasField(c, p), NEW P, FieldPoint(p, P), NEW r, Represents(p, r, P)
  PROVE  Affine(c, r) = P
<1>1. p \in Nat \ {0} /\ p \in Int /\ p \in Nat /\ IsPrime(p) /\ p = c.p
  BY FieldFacts DEF HasField
<1>2. PICK X, Y, Z : X = r[1] /\ Y = r[2] /\ Z = r[3]
  OBVIOUS
<1>3. X \in Int /\ Y \in Int /\ Z \in Int /\ Z \in 0 .. p - 1
  BY <1>1, <1>2 DEF Represents, Triple
<1>4. CASE P = Infinity
  BY <1>4, Zenon DEF Represents, Affine
<1>5. CASE P # Infinity
  <2>1. PICK x \in 0 .. p - 1, y \in 0 .. p - 1 : P = <<x, y>>
    BY <1>5 DEF FieldPoint
  <2>2. P[1] = x /\ P[2] = y /\ x \in Int /\ y \in Int
    BY <1>1, <2>1
  <2>3. Z # 0 /\ Jacobian(p, x, y, X, Y, Z)
    BY <1>2, <1>5, <2>2, Zenon DEF Represents
  <2>4. PICK i : i = Inv(Z, p)
    OBVIOUS
  <2>5. i \in Int /\ Same(Z * i, 1, p)
    <3>1. Z % p = Z
      BY <1>1, <1>3
    <3>2. Same(Z, Z, p) /\ ~Same(Z, 0, p)
      BY <1>1, <1>3, <2>3, NotZero, SameRefl
    <3> QED BY <1>1, <2>4, <3>1, <3>2, PrimeInverse
  <2>6. PICK e : e = Z * i
    OBVIOUS
  <2>7. e \in Int /\ Same(e, 1, p) /\ Same(e * e, 1, p) /\ Same((e * e) * e, 1, p)
    <3>1. e \in Int /\ Same(e, 1, p) /\ 1 * 1 = 1
      BY <1>3, <2>5, <2>6
    <3>2. Same(e * e, 1, p)
      BY <1>1, <3>1, SameProduct, Zenon
    <3> QED BY <1>1, <3>1, <3>2, SameProduct, Zenon
  <2>8. Same(i, i, p) /\ Same(x, x, p) /\ Same(y, y, p)
    BY <1>1, <2>2, <2>5, SameRefl
  <2>9. Same(X * i * i, x, p)
    <3>1. Same(X * i * i, (x * (Z * Z)) * i * i, p)
      BY <1>1, <2>3, <2>8, SameProduct DEF Jacobian
    <3>2. (x * (Z * Z)) * i * i = x * (e * e)
      BY <1>3, <2>2, <2>5, <2>6
    <3>3. Same(x * (e * e), x, p)
      <4>1. x * 1 = x
        BY <2>2
      <4> QED BY <1>1, <2>7, <2>8, <4>1, SameProduct, Zenon
    <3> QED BY <1>1, <3>1, <3>2, <3>3, SameTrans
  <2>10. Same(((Y * i * i) % p) * i, y, p)
    <3>1. Same(Y * i * i, ((y * (Z * Z)) * Z) * i * i, p)
      BY <1>1, <2>3, <2>8, SameProduct DEF Jacobian
    <3>2. Same((Y * i * i) % p, ((y * (Z * Z)) * Z) * i * i, p)
      BY <1>1, <3>1, SameMod
    <3>3. Same(((Y * i * i) % p) * i, (((y * (Z * Z)) * Z) * i * i) * i, p)
      BY <1>1, <2>8, <3>2, SameProduct
    <3>4. (((y * (Z * Z)) * Z) * i * i) * i = y * ((e * e) * e)
      BY <1>3, <2>2, <2>5, <2>6
    <3>5. Same(y * ((e * e) * e), y, p)
      <4>1. y * 1 = y
        BY <2>2
      <4> QED BY <1>1, <2>7, <2>8, <4>1, SameProduct, Zenon
    <3> QED BY <1>1, <3>3, <3>4, <3>5, SameTrans
  <2>11. (X * i * i) % p = x /\ (((Y * i * i) % p) * i) % p = y
    BY <1>1, <2>9, <2>10, SameEqual, Zenon
  <2>12. AffineAt(c, r, i) = <<x, y>>
    BY <1>1, <1>2, <2>11, Zenon DEF AffineAt
  <2> QED BY <1>1, <1>2, <2>1, <2>3, <2>4, <2>12, Zenon DEF Affine
<1> QED BY <1>4, <1>5

-----------------------------------------------------------------------------
(* The loop of _scalar_mult.                                                 *)

Triples(p) == Int \X Int \X (0 .. p - 1)

LEMMA MulStepType ==
  ASSUME NEW c, NEW p, HasField(c, p), NEW x2 \in 0 .. p - 1, NEW y2 \in 0 .. p - 1, NEW r \in Triples(p), NEW b
  PROVE  MulStep(c, <<x2, y2>>, JDouble(c, r), b) \in Triples(p)
<1>1. PICK q : q = <<x2, y2>>
  OBVIOUS
<1>2. q[1] = x2 /\ q[2] = y2 /\ x2 \in Int /\ y2 \in Int /\ 1 \in 0 .. p - 1
  BY <1>1, FieldFacts DEF HasField
<1>3. <<x2, y2, 1>> \in Triples(p)
  BY <1>2 DEF Triples
<1>4. ASSUME NEW s \in Triples(p) PROVE Triple(s, p)
  BY DEF Triples, Triple
<1>5. ASSUME NEW s \in Triples(p) PROVE JDouble(c, s) \in Triples(p)
  <2>1. Triple(s, p)
    BY <1>4
  <2>2. PICK xx, yy, zz, m, n, t, u, v : Doubling(p, c.a, s[1], s[2], s[3], xx, yy, zz, m, n, t, u, v)
                 /\ JDouble(c, s) = <<t, u, v>> /\ t \in Int /\ u \in Int /\ v \in 0 .. p - 1
    BY <2>1, JDoubleSteps, Zenon
  <2> QED BY <2>2 DEF Triples
<1>6. PICK d : d = JDouble(c, r)
  OBVIOUS
<1>7. d \in Triples(p) /\ Triple(d, p)
  BY <1>4, <1>5, <1>6
<1>8. JAddMixed(c, d, q).sum \in Triples(p)
  <2>1. PICK zz, h, e, hh, j, v, t, u, z :
                          /\ Adding(p, d[1], d[2], d[3], x2, y2, zz, h, e, hh, j, v, t, u, z)
                          /\ JAddMixed(c, d, <<x2, y2>>) = [sum |-> <<t, u, z>>, equal |-> IF h = 0 /\ e = 0 THEN 1 ELSE 0]
                          /\ t \in Int /\ u \in Int /\ z \in 0 .. p - 1
    <3>1. Triple(d, p) /\ x2 \in Int /\ y2 \in Int
      BY <1>2, <1>7
    <3> QED BY <3>1, JAddMixedSteps, Zenon
  <2> QED BY <1>1, <2>1 DEF Triples
<1>9. Add(c, q, d) \in Triples(p)
  BY <1>2, <1>3, <1>5, <1>8, Zenon DEF Add, Select
<1> QED BY <1>1, <1>6, <1>7, <1>9, Zenon DEF MulStep, Select

\* The values of r, one after another.
Ladder(c, k, q, bits, f) ==
  /\ f[0] = <<1, 1, 0>>
  /\ \A i \in 1 .. bits : f[i] = MulStep(c, q, JDouble(c, f[i - 1]), Bit(k, bits - i))

LEMMA LadderExists ==
  ASSUME NEW c, NEW p, HasField(c, p), NEW x2 \in 0 .. p - 1, NEW y2 \in 0 .. p - 1, NEW k,
         NEW bits \in Nat, bits = BitLength(c.n)
  PROVE  \E f : Ladder(c, k, <<x2, y2>>, bits, f) /\ ScalarMult(c, k, <<x2, y2>>) = Affine(c, f[bits])
<1>1. PICK q : q = <<x2, y2>>
  OBVIOUS
<1> DEFINE D == 0 .. bits
           U == Triples(p)
           B(f, i) == IF i = 0 THEN <<1, 1, 0>> ELSE MulStep(c, q, JDouble(c, f[i - 1]), Bit(k, bits - i))
           Rule == [x \in [D -> U] \X D |-> B(x[1], x[2])]
           V == CHOOSE f : f = [i \in 0 .. bits |-> B(f, i)]
<1>2. \A i \in D : i # 0 => i - 1 \in 0 .. i - 1 /\ i - 1 \in D
  OBVIOUS
<1>3. <<1, 1, 0>> \in U
  BY FieldFacts DEF Triples
<1>4. \A f \in [D -> U], i \in D : B(f, i) \in U
  <2> TAKE f \in [D -> U], i \in D
  <2>1. ASSUME i # 0 PROVE MulStep(c, q, JDouble(c, f[i - 1]), Bit(k, bits - i)) \in U
    <3>1. f[i - 1] \in Triples(p)
      BY <1>2, <2>1
    <3> QED BY <1>1, <3>1, MulStepType, Zenon
  <2> QED BY <1>3, <2>1, Zenon
<1>5. ASSUME NEW f, NEW g, NEW i \in D, i # 0 => f[i - 1] = g[i - 1] PROVE B(f, i) = B(g, i)
  BY <1>5, Zenon
<1>6. ScalarMult(c, k, q) = Affine(c, V[bits])
  BY Zenon DEF ScalarMult
<1>7. ASSUME NEW f PROVE B(f, 0) = <<1, 1, 0>>
  BY Zenon
<1>8. ASSUME NEW f, NEW i \in 1 .. bits PROVE B(f, i) = MulStep(c, q, JDouble(c, f[i - 1]), Bit(k, bits - i))
  <2>1. i # 0
    OBVIOUS
  <2> QED BY <2>1, Zenon
<1>. HIDE DEF B
<1>9. Rule \in [[D -> U] \X D -> U]
  BY <1>4, Zenon
<1>10. \A f \in [D -> U], i \in D : Rule[f, i] = B(f, i)
  BY Zenon
<1>11. Recurs(D, U, Rule)
  <2>. HIDE DEF Rule
  <2>1. D \subseteq Nat /\ \A n \in D : \A j \in 0 .. n : j \in D
    OBVIOUS
  <2>2. \A f, g \in [D -> U] : \A n \in D :
          (\A j \in 0 .. n - 1 : f[j] = g[j]) => Rule[f, n] = Rule[g, n]
    <3> TAKE f, g \in [D -> U]
    <3> TAKE n \in D
    <3> HAVE \A j \in 0 .. n - 1 : f[j] = g[j]
    <3>1. B(f, n) = B(g, n)
      BY <1>2, <1>5, Zenon
    <3>2. Rule[f, n] = B(f, n) /\ Rule[g, n] = B(g, n)
      BY <1>10, Zenon
    <3> QED BY <3>1, <3>2, Zenon
  <2> QED BY <2>1, <2>2, <1>9, Zenon DEF Recurs
<1>12. PICK F \in [D -> U] : \A n \in D : F[n] = B(F, n)
  <2>. HIDE DEF Rule
  <2>1. U # {}
    BY <1>3
  <2>. HIDE DEF D, U
  <2>2. HasSolution(D, U, Rule)
    BY <1>11, <2>1, Recursion, Zenon
  <2>3. \E v \in [D -> U] : \A n \in D : v[n] = Rule[v, n]
    BY <2>2, Zenon DEF HasSolution
  <2> QED BY <2>3, <1>10, Zenon
<1>13. F = [i \in 0 .. bits |-> B(F, i)]
  BY <1>12, Zenon
<1>14. V = [i \in 0 .. bits |-> B(V, i)]
  BY <1>13, Zenon
<1>15. PICK f : f = V
  OBVIOUS
<1>16. f = [i \in 0 .. bits |-> B(f, i)]
  BY <1>14, <1>15, Zenon
<1>17. \A i \in 0 .. bits : f[i] = B(f, i)
  BY <1>16, Zenon
<1>18. Ladder(c, k, q, bits, f)
  <2>1. 0 \in 0 .. bits /\ \A i \in 1 .. bits : i \in 0 .. bits
    OBVIOUS
  <2> QED BY <1>7, <1>8, <1>17, <2>1, Zenon DEF Ladder
<1> QED BY <1>1, <1>6, <1>15, <1>18, Zenon

\* A bit more of a quotient by a power of two.
LEMMA HalvedQuotient ==
  ASSUME NEW k \in Nat, NEW w \in Nat \ {0}
  PROVE  k \div w \in Nat /\ k \div (2 * w) \in Nat /\ k \div w = 2 * (k \div (2 * w)) + ((k \div w) % 2)
<1>1. \A a \in Nat, b \in Nat \ {0} : a \div b \in Nat /\ a % b \in 0 .. b - 1 /\ a = b * (a \div b) + (a % b)
  OBVIOUS
<1>2. PICK v : v = 2 * w
  OBVIOUS
<1>3. v \in Nat \ {0}
  BY <1>2
<1>4. PICK q, r, e, s : q = k \div w /\ r = k % w /\ e = k \div v /\ s = k % v
  OBVIOUS
<1>5. /\ q \in Nat /\ r \in 0 .. w - 1 /\ k = w * q + r
      /\ e \in Nat /\ s \in 0 .. v - 1 /\ k = v * e + s
  BY <1>1, <1>3, <1>4, Zenon
<1>6. PICK d : d = q - 2 * e
  OBVIOUS
<1>7. d \in Int /\ w * d = s - r /\ q = 2 * e + d
  BY <1>2, <1>5, <1>6
<1>8. d \in {0, 1}
  <2>1. w * d > -w /\ w * d < 2 * w
    BY <1>2, <1>5, <1>7
  <2>2. ASSUME d >= 2 PROVE FALSE
    <3>1. w * d >= w * 2
      BY <1>7, <2>2
    <3> QED BY <2>1, <3>1, <1>7
  <2>3. ASSUME d <= -1 PROVE FALSE
    <3>1. w * d <= w * (-1)
      BY <1>7, <2>3
    <3> QED BY <2>1, <3>1, <1>7
  <2> QED BY <1>7, <2>2, <2>3
<1>9. q % 2 = d
  BY <1>5, <1>7, <1>8
<1> QED BY <1>2, <1>4, <1>5, <1>7, <1>9

\* Powers of two up to bits.
Doubles(bits) == bits \in Nat /\ \A i \in 1 .. bits : 2 ^ i = 2 * 2 ^ (i - 1)

LEMMA PowersPositive ==
  ASSUME NEW bits, Doubles(bits)
  PROVE  \A i \in 0 .. bits : 2 ^ i \in Nat \ {0}
<1> DEFINE T == {i \in Nat : i <= bits => 2 ^ i \in Nat \ {0}}
<1>1. bits \in Nat
  BY DEF Doubles
<1>2. 2 ^ 0 = 1
  OBVIOUS
<1>3. 0 \in T
  BY <1>2
<1>4. ASSUME NEW i \in Nat, i \in T PROVE i + 1 \in T
  <2>1. ASSUME i + 1 <= bits PROVE 2 ^ (i + 1) \in Nat \ {0}
    <3>1. i + 1 \in 1 .. bits /\ (i + 1) - 1 = i /\ i <= bits
      BY <1>1, <2>1
    <3>2. PICK w : w = 2 ^ i
      OBVIOUS
    <3>3. w \in Nat \ {0}
      BY <1>4, <3>1, <3>2
    <3>4. 2 ^ (i + 1) = 2 * w
      BY <3>1, <3>2, Zenon DEF Doubles
    <3>5. 2 * w \in Nat \ {0}
      BY <3>3
    <3> QED BY <3>4, <3>5, Zenon
  <2>2. i + 1 \in Nat
    OBVIOUS
  <2> QED BY <2>1, <2>2
<1>. HIDE DEF T
<1>5. \A i \in Nat : i \in T
  BY <1>3, <1>4, CountUp
<1>6. \A i \in 0 .. bits : i \in Nat /\ i <= bits
  BY <1>1
<1> QED BY <1>5, <1>6, Zenon DEF T

LEMMA CurveMeet ==
  ASSUME NEW c, NEW p, HasField(c, p), c.b \in Int, NEW x \in 0 .. p - 1, NEW y \in 0 .. p - 1, NEW y2 \in 0 .. p - 1,
         OnCurve(c, <<x, y>>), OnCurve(c, <<x, y2>>)
  PROVE  y = y2 \/ (y + y2) % p = 0
<1>1. p \in Nat \ {0} /\ p \in Int /\ p = c.p /\ IsPrime(p) /\ x \in Int /\ y \in Int /\ y2 \in Int /\ c.a \in Int
      /\ 0 \in 0 .. p - 1
  BY FieldFacts DEF HasField
<1>2. PICK e : e = x * x * x + c.a * x + c.b
  OBVIOUS
<1>3. e \in Int
  BY <1>1, <1>2
<1>4. (y * y - e) % p = 0 /\ (y2 * y2 - e) % p = 0
  <2>1. <<x, y>>[1] = x /\ <<x, y>>[2] = y /\ <<x, y2>>[1] = x /\ <<x, y2>>[2] = y2
    OBVIOUS
  <2> QED BY <1>1, <1>2, <2>1, Zenon DEF OnCurve
<1>5. y * y - e \in Int /\ y2 * y2 - e \in Int /\ y - y2 \in Int /\ y + y2 \in Int
  BY <1>1, <1>3
<1>6. Same(y * y - e, y2 * y2 - e, p)
  BY <1>1, <1>4, <1>5, SameEqual, Zenon
<1>7. Same(y2 * y2 - e, y2 * y2 - e, p)
  BY <1>1, <1>5, SameRefl
<1>8. Same((y * y - e) - (y2 * y2 - e), (y2 * y2 - e) - (y2 * y2 - e), p)
  BY <1>1, <1>6, <1>7, SameDifference
<1>9. (y * y - e) - (y2 * y2 - e) = (y - y2) * (y + y2) /\ (y2 * y2 - e) - (y2 * y2 - e) = 0
  BY <1>1, <1>3
<1>10. Same(y - y2, 0, p) \/ Same(y + y2, 0, p)
  BY <1>1, <1>5, <1>8, <1>9, SameZeroProduct
<1>11. ASSUME Same(y - y2, 0, p) PROVE y = y2
  <2>1. Same(y2, y2, p)
    BY <1>1, SameRefl
  <2>2. Same((y - y2) + y2, 0 + y2, p)
    BY <1>1, <1>11, <2>1, SameSum
  <2>3. (y - y2) + y2 = y /\ 0 + y2 = y2
    BY <1>1
  <2>4. Same(y, y2, p)
    BY <2>2, <2>3
  <2> QED BY <1>1, <2>4, SameEqual, Zenon
<1>12. ASSUME Same(y + y2, 0, p) PROVE (y + y2) % p = 0
  BY <1>1, <1>12, SameEqual, Zenon
<1> QED BY <1>10, <1>11, <1>12

-----------------------------------------------------------------------------
(* Multiples of the base point.                                              *)

\* m holds the multiples of the base point, n of them.
IsGroup(c, p, n, m) ==
  /\ HasField(c, p) /\ c.b \in Int /\ n = c.n /\ n \in Nat /\ IsPrime(n)
  /\ m[0] = Infinity
  /\ \A k \in 1 .. n - 1 : m[k] \in (0 .. p - 1) \X (0 .. p - 1) /\ OnCurve(c, m[k])
  /\ \A i, j \in 0 .. n - 1 : PointAdd(c, m[i], m[j]) = m[(i + j) % n]

LEMMA CurveGroup ==
  ASSUME NEW c, IsCurve(c)
  PROVE  IsGroup(c, c.p, c.n, GMultiples(c)) /\ GMultiples(c)[1] = G(c)
BY Zenon DEF IsCurve, IsGroup, HasField

LEMMA MultiplePoints ==
  ASSUME NEW c, NEW p, NEW n, NEW m, IsGroup(c, p, n, m)
  PROVE  /\ n \in Nat \ {0} /\ n > 1 /\ n \in Int
         /\ \A i \in 0 .. n - 1 : FieldPoint(p, m[i])
         /\ \A i \in 1 .. n - 1 : m[i] # Infinity
<1>1. n \in Nat \ {0} /\ n > 1 /\ n \in Int
  BY DEF IsGroup, IsPrime
<1>2. \A i \in 1 .. n - 1 : m[i] \in (0 .. p - 1) \X (0 .. p - 1)
  BY DEF IsGroup
<1>3. \A P \in (0 .. p - 1) \X (0 .. p - 1) : P # Infinity
  BY DEF Infinity
<1>4. \A i \in 0 .. n - 1 : i = 0 \/ i \in 1 .. n - 1
  BY <1>1
<1>5. m[0] = Infinity
  BY DEF IsGroup
<1> QED BY <1>1, <1>2, <1>3, <1>4, <1>5, Zenon DEF FieldPoint

LEMMA MultiplesMeet ==
  ASSUME NEW c, NEW p, NEW n, NEW m, IsGroup(c, p, n, m), NEW i \in 0 .. n - 1, NEW j \in 1 .. n - 1,
         NEW x2, NEW y2, m[j] = <<x2, y2>>
  PROVE  Meet(p, m[i], x2, y2)
<1>1. HasField(c, p) /\ c.b \in Int /\ m[0] = Infinity /\ n \in Nat
  BY DEF IsGroup
<1>2. \A k \in 1 .. n - 1 : m[k] \in (0 .. p - 1) \X (0 .. p - 1) /\ OnCurve(c, m[k])
  BY DEF IsGroup
<1>3. x2 \in 0 .. p - 1 /\ y2 \in 0 .. p - 1 /\ OnCurve(c, <<x2, y2>>)
  <2>1. <<x2, y2>> \in (0 .. p - 1) \X (0 .. p - 1) /\ OnCurve(c, <<x2, y2>>)
    BY <1>2, Zenon
  <2> QED BY <2>1
<1>4. SUFFICES ASSUME m[i] # Infinity, m[i][1] = x2 PROVE m[i][2] = y2 \/ (m[i][2] + y2) % p = 0
  BY Zenon DEF Meet
<1>5. i \in 1 .. n - 1
  BY <1>1, <1>4
<1>6. m[i] \in (0 .. p - 1) \X (0 .. p - 1) /\ OnCurve(c, m[i])
  BY <1>2, <1>5, Zenon
<1>7. PICK x \in 0 .. p - 1, y \in 0 .. p - 1 : m[i] = <<x, y>>
  BY <1>6
<1>8. m[i][1] = x /\ m[i][2] = y
  BY <1>7
<1>9. x = x2 /\ OnCurve(c, <<x2, y>>)
  BY <1>4, <1>6, <1>7, <1>8, Zenon
<1>10. y = y2 \/ (y + y2) % p = 0
  BY <1>1, <1>3, <1>7, <1>9, CurveMeet, Zenon
<1> QED BY <1>8, <1>10, Zenon

\* The masks of _scalar_mult make it repeated addition.
LEMMA ScalarMultIs ==
  ASSUME NEW c, NEW p, NEW n, NEW m, IsGroup(c, p, n, m), NEW bits, bits = BitLength(n), Doubles(bits), n < 2 ^ bits,
         NEW k \in 0 .. n - 1, NEW j \in 1 .. n - 1
  PROVE  ScalarMult(c, k, m[j]) = m[(k * j) % n]
<1>1. /\ HasField(c, p) /\ n = c.n /\ m[0] = Infinity
      /\ \A i \in 1 .. n - 1 : m[i] \in (0 .. p - 1) \X (0 .. p - 1)
      /\ \A h, i \in 0 .. n - 1 : PointAdd(c, m[h], m[i]) = m[(h + i) % n]
  BY DEF IsGroup
<1>2. n \in Nat \ {0} /\ n > 1 /\ n \in Int /\ bits \in Nat /\ k \in Nat /\ j \in Int /\ j \in 0 .. n - 1
  BY MultiplePoints DEF Doubles
<1>3. \A i \in 0 .. n - 1 : FieldPoint(p, m[i])
  BY MultiplePoints
<1>4. PICK x2 \in 0 .. p - 1, y2 \in 0 .. p - 1 : m[j] = <<x2, y2>>
  BY <1>1
<1>1a. HasField(c, p) /\ bits = BitLength(c.n) /\ bits \in Nat
  BY <1>1, <1>2
<1>5. PICK f : Ladder(c, k, m[j], bits, f) /\ ScalarMult(c, k, m[j]) = Affine(c, f[bits])
  <2>1. \E f : Ladder(c, k, <<x2, y2>>, bits, f) /\ ScalarMult(c, k, <<x2, y2>>) = Affine(c, f[bits])
    BY <1>1a, <1>4, LadderExists
  <2> QED BY <1>4, <2>1, Zenon
<1>6. f[0] = <<1, 1, 0>> /\ \A i \in 1 .. bits : f[i] = MulStep(c, m[j], JDouble(c, f[i - 1]), Bit(k, bits - i))
  BY <1>5, Zenon DEF Ladder
<1>7. \A i \in 0 .. bits : 2 ^ i \in Nat \ {0}
  BY PowersPositive
<1> DEFINE E(i) == k \div 2 ^ (bits - i)
           T == {i \in Nat : i <= bits => Represents(p, f[i], m[(E(i) * j) % n])}
<1>8. \A i \in 0 .. bits : E(i) \in Nat
  <2> TAKE i \in 0 .. bits
  <2>1. bits - i \in 0 .. bits
    BY <1>2
  <2>2. PICK w : w = 2 ^ (bits - i)
    OBVIOUS
  <2>3. w \in Nat \ {0}
    BY <1>7, <2>1, <2>2
  <2>4. k \div w \in Nat
    BY <1>2, <2>3, HalvedQuotient
  <2> QED BY <2>2, <2>4, Zenon
<1>9. E(0) = 0
  <2>1. bits - 0 = bits
    BY <1>2
  <2>2. PICK w : w = 2 ^ bits
    OBVIOUS
  <2>3. w \in Nat \ {0} /\ k < w
    <3>1. bits \in 0 .. bits
      BY <1>2
    <3>2. w \in Nat \ {0} /\ n < w
      BY <1>7, <2>2, <3>1, Zenon
    <3> QED BY <1>2, <3>2
  <2>4. k \div w = 0
    BY <1>2, <2>3
  <2> QED BY <2>1, <2>2, <2>4, Zenon
<1>10. ASSUME NEW i \in Nat, i + 1 <= bits
       PROVE  /\ E(i + 1) = 2 * E(i) + Bit(k, bits - (i + 1)) /\ Bit(k, bits - (i + 1)) \in {0, 1}
              /\ E(i) \in Nat
  <2>1. i \in 0 .. bits /\ bits - (i + 1) \in 0 .. bits /\ bits - i \in 1 .. bits /\ (bits - i) - 1 = bits - (i + 1)
    BY <1>2, <1>10
  <2>2. PICK w : w = 2 ^ (bits - (i + 1))
    OBVIOUS
  <2>3. w \in Nat \ {0}
    BY <1>7, <2>1, <2>2, Zenon
  <2>4. 2 ^ (bits - i) = 2 * w
    BY <2>1, <2>2, Zenon DEF Doubles
  <2>5. PICK b : b = (k \div w) % 2
    OBVIOUS
  <2>6. k \div w = 2 * (k \div (2 * w)) + b /\ k \div (2 * w) \in Nat /\ k \div w \in Nat
    BY <1>2, <2>3, <2>5, HalvedQuotient, Zenon
  <2>7. b \in {0, 1}
    BY <2>5, <2>6
  <2>8. Bit(k, bits - (i + 1)) = b
    BY <2>2, <2>5, Zenon DEF Bit
  <2> QED BY <2>2, <2>4, <2>6, <2>7, <2>8, Zenon
<1>. HIDE DEF E
<1>11. 0 \in T
  <2>1. (E(0) * j) % n = 0
    BY <1>2, <1>9
  <2>2. Represents(p, <<1, 1, 0>>, Infinity)
    <3>1. 0 \in 0 .. p - 1 /\ 1 \in Int
      BY <1>1, FieldFacts
    <3>2. <<1, 1, 0>>[1] = 1 /\ <<1, 1, 0>>[2] = 1 /\ <<1, 1, 0>>[3] = 0
      OBVIOUS
    <3> QED BY <3>1, <3>2, Zenon DEF Represents, Triple
  <2>3. 0 \in Nat
    OBVIOUS
  <2> QED BY <1>1, <1>6, <2>1, <2>2, <2>3, Zenon
<1>12. ASSUME NEW i \in Nat, i \in T, i + 1 <= bits
       PROVE  Represents(p, f[i + 1], m[(E(i + 1) * j) % n])
  <2>1. PICK e, b, u : e = E(i) /\ b = Bit(k, bits - (i + 1)) /\ u = (e * j) % n
    OBVIOUS
  <2>2. E(i + 1) = 2 * e + b /\ b \in {0, 1} /\ e \in Nat /\ e * j \in Int
    BY <1>2, <1>10, <1>12, <2>1
  <2>3. u \in 0 .. n - 1 /\ u \in Int /\ Same(u, e * j, n)
    BY <1>2, <2>1, <2>2, ModRange, SameRefl, SameMod
  <2>4. Represents(p, f[i], m[u])
    <3>1. i <= bits
      BY <1>2, <1>12
    <3> QED BY <1>12, <2>1, <3>1, Zenon
  <2>5. PICK v : v = (u + u) % n
    OBVIOUS
  <2>6. v \in 0 .. n - 1 /\ v \in Int /\ Same(v, e * j + e * j, n)
    <3>1. u + u \in Int /\ Same(u + u, e * j + e * j, n)
      BY <1>2, <2>3, SameSum
    <3> QED BY <1>2, <2>5, <3>1, ModRange, SameMod
  <2>7. PICK d : d = JDouble(c, f[i])
    OBVIOUS
  <2>8. Represents(p, d, m[v])
    <3>1. PointAdd(c, m[u], m[u]) = m[v]
      BY <1>1, <2>3, <2>5, Zenon
    <3>2. FieldPoint(p, m[u])
      BY <1>3, <2>3
    <3> QED BY <1>1a, <2>4, <2>7, <3>1, <3>2, JDoubleIs, Zenon
  <2>9. f[i + 1] = MulStep(c, m[j], d, b)
    <3>1. i + 1 \in 1 .. bits /\ (i + 1) - 1 = i
      BY <1>2, <1>12
    <3> QED BY <1>6, <2>1, <2>7, <3>1, Zenon
  <2>10. CASE b = 0
    <3>1. f[i + 1] = d
      BY <2>9, <2>10 DEF MulStep, Select
    <3>2. (2 * e + b) * j = e * j + e * j
      BY <1>2, <2>2, <2>10
    <3>3. ((2 * e + b) * j) % n = v
      <4>1. Same(e * j + e * j, v, n)
        BY <1>2, <2>6, SameSym
      <4> QED BY <1>2, <2>6, <3>2, <4>1, SameEqual, Zenon
    <3> QED BY <2>2, <2>8, <3>1, <3>3, Zenon
  <2>11. CASE b = 1
    <3>1. f[i + 1] = Add(c, m[j], d)
      BY <2>9, <2>11, Zenon DEF MulStep, Select
    <3>2. PICK z : z = (v + j) % n
      OBVIOUS
    <3>3. PointAdd(c, m[v], m[j]) = m[z]
      BY <1>1, <1>2, <2>6, <3>2, Zenon
    <3>4. Meet(p, m[v], x2, y2)
      BY <1>4, <2>6, MultiplesMeet, Zenon
    <3>5. FieldPoint(p, m[v])
      BY <1>3, <2>6
    <3>6. Represents(p, Add(c, m[j], d), m[z])
      BY <1>1a, <1>4, <2>8, <3>3, <3>4, <3>5, AddIs, Zenon
    <3>7. Same(v + j, (e * j + e * j) + j, n)
      BY <1>2, <2>6, SameRefl, SameSum
    <3>8. (2 * e + b) * j = (e * j + e * j) + j
      BY <1>2, <2>2, <2>11
    <3>9. ((2 * e + b) * j) % n = z
      <4>1. Same((e * j + e * j) + j, v + j, n)
        BY <1>2, <3>7, SameSym
      <4>2. ((e * j + e * j) + j) % n = (v + j) % n
        BY <1>2, <4>1, SameEqual
      <4> QED BY <3>2, <3>8, <4>2, Zenon
    <3> QED BY <2>2, <3>1, <3>6, <3>9, Zenon
  <2> QED BY <2>2, <2>10, <2>11
<1>13. ASSUME NEW i \in Nat, i \in T PROVE i + 1 \in T
  <2>1. i + 1 \in Nat
    OBVIOUS
  <2> QED BY <1>12, <1>13, <2>1, Zenon
<1>. HIDE DEF T
<1>14. \A i \in Nat : i \in T
  BY <1>11, <1>13, CountUp
<1>15. Represents(p, f[bits], m[(E(bits) * j) % n])
  <2>1. bits \in T /\ bits <= bits
    BY <1>2, <1>14
  <2> QED BY <2>1, Zenon DEF T
<1>16. E(bits) = k
  <2>1. bits - bits = 0 /\ 2 ^ 0 = 1
    BY <1>2
  <2>2. E(bits) = k \div 1
    BY <2>1, Zenon DEF E
  <2> QED BY <1>2, <2>2
<1>17. (k * j) % n \in 0 .. n - 1
  <2>1. k * j \in Int
    BY <1>2
  <2> QED BY <1>2, <2>1, ModRange
<1>18. FieldPoint(p, m[(k * j) % n])
  BY <1>3, <1>17
<1>19. Affine(c, f[bits]) = m[(k * j) % n]
  BY <1>1a, <1>15, <1>16, <1>18, AffineIs, Zenon
<1> QED BY <1>5, <1>19

-----------------------------------------------------------------------------
(* Signing and verifying.                                                    *)

\* The signature equation of s and the number x of the nonce.
Equation(n, z, r, d, s, x) ==
  /\ n \in Nat /\ IsPrime(n) /\ z \in Nat /\ d \in 1 .. n - 1 /\ x \in 1 .. n - 1 /\ s \in 1 .. n - 1
  /\ r \in 1 .. n - 1 /\ Same(s * x, z + r * d, n)

\* The multiples that add up to the multiple by x.
Meets(n, z, r, d, s, x) ==
  \E u, v \in 0 .. n - 1 : /\ u = (z * Inv(s, n)) % n /\ v = (r * Inv(s, n)) % n
                          /\ (((u * 1) % n) + ((v * d) % n)) % n = x

\* What verify_ecdsa computes: a multiple of G by the number of the signature equation.
LEMMA VerifyIndex ==
  ASSUME NEW n, NEW z, NEW r, NEW d, NEW s, NEW x, Equation(n, z, r, d, s, x)
  PROVE  Meets(n, z, r, d, s, x)
<1>1. n \in Nat \ {0} /\ n > 1 /\ n \in Int /\ s \in Int /\ x \in Int /\ r \in Int /\ d \in Int /\ z \in Int
      /\ s \in 0 .. n - 1 /\ s \in 1 .. n - 1 /\ x \in 0 .. n - 1 /\ n \in Nat
  BY DEF Equation, IsPrime
<1>19. IsPrime(n) /\ Same(s * x, z + r * d, n)
  BY DEF Equation
<1>2. PICK w : w = Inv(s, n)
  OBVIOUS
<1>3. w \in Int /\ Same(s * w, 1, n)
  <2>1. Same(s, s, n) /\ ~Same(s, 0, n)
    BY <1>1, SameRefl, SameSmall
  <2>2. s % n = s
    BY <1>1
  <2> QED BY <1>1, <1>2, <1>19, <2>1, <2>2, PrimeInverse, Zenon
<1>20. PICK u, v : u = (z * w) % n /\ v = (r * w) % n
  OBVIOUS
<1>4. u = (z * w) % n /\ v = (r * w) % n /\ z * w \in Int /\ r * w \in Int
  BY <1>1, <1>3, <1>20
<1>5. u \in 0 .. n - 1 /\ v \in 0 .. n - 1 /\ u \in Int /\ v \in Int
  BY <1>1, <1>4, ModRange
<1>6. Same(u, z * w, n) /\ Same(v, r * w, n) /\ Same(d, d, n) /\ Same(x, x, n) /\ Same(w, w, n)
  BY <1>1, <1>3, <1>4, SameRefl, SameMod, Zenon
<1>7. Same(v * d, (r * w) * d, n)
  BY <1>1, <1>6, SameProduct
<1>8. PICK e, h : e = (u * 1) % n /\ h = (v * d) % n
  OBVIOUS
<1>9. u * 1 = u /\ v * d \in Int
  BY <1>1, <1>5
<1>10. Same(e, z * w, n) /\ Same(h, (r * w) * d, n)
  BY <1>1, <1>6, <1>7, <1>8, <1>9, SameMod, Zenon
<1>11. Same(e + h, z * w + (r * w) * d, n)
  BY <1>1, <1>10, SameSum
<1>12. z * w + (r * w) * d = (z + r * d) * w
  BY <1>1, <1>3
<1>13. Same((s * x) * w, (z + r * d) * w, n)
  BY <1>1, <1>6, <1>19, SameProduct
<1>14. Same((s * w) * x, 1 * x, n)
  BY <1>1, <1>3, <1>6, SameProduct
<1>15. (s * w) * x = (s * x) * w /\ 1 * x = x
  BY <1>1, <1>3
<1>16. Same(e + h, (s * x) * w, n)
  <2>1. Same((z + r * d) * w, (s * x) * w, n)
    BY <1>1, <1>13, SameSym
  <2>2. Same(e + h, (z + r * d) * w, n)
    BY <1>11, <1>12
  <2> QED BY <1>1, <2>1, <2>2, SameTrans
<1>17. Same(e + h, x, n)
  BY <1>1, <1>14, <1>15, <1>16, SameTrans, Zenon
<1>18. (e + h) % n = x
  BY <1>1, <1>17, SameEqual, Zenon
<1> QED BY <1>2, <1>4, <1>5, <1>8, <1>18, Zenon DEF Meets

\* The curve of a call, the multiples of its base point and the length of its order.
Setting(c, p, n, m, bits) ==
  IsGroup(c, p, n, m) /\ bits = BitLength(n) /\ Doubles(bits) /\ n < 2 ^ bits /\ m[1] = G(c)

LEMMA VerifiesIs ==
  ASSUME NEW c, NEW p, NEW n, NEW m, NEW bits, Setting(c, p, n, m, bits),
         NEW z \in Nat, NEW d \in 1 .. n - 1, NEW x \in 1 .. n - 1, NEW s \in 1 .. n - 1, NEW r \in 1 .. n - 1,
         m[x][1] % n = r, Same(s * x, z + r * d, n)
  PROVE  Verifies(c, m[d], z, r, s)
<1>1. IsGroup(c, p, n, m) /\ bits = BitLength(n) /\ Doubles(bits) /\ n < 2 ^ bits /\ m[1] = G(c)
  BY DEF Setting
<1>2. n \in Nat /\ IsPrime(n) /\ n = c.n /\ \A i, j \in 0 .. n - 1 : PointAdd(c, m[i], m[j]) = m[(i + j) % n]
  BY <1>1 DEF IsGroup
<1>3. n \in Nat \ {0} /\ n > 1 /\ n \in Int /\ \A i \in 1 .. n - 1 : m[i] # Infinity
  BY <1>1, MultiplePoints, Zenon
<1>4. PICK u, v \in 0 .. n - 1 : /\ u = (z * Inv(s, n)) % n /\ v = (r * Inv(s, n)) % n
                                 /\ (((u * 1) % n) + ((v * d) % n)) % n = x
  <2>1. Equation(n, z, r, d, s, x)
    BY <1>2, Zenon DEF Equation
  <2>2. Meets(n, z, r, d, s, x)
    BY <2>1, VerifyIndex, Zenon
  <2> QED BY <2>2, Zenon DEF Meets
<1>5. u \in 0 .. n - 1 /\ v \in 0 .. n - 1 /\ (((u * 1) % n) + ((v * d) % n)) % n = x
  BY <1>4
<1>6. 1 \in 1 .. n - 1
  BY <1>3
<1>7. ScalarMult(c, u, m[1]) = m[(u * 1) % n] /\ ScalarMult(c, v, m[d]) = m[(v * d) % n]
  BY <1>1, <1>5, <1>6, ScalarMultIs
<1>8. (u * 1) % n \in 0 .. n - 1 /\ (v * d) % n \in 0 .. n - 1
  <2>1. u * 1 \in Int /\ v * d \in Int
    BY <1>3, <1>5
  <2> QED BY <1>3, <2>1, ModRange
<1>9. PointAdd(c, ScalarMult(c, u, G(c)), ScalarMult(c, v, m[d])) = m[x]
  <2>1. ScalarMult(c, u, G(c)) = m[(u * 1) % n]
    BY <1>1, <1>7
  <2>2. PointAdd(c, m[(u * 1) % n], m[(v * d) % n]) = m[(((u * 1) % n) + ((v * d) % n)) % n]
    BY <1>2, <1>8, Zenon
  <2> QED BY <1>5, <1>7, <2>1, <2>2, Zenon
<1>10. PointAdd(c, ScalarMult(c, (z * Inv(s, c.n)) % c.n, G(c)), ScalarMult(c, (r * Inv(s, c.n)) % c.n, m[d])) = m[x]
  BY <1>2, <1>4, <1>9, Zenon
<1>11. m[x] # Infinity /\ m[x][1] % c.n = r /\ r \in 1 .. c.n - 1 /\ s \in 1 .. c.n - 1
  BY <1>2, <1>3, Zenon
<1> QED BY <1>10, <1>11, Zenon DEF Verifies

\* Points of opposite multiples have the same abscissa.
LEMMA OppositeAbscissa ==
  ASSUME NEW c, NEW p, NEW n, NEW m, IsGroup(c, p, n, m), NEW k \in 1 .. n - 1
  PROVE  n - k \in 1 .. n - 1 /\ m[n - k][1] = m[k][1]
<1>1. n \in Nat \ {0} /\ n > 1 /\ n \in Int /\ \A i \in 1 .. n - 1 : m[i] # Infinity
  BY MultiplePoints, Zenon
<1>2. \A i, j \in 0 .. n - 1 : PointAdd(c, m[i], m[j]) = m[(i + j) % n]
  BY DEF IsGroup
<1>3. m[0] = Infinity
  BY DEF IsGroup
<1>4. n - k \in 1 .. n - 1 /\ k \in 0 .. n - 1 /\ n - k \in 0 .. n - 1 /\ k + (n - k) = n /\ n % n = 0
  BY <1>1
<1>5. PointAdd(c, m[k], m[n - k]) = Infinity
  BY <1>2, <1>3, <1>4, Zenon
<1>6. m[k] # Infinity /\ m[n - k] # Infinity
  BY <1>1, <1>4
<1>7. ASSUME NEW X, NEW Y, <<X, Y>> = Infinity PROVE FALSE
  BY <1>7 DEF Infinity
<1>8. m[k][1] = m[n - k][1]
  BY <1>5, <1>6, <1>7, Zenon DEF PointAdd
<1> QED BY <1>4, <1>8

LEMMA CallSetting ==
  ASSUME NEW a \in EcdsaCalls
  PROVE  /\ Setting(a.curve, a.curve.p, a.curve.n, GMultiples(a.curve), QLen(a.curve))
         /\ Digest(a) \in Nat /\ a.d \in 1 .. a.curve.n - 1
<1>1. /\ a.d \in 1 .. a.curve.n - 1 /\ IsCurve(a.curve) /\ QLen(a.curve) \in Nat
      /\ a.curve.n < 2 ^ QLen(a.curve) /\ \A i \in 1 .. QLen(a.curve) : 2 ^ i = 2 * 2 ^ (i - 1)
  BY CurvesAssumption, Zenon
<1>2. Digest(a) \in Nat
  BY DigestAssumption, Zenon
<1>3. IsGroup(a.curve, a.curve.p, a.curve.n, GMultiples(a.curve)) /\ GMultiples(a.curve)[1] = G(a.curve)
  BY <1>1, CurveGroup, Zenon
<1>4. Doubles(QLen(a.curve)) /\ QLen(a.curve) = BitLength(a.curve.n)
  BY <1>1, Zenon DEF Doubles, QLen
<1> QED BY <1>1, <1>2, <1>3, <1>4, Zenon DEF Setting

LEMMA KeyPoint ==
  ASSUME NEW c, NEW p, NEW n, NEW m, NEW bits, Setting(c, p, n, m, bits), NEW j \in 1 .. n - 1
  PROVE  PublicKey(c, j) = m[j]
<1>1. IsGroup(c, p, n, m) /\ bits = BitLength(n) /\ Doubles(bits) /\ n < 2 ^ bits /\ m[1] = G(c)
  BY DEF Setting
<1>2. n \in Nat \ {0} /\ n > 1
  BY <1>1, MultiplePoints, Zenon
<1>3. 1 \in 1 .. n - 1 /\ j \in 0 .. n - 1 /\ (j * 1) % n = j
  <2>1. j * 1 = j /\ j % n = j
    BY <1>2
  <2> QED BY <1>2, <2>1
<1>4. ScalarMult(c, j, m[1]) = m[(j * 1) % n]
  BY <1>1, <1>3, ScalarMultIs
<1>5. ScalarMult(c, j, G(c)) = m[j]
  BY <1>1, <1>3, <1>4
<1> QED BY <1>5, Zenon DEF PublicKey

\* The signature equation, of s and of the other one.
LEMMA SignsBoth ==
  ASSUME NEW n \in Nat, IsPrime(n), NEW e \in Nat, NEW k \in 1 .. n - 1, NEW t, t = (Inv(k, n) * (e % n)) % n
  PROVE  t \in 0 .. n - 1 /\ Same(t * k, e, n) /\ Same((n - t) * (n - k), e, n)
<1>1. n \in Nat \ {0} /\ n > 1 /\ n \in Int /\ k \in Int /\ e \in Int /\ k \in 0 .. n - 1
  BY DEF IsPrime
<1>2. PICK i, f : i = Inv(k, n) /\ f = e % n
  OBVIOUS
<1>3. i \in Int /\ Same(k * i, 1, n)
  <2>1. Same(k, k, n) /\ ~Same(k, 0, n)
    BY <1>1, SameRefl, SameSmall
  <2>2. k % n = k
    BY <1>1
  <2> QED BY <1>1, <1>2, <2>1, <2>2, PrimeInverse, Zenon
<1>4. t = (i * f) % n
  BY <1>2
<1>5. Same(f, e, n) /\ f \in Int
  <2>1. Same(e, e, n)
    BY <1>1, SameRefl
  <2>2. Same(f, e, n)
    BY <1>1, <1>2, <2>1, SameMod
  <2> QED BY <2>2 DEF Same
<1>6. i * f \in Int
  BY <1>3, <1>5
<1>7. t \in 0 .. n - 1 /\ t \in Int
  BY <1>1, <1>4, <1>6, ModRange
<1>8. Same(t, i * f, n)
  <2>1. Same(i * f, i * f, n)
    BY <1>1, <1>6, SameRefl
  <2> QED BY <1>1, <1>4, <2>1, SameMod
<1>9. Same(t * k, (i * f) * k, n)
  <2>1. Same(k, k, n)
    BY <1>1, SameRefl
  <2> QED BY <1>1, <1>8, <2>1, SameProduct
<1>10. Same((k * i) * f, 1 * e, n)
  BY <1>1, <1>3, <1>5, SameProduct
<1>11. (i * f) * k = (k * i) * f /\ 1 * e = e
  BY <1>1, <1>3, <1>5
<1>12. Same(t * k, e, n)
  <2>1. Same((i * f) * k, e, n)
    BY <1>10, <1>11
  <2> QED BY <1>1, <1>9, <2>1, SameTrans
<1>13. Same(n, 0, n)
  <2>1. n % n = 0 /\ 0 % n = 0 /\ 0 \in Int
    BY <1>1
  <2> QED BY <1>1, <2>1, SameEqual, Zenon
<1>14. n - t - k \in Int /\ t * k \in Int
  BY <1>1, <1>7
<1>15. Same(n * (n - t - k), 0 * (n - t - k), n)
  <2>1. Same(n - t - k, n - t - k, n)
    BY <1>1, <1>14, SameRefl
  <2> QED BY <1>1, <1>13, <2>1, SameProduct
<1>16. Same(n * (n - t - k) + t * k, 0 * (n - t - k) + e, n)
  BY <1>1, <1>12, <1>15, SameSum
<1>17. n * (n - t - k) + t * k = (n - t) * (n - k) /\ 0 * (n - t - k) + e = e
  BY <1>1, <1>7
<1> QED BY <1>7, <1>12, <1>16, <1>17

LEMMA LowHalf ==
  ASSUME NEW c, c.n \in Nat, NEW t \in 1 .. c.n - 1
  PROVE  LowS(c, t) \in {t, c.n - t} /\ 2 * LowS(c, t) <= c.n
<1>1. PICK n, h : n = c.n /\ h = n \div 2
  OBVIOUS
<1>2. n \in Nat /\ h \in Nat /\ 2 * h <= n /\ n <= 2 * h + 1 /\ t \in 1 .. n - 1
  BY <1>1
<1>3. LowS(c, t) = IF t > h THEN n - t ELSE t
  BY <1>1 DEF LowS
<1>4. CASE t > h
  BY <1>1, <1>2, <1>3, <1>4
<1>5. CASE ~(t > h)
  BY <1>1, <1>2, <1>3, <1>5
<1> QED BY <1>4, <1>5

\* What SignatureVerifies says of a call, an r and an s.
Verified(a, r, s) ==
  /\ 2 * s <= a.curve.n
  /\ Verifies(a.curve, PublicKey(a.curve, a.d), Digest(a), r, s)
  /\ Verifies(a.curve, PublicKey(a.curve, a.d), Digest(a), r, a.curve.n - s)

LEMMA SignedVerifies ==
  ASSUME NEW a \in EcdsaCalls, NEW k \in 1 .. a.curve.n - 1, Usable(a, k)
  PROVE  Verified(a, RValue(a, k), LowS(a.curve, SValue(a, k)))
<1>1. PICK c, d, z, r, t : c = a.curve /\ d = a.d /\ z = Digest(a) /\ r = RValue(a, k) /\ t = SValue(a, k)
  OBVIOUS
<1>2. PICK p, n, m, bits : p = c.p /\ n = c.n /\ m = GMultiples(c) /\ bits = QLen(c)
  OBVIOUS
<1>3. Setting(c, p, n, m, bits) /\ z \in Nat /\ d \in 1 .. n - 1
  BY <1>1, <1>2, CallSetting
<1>4. k \in 1 .. n - 1 /\ r # 0 /\ t # 0
  BY <1>1, <1>2 DEF Usable
<1>5. IsGroup(c, p, n, m)
  BY <1>3, Zenon DEF Setting
<1>6. n \in Nat /\ IsPrime(n) /\ \A i \in 1 .. n - 1 : m[i] \in (0 .. p - 1) \X (0 .. p - 1)
  BY <1>5, Zenon DEF IsGroup
<1>7. n \in Nat \ {0} /\ n > 1 /\ n \in Int /\ p \in Nat
  <2>1. HasField(c, p)
    BY <1>5, Zenon DEF IsGroup
  <2> QED BY <1>5, <2>1, MultiplePoints DEF HasField
<1>8. PublicKey(c, d) = m[d] /\ PublicKey(c, k) = m[k]
  BY <1>3, <1>4, KeyPoint
<1>9. PICK x : x = m[k][1]
  OBVIOUS
<1>10. x \in Int /\ r = x % n
  <2>1. m[k] \in (0 .. p - 1) \X (0 .. p - 1)
    BY <1>4, <1>6
  <2>2. x \in Int
    BY <1>7, <1>9, <2>1
  <2> QED BY <1>1, <1>2, <1>8, <1>9, <2>2, Zenon DEF RValue
<1>11. r \in 1 .. n - 1
  <2>1. r \in 0 .. n - 1
    BY <1>7, <1>10, ModRange
  <2> QED BY <1>4, <1>7, <2>1
<1>12. PICK e : e = z + r * d
  OBVIOUS
<1>13. e \in Nat
  BY <1>3, <1>7, <1>11, <1>12
<1>14. t = (Inv(k, n) * (e % n)) % n
  BY <1>1, <1>2, <1>12, Zenon DEF SValue
<1>15. t \in 0 .. n - 1 /\ Same(t * k, e, n) /\ Same((n - t) * (n - k), e, n)
  BY <1>4, <1>6, <1>13, <1>14, SignsBoth
<1>16. t \in 1 .. n - 1 /\ n - t \in 1 .. n - 1 /\ n - (n - t) = t
  BY <1>4, <1>7, <1>15
<1>17. n - k \in 1 .. n - 1 /\ m[n - k][1] = m[k][1]
  BY <1>4, <1>5, OppositeAbscissa
<1>18. m[k][1] % n = r /\ m[n - k][1] % n = r
  BY <1>9, <1>10, <1>17
<1>19. Same(t * k, z + r * d, n) /\ Same((n - t) * (n - k), z + r * d, n)
  BY <1>12, <1>15
<1>20. Verifies(c, m[d], z, r, t)
  BY <1>3, <1>4, <1>11, <1>16, <1>18, <1>19, VerifiesIs
<1>21. Verifies(c, m[d], z, r, n - t)
  BY <1>3, <1>11, <1>16, <1>17, <1>18, <1>19, VerifiesIs
<1>22. PICK s : s = LowS(c, t)
  OBVIOUS
<1>23. s \in {t, n - t} /\ 2 * s <= n
  BY <1>2, <1>6, <1>16, <1>22, LowHalf
<1>24. Verifies(c, m[d], z, r, s) /\ Verifies(c, m[d], z, r, n - s)
  <2>1. CASE s = t
    BY <1>20, <1>21, <2>1
  <2>2. CASE s = n - t
    BY <1>16, <1>20, <1>21, <2>2
  <2> QED BY <1>23, <2>1, <2>2
<1>25. Verified(a, r, s)
  BY <1>1, <1>2, <1>8, <1>23, <1>24, Zenon DEF Verified
<1> QED BY <1>1, <1>22, <1>25, Zenon

Signed == ecdsa.stage = "done" => Verified(ecdsa.call, ecdsa.r, ecdsa.s)

LEMMA SignedStep == EcdsaIInv /\ Signed /\ [EcdsaNext]_ecdsa => Signed'
<1> SUFFICES ASSUME EcdsaIInv, Signed, [EcdsaNext]_ecdsa PROVE Signed'
  OBVIOUS
<1>1. ASSUME EcdsaSign PROVE ecdsa'.stage # "done"
  BY <1>1 DEF EcdsaSign
<1>2. ASSUME EcdsaDraw PROVE ecdsa'.stage # "done"
  <2>1. ecdsa.stage = "draw" /\ EcdsaShape
    BY <1>2 DEF EcdsaDraw, EcdsaIInv, InCall
  <2>2. PICK g, t, stage : /\ ecdsa' = [ecdsa EXCEPT !.gen.v = g, !.t = t, !.stage = stage]
                           /\ stage \in {"draw", "candidate"}
    BY <1>2 DEF EcdsaDraw
  <2> QED BY <2>1, <2>2 DEF EcdsaShape
<1>3. ASSUME EcdsaRetry PROVE ecdsa'.stage # "done"
  <2>1. ecdsa.stage = "candidate" /\ EcdsaShape
    BY <1>3 DEF EcdsaRetry, EcdsaIInv, InCall
  <2>2. ecdsa' = [ecdsa EXCEPT !.stage = "draw", !.gen = RetryGen(@), !.t = <<>>, !.drawn = Append(@, ecdsa.t)]
    BY <1>3 DEF EcdsaRetry
  <2> QED BY <2>1, <2>2 DEF EcdsaShape
<1>4. ASSUME EcdsaReturn PROVE Signed'
  <2>1. ecdsa.call \in EcdsaCalls
    BY <1>4 DEF EcdsaReturn, EcdsaIInv, InCall
  <2>2. PICK k \in 1 .. ecdsa.call.curve.n - 1 :
          /\ Usable(ecdsa.call, k)
          /\ ecdsa' = [stage |-> "done", call |-> ecdsa.call, drawn |-> Append(ecdsa.drawn, ecdsa.t),
                       r |-> RValue(ecdsa.call, k), s |-> LowS(ecdsa.call.curve, SValue(ecdsa.call, k))]
    BY <1>4 DEF EcdsaReturn
  <2>3. PICK a : a = ecdsa.call
    OBVIOUS
  <2>4. a \in EcdsaCalls /\ k \in 1 .. a.curve.n - 1 /\ Usable(a, k)
    BY <2>1, <2>2, <2>3
  <2>5. Verified(a, RValue(a, k), LowS(a.curve, SValue(a, k)))
    BY <2>4, SignedVerifies
  <2>6. ecdsa'.call = a /\ ecdsa'.r = RValue(a, k) /\ ecdsa'.s = LowS(a.curve, SValue(a, k))
    BY <2>2, <2>3
  <2>7. Verified(ecdsa'.call, ecdsa'.r, ecdsa'.s)
    BY <2>5, <2>6
  <2> QED BY <2>7 DEF Signed, Verified
<1>5. ASSUME UNCHANGED ecdsa PROVE Signed'
  BY <1>5 DEF Signed, Verified
<1>6. ASSUME ecdsa'.stage # "done" PROVE Signed'
  BY <1>6 DEF Signed
<1> QED BY <1>1, <1>2, <1>3, <1>4, <1>5, <1>6 DEF EcdsaNext

\* A signature that sign_ecdsa returns verifies, on every curve that is a group and for every key,
\* digest and nonce, and so does the one with the other s (ec.py:22-26, 547-573).
THEOREM SignatureCorrect == EcdsaSpec => []SignatureVerifies
<1>1. EcdsaInit => Signed
  BY DEF EcdsaInit, Signed
<1>2. Signed => SignatureVerifies
  BY Zenon DEF Signed, Verified, SignatureVerifies
<1> QED BY EcdsaInitHolds, EcdsaStepHolds, SignedStep, <1>1, <1>2, PTL DEF EcdsaSpec

-----------------------------------------------------------------------------
(* Rounding in ML-DSA: zone k of the residues modulo q is what _decompose     *)
(* gives the high bits k, and the one of 0 goes around.                       *)

\* g is gamma2, and there are m high bits.
Zones(g, m) == g \in Nat \ {0} /\ m \in Nat \ {0} /\ MlDsaParams.gamma2 = g /\ R.q = 2 * (g * m) + 1

InZone(g, m, x, k, low) ==
  /\ k \in 0 .. m - 1
  /\ \/ k > 0 /\ low = x - 2 * (g * k) /\ low > -g /\ low <= g
     \/ k = 0 /\ low = x /\ x <= g
     \/ k = 0 /\ low = x - (2 * (g * m) + 1) /\ low >= -g

LEMMA ZonesExist == \E g, m : Zones(g, m) /\ (R.q - 1) \div (2 * MlDsaParams.gamma2) = m
<1>1. PICK g, q, e : g = MlDsaParams.gamma2 /\ q = R.q /\ e = 2 * g
  OBVIOUS
<1>2. g \in Nat \ {0} /\ q \in Nat /\ q > e /\ (q - 1) % e = 0 /\ e \in Nat \ {0} /\ q - 1 \in Nat
  BY <1>1, RoundingAssumption
<1>3. PICK m : m = (q - 1) \div e
  OBVIOUS
<1>4. m \in Nat /\ q - 1 = e * m + ((q - 1) % e)
  BY <1>2, <1>3
<1>5. q = 2 * (g * m) + 1
  BY <1>1, <1>2, <1>4
<1>6. m # 0
  BY <1>1, <1>2, <1>5
<1>7. Zones(g, m)
  BY <1>1, <1>2, <1>4, <1>5, <1>6 DEF Zones
<1> QED BY <1>1, <1>3, <1>7

\* What _decompose computes.
LEMMA DecomposeIs ==
  ASSUME NEW g, NEW m, Zones(g, m), NEW r \in Int
  PROVE  \E k, low \in Int : Decompose(r) = <<k, low>> /\ InZone(g, m, r % R.q, k, low)
<1>1. PICK x, e : x = r % R.q /\ e = 2 * g
  OBVIOUS
<1>2. g \in Nat \ {0} /\ m \in Nat \ {0} /\ MlDsaParams.gamma2 = g /\ R.q = 2 * (g * m) + 1
  BY DEF Zones
<1>3. PICK gm : gm = g * m
  OBVIOUS
<1>4. gm \in Nat /\ gm >= g /\ R.q = 2 * gm + 1 /\ e \in Nat \ {0} /\ e = 2 * g
  BY <1>1, <1>2, <1>3
<1>5. x \in 0 .. 2 * gm
  <2>1. R.q \in Nat \ {0}
    BY <1>4
  <2>2. x \in 0 .. R.q - 1
    BY <1>1, <2>1, ModRange
  <2> QED BY <1>4, <2>2
<1>6. PICK h, y : h = x \div e /\ y = x % e
  OBVIOUS
<1>7. h \in Nat /\ y \in 0 .. e - 1 /\ x = e * h + y
  BY <1>4, <1>5, <1>6
<1>8. PICK r0 : r0 = ModPm(x, e)
  OBVIOUS
<1>9. e \div 2 = g
  BY <1>2, <1>4
<1>10. r0 = IF y > g THEN y - e ELSE y
  BY <1>6, <1>8, <1>9 DEF ModPm
<1>11. PICK k : k = IF y > g THEN h + 1 ELSE h
  OBVIOUS
<1>12. k \in Nat /\ r0 \in Int /\ r0 > -g /\ r0 <= g /\ x - r0 = e * k
  BY <1>2, <1>4, <1>7, <1>10, <1>11
<1>13. PICK gk : gk = g * k
  OBVIOUS
<1>14. gk \in Nat /\ e * k = 2 * gk /\ x = 2 * gk + r0
  <2>1. gk \in Nat
    BY <1>2, <1>12, <1>13
  <2>2. e * k = (2 * g) * k /\ (2 * g) * k = 2 * (g * k)
    BY <1>2, <1>4, <1>12
  <2>3. e * k = 2 * gk
    BY <1>13, <2>2
  <2>4. PICK ek : ek = e * k
    OBVIOUS
  <2>5. ek = 2 * gk /\ x - r0 = ek /\ x \in Int /\ r0 \in Int
    BY <1>5, <1>12, <2>3, <2>4
  <2>6. x = 2 * gk + r0
    BY <2>1, <2>5
  <2> QED BY <2>1, <2>3, <2>6
<1>15. k <= m
  <2> SUFFICES ASSUME k >= m + 1 PROVE FALSE
    BY <1>2, <1>12
  <2>1. gk >= gm + g
    <3>1. g * k >= g * (m + 1)
      BY <1>2, <1>12
    <3> QED BY <1>2, <1>3, <1>13, <3>1
  <2> QED BY <1>2, <1>4, <1>5, <1>12, <1>14, <2>1
<1>16. (e * k) \div e = k
  BY <1>4, <1>12
<1>17. Decompose(r) = IF x - r0 = R.q - 1 THEN <<0, r0 - 1>> ELSE <<(x - r0) \div e, r0>>
  BY <1>1, <1>2, <1>8 DEF Decompose
<1>18. CASE k = m
  <2>1. x - r0 = R.q - 1
    <3>1. gk = gm
      BY <1>3, <1>13, <1>18
    <3> QED BY <1>4, <1>12, <1>14, <3>1
  <2>2. Decompose(r) = <<0, r0 - 1>>
    BY <1>17, <2>1
  <2>3. 0 \in Int /\ r0 - 1 \in Int /\ 0 \in 0 .. m - 1 /\ r0 <= 0
    BY <1>2, <1>3, <1>4, <1>5, <1>12, <1>13, <1>14, <1>18
  <2>4. r0 - 1 = x - (2 * (g * m) + 1) /\ r0 - 1 >= -g
    BY <1>2, <1>3, <1>12, <1>13, <1>14, <1>18
  <2>5. InZone(g, m, x, 0, r0 - 1)
    BY <2>3, <2>4 DEF InZone
  <2> QED BY <1>1, <2>2, <2>3, <2>5
<1>19. CASE k # m
  <2>1. k \in 0 .. m - 1
    BY <1>2, <1>12, <1>15, <1>19
  <2>2. gk < gm
    <3>1. g * (k + 1) <= g * m
      BY <1>2, <2>1
    <3> QED BY <1>2, <1>3, <1>12, <1>13, <3>1
  <2>3. x - r0 # R.q - 1
    BY <1>4, <1>12, <1>14, <2>2
  <2>4. Decompose(r) = <<k, r0>>
    BY <1>12, <1>16, <1>17, <2>3
  <2>5. InZone(g, m, x, k, r0)
    <3>1. CASE k = 0
      <4>1. x = r0
        BY <1>2, <1>12, <1>13, <1>14, <3>1
      <4> QED BY <1>12, <2>1, <3>1, <4>1 DEF InZone
    <3>2. CASE k # 0
      BY <1>12, <1>13, <1>14, <2>1, <3>2 DEF InZone
    <3> QED BY <3>1, <3>2
  <2> QED BY <1>1, <1>12, <2>4, <2>5
<1> QED BY <1>18, <1>19

\* The ends of the residues are in zone 0, and no residue is in two zones.
LEMMA ZoneEnds ==
  ASSUME NEW g \in Nat \ {0}, NEW m \in Nat \ {0}, NEW x \in 0 .. 2 * (g * m), NEW k, NEW low \in Int,
         InZone(g, m, x, k, low)
  PROVE  /\ k \in Int /\ (x <= g => k = 0) /\ (x >= 2 * (g * m) + 1 - g => k = 0)
         /\ \E K, w \in Int : /\ K \in 0 .. m /\ w \in {0, 1} /\ x = 2 * (g * K) + low + w
                              /\ k = (IF K = m THEN 0 ELSE K) /\ low >= -g /\ low <= g
                              /\ (w = 0 => K < m /\ (K > 0 => low > -g) /\ (K = 0 => low >= 0))
                              /\ (w = 1 => K = m /\ low < 0)
<1>1. PICK a, gm : a = g * k /\ gm = g * m
  OBVIOUS
<1>2. k \in 0 .. m - 1 /\ gm \in Nat /\ x \in 0 .. 2 * gm /\ k \in Nat /\ a \in Nat
  BY <1>1 DEF InZone
<1>3. k > 0 => a >= g /\ a <= gm - g
  <2> SUFFICES ASSUME k > 0 PROVE a >= g /\ a <= gm - g
    OBVIOUS
  <2>1. g * k >= g * 1 /\ g * k <= g * (m - 1)
    BY <1>2
  <2>2. g * 1 = g /\ g * (m - 1) = g * m - g
    OBVIOUS
  <2> QED BY <1>1, <1>2, <2>1, <2>2
<1>4. \/ k > 0 /\ low = x - 2 * a /\ low > -g /\ low <= g
      \/ k = 0 /\ low = x /\ x <= g
      \/ k = 0 /\ low = x - (2 * gm + 1) /\ low >= -g
  BY <1>1 DEF InZone
<1>5. (x <= g => k = 0) /\ (x >= 2 * gm + 1 - g => k = 0)
  BY <1>2, <1>3, <1>4
<1>6. CASE k > 0
  <2>1. x = 2 * (g * k) + low + 0 /\ k \in 0 .. m /\ k < m /\ k # 0 /\ k \in Int /\ 0 \in Int
    BY <1>1, <1>2, <1>4, <1>6
  <2>2. low > -g /\ low <= g /\ low >= -g
    BY <1>4, <1>6
  <2>3. k # m
    BY <2>1
  <2> QED BY <1>1, <1>5, <1>6, <2>1, <2>2, <2>3
<1>7. CASE k = 0 /\ low = x /\ x <= g
  <2>1. g * 0 = 0 /\ 0 \in 0 .. m /\ 0 # m /\ 0 < m
    OBVIOUS
  <2>2. x = 2 * (g * 0) + low + 0
    BY <1>2, <1>7, <2>1
  <2>3. low >= -g /\ low <= g /\ low >= 0
    BY <1>2, <1>7
  <2> QED BY <1>1, <1>5, <1>7, <2>1, <2>2, <2>3
<1>8. CASE k = 0 /\ low = x - (2 * gm + 1) /\ low >= -g
  <2>1. m \in 0 .. m /\ m \in Int
    OBVIOUS
  <2>2. x = 2 * (g * m) + low + 1
    BY <1>1, <1>2, <1>8
  <2>3. low <= g /\ low < 0
    BY <1>2, <1>8
  <2> QED BY <1>1, <1>5, <1>8, <2>1, <2>2, <2>3
<1> QED BY <1>2, <1>4, <1>6, <1>7, <1>8

\* A residue x and one that is z further, z being at most gamma2, s times around.
Near(g, m, x, k, low, x2, k2, low2, z, s) ==
  /\ g \in Nat \ {0} /\ m \in Nat \ {0} /\ x \in 0 .. 2 * (g * m) /\ x2 \in 0 .. 2 * (g * m)
  /\ low \in Int /\ low2 \in Int /\ InZone(g, m, x, k, low) /\ InZone(g, m, x2, k2, low2)
  /\ z \in -g .. g /\ s \in {-1, 0, 1} /\ x2 = x + z + s * (2 * (g * m) + 1)

\* It is in the same zone, or in the next one on the side on which the residue is.
LEMMA ZoneStep ==
  ASSUME NEW g, NEW m, NEW x, NEW k, NEW low, NEW x2, NEW k2, NEW low2, NEW z, NEW s,
         Near(g, m, x, k, low, x2, k2, low2, z, s)
  PROVE  /\ k2 = k \/ (low > 0 /\ k2 = (k + 1) % m) \/ (low <= 0 /\ k2 = (k - 1) % m)
         /\ low + z > -g /\ low + z < g => k2 = k
<1>0. /\ g \in Nat \ {0} /\ m \in Nat \ {0} /\ x \in 0 .. 2 * (g * m) /\ x2 \in 0 .. 2 * (g * m)
      /\ low \in Int /\ low2 \in Int /\ InZone(g, m, x, k, low) /\ InZone(g, m, x2, k2, low2)
      /\ z \in -g .. g /\ s \in {-1, 0, 1} /\ x2 = x + z + s * (2 * (g * m) + 1)
  BY DEF Near
<1>1. PICK gm : gm = g * m
  OBVIOUS
<1>2. gm \in Nat /\ x \in 0 .. 2 * gm /\ x2 \in 0 .. 2 * gm /\ g \in Nat /\ g > 0 /\ z \in Int
      /\ (s = 0 => x2 = x + z) /\ (s = 1 => x2 = x + z + 2 * gm + 1) /\ (s = -1 => x2 = x + z - (2 * gm + 1))
  BY <1>0, <1>1
<1>3. /\ k \in Int /\ (x <= g => k = 0) /\ (x >= 2 * gm + 1 - g => k = 0)
      /\ k2 \in Int /\ (x2 <= g => k2 = 0) /\ (x2 >= 2 * gm + 1 - g => k2 = 0)
  BY <1>0, <1>1, ZoneEnds
<1>4. ASSUME s # 0 PROVE k2 = k
  BY <1>0, <1>2, <1>3, <1>4
<1>5. ASSUME s = 0
      PROVE  /\ k2 = k \/ (low > 0 /\ k2 = (k + 1) % m) \/ (low <= 0 /\ k2 = (k - 1) % m)
             /\ low + z > -g /\ low + z < g => k2 = k
  <2>1. PICK K, w \in Int : /\ K \in 0 .. m /\ w \in {0, 1} /\ x = 2 * (g * K) + low + w
                            /\ k = (IF K = m THEN 0 ELSE K) /\ low >= -g /\ low <= g
                            /\ (w = 0 => K < m /\ (K > 0 => low > -g) /\ (K = 0 => low >= 0))
                            /\ (w = 1 => K = m /\ low < 0)
    BY <1>0, ZoneEnds
  <2>2. PICK K2, w2 \in Int : /\ K2 \in 0 .. m /\ w2 \in {0, 1} /\ x2 = 2 * (g * K2) + low2 + w2
                              /\ k2 = (IF K2 = m THEN 0 ELSE K2) /\ low2 >= -g /\ low2 <= g
                              /\ (w2 = 0 => K2 < m /\ (K2 > 0 => low2 > -g) /\ (K2 = 0 => low2 >= 0))
                              /\ (w2 = 1 => K2 = m /\ low2 < 0)
    BY <1>0, ZoneEnds
  <2>3. PICK a, b : a = g * K /\ b = g * K2
    OBVIOUS
  <2>4. /\ K \in Int /\ K2 \in Int /\ a \in Int /\ b \in Int /\ x = 2 * a + low + w /\ x2 = 2 * b + low2 + w2
        /\ w \in {0, 1} /\ w2 \in {0, 1} /\ low >= -g /\ low <= g /\ low2 >= -g /\ low2 <= g
        /\ (w = 1 => low < 0 /\ K = m) /\ (w2 = 1 => low2 < 0 /\ K2 = m) /\ K >= 0 /\ K2 >= 0 /\ K <= m /\ K2 <= m
        /\ (w = 0 => (K > 0 => low > -g) /\ (K = 0 => low >= 0))
        /\ (w2 = 0 => (K2 > 0 => low2 > -g) /\ (K2 = 0 => low2 >= 0))
    BY <2>1, <2>2, <2>3
  <2>5. /\ K2 >= K + 1 => b >= a + g
        /\ K2 >= K + 2 => b >= a + 2 * g
        /\ K2 <= K - 1 => b <= a - g
        /\ K2 <= K - 2 => b <= a - 2 * g
    <3>1. ASSUME NEW i \in Int, NEW j \in Int, NEW d \in Nat, j >= i + d PROVE g * j >= g * i + d * g
      <4>1. g * j >= g * (i + d)
        BY <1>0, <3>1
      <4>2. g * (i + d) = g * i + d * g
        BY <1>0
      <4> QED BY <4>1, <4>2
    <3>2. 1 * g = g
      BY <1>0
    <3>3. K2 >= K + 1 => b >= a + g
      BY <2>3, <2>4, <3>1, <3>2
    <3>4. K2 >= K + 2 => b >= a + 2 * g
      BY <2>3, <2>4, <3>1
    <3>5. K2 <= K - 1 => b <= a - g
      <4>1. K2 <= K - 1 => K >= K2 + 1
        BY <2>4
      <4>2. K >= K2 + 1 => a >= b + g
        BY <2>3, <2>4, <3>1, <3>2
      <4> QED BY <1>0, <2>4, <4>1, <4>2
    <3>6. K2 <= K - 2 => b <= a - 2 * g
      <4>1. K2 <= K - 2 => K >= K2 + 2
        BY <2>4
      <4>2. K >= K2 + 2 => a >= b + 2 * g
        BY <2>3, <2>4, <3>1
      <4> QED BY <1>0, <2>4, <4>1, <4>2
    <3> QED BY <3>3, <3>4, <3>5, <3>6
  <2>6. x2 = x + z
    BY <1>2, <1>5
  <2>7. low > 0 => K2 = K \/ K2 = K + 1
    BY <1>0, <1>2, <2>4, <2>5, <2>6
  <2>8. low <= 0 => K2 = K \/ K2 = K - 1
    BY <1>0, <1>2, <2>4, <2>5, <2>6
  <2>9. low + z > -g /\ low + z < g => K2 = K
    BY <1>0, <1>2, <2>4, <2>5, <2>6
  <2>10. K2 = K => k2 = k
    BY <2>1, <2>2
  <2>11. ASSUME low > 0, K2 = K + 1 PROVE k2 = (k + 1) % m
    <3>1. K < m /\ k = K /\ k + 1 \in 0 .. m
      BY <1>0, <2>1, <2>2, <2>11
    <3>2. k + 1 = m => (k + 1) % m = 0
      BY <1>0
    <3>3. k + 1 < m => (k + 1) % m = k + 1
      BY <1>0, <3>1
    <3> QED BY <2>2, <2>11, <3>1, <3>2, <3>3
  <2>12. ASSUME low <= 0, K2 = K - 1 PROVE k2 = (k - 1) % m
    <3>1. K \in 1 .. m /\ K2 = K - 1 /\ K2 < m /\ k2 = K2
      BY <1>0, <2>1, <2>2, <2>12
    <3>2. K < m => k = K /\ (k - 1) % m = k - 1
      BY <1>0, <2>1, <3>1
    <3>3. K = m => k = 0 /\ (-1) % m = m - 1
      BY <1>0, <2>1, <3>1
    <3>4. 0 - 1 = -1
      OBVIOUS
    <3> QED BY <1>0, <3>1, <3>2, <3>3, <3>4
  <2> QED BY <1>0, <2>7, <2>8, <2>9, <2>10, <2>11, <2>12
<1> QED BY <1>4, <1>5

\* _mod_pm gives a congruent number, and small numbers back.
LEMMA ModPmSame ==
  ASSUME NEW q \in Nat \ {0}, NEW x \in Int
  PROVE  ModPm(x, q) \in Int /\ Same(x, ModPm(x, q), q)
<1>1. PICK y : y = x % q
  OBVIOUS
<1>2. y \in 0 .. q - 1 /\ q \in Int /\ y \in Int /\ Same(x, x, q)
  <2>1. q \in Int
    OBVIOUS
  <2>2. y \in 0 .. q - 1
    BY <1>1, ModRange
  <2>3. Same(x, x, q)
    BY <2>1, SameRefl
  <2> QED BY <2>1, <2>2, <2>3
<1>3. Same(y, x, q)
  BY <1>1, <1>2, SameMod
<1>4. Same(x, y, q)
  BY <1>2, <1>3, SameSym
<1>5. Same(q, 0, q) /\ Same(y, y, q)
  <2>1. q % q = 0 /\ 0 % q = 0 /\ 0 \in Int
    OBVIOUS
  <2> QED BY <1>2, <2>1, SameEqual, SameRefl, Zenon
<1>6. Same(y - q, y - 0, q)
  BY <1>2, <1>5, SameDifference
<1>7. y - 0 = y
  BY <1>2
<1>8. Same(x, y - q, q)
  <2>1. Same(y, y - q, q)
    BY <1>2, <1>6, <1>7, SameSym
  <2> QED BY <1>2, <1>4, <2>1, SameTrans
<1>9. ModPm(x, q) = IF y > q \div 2 THEN y - q ELSE y
  BY <1>1 DEF ModPm
<1>10. y - q \in Int
  BY <1>2
<1> QED BY <1>2, <1>4, <1>8, <1>9, <1>10

LEMMA ModPmSmall ==
  ASSUME NEW g, NEW m, Zones(g, m), NEW low \in -g .. g
  PROVE  ModPm(low, R.q) = low
<1>1. PICK gm : gm = g * m
  OBVIOUS
<1>2. g \in Nat \ {0} /\ m \in Nat \ {0} /\ R.q = 2 * gm + 1
  BY <1>1 DEF Zones
<1>3. gm \in Nat /\ gm >= g
  BY <1>1, <1>2
<1>4. R.q \div 2 = gm /\ low \in Int /\ R.q \in Nat \ {0}
  BY <1>2, <1>3
<1>5. CASE low >= 0
  <2>1. low % R.q = low
    BY <1>2, <1>3, <1>5
  <2>2. ~(low > gm)
    BY <1>2, <1>3
  <2> QED BY <1>4, <2>1, <2>2 DEF ModPm
<1>6. CASE low < 0
  <2>1. low + R.q \in 0 .. R.q - 1 /\ low + R.q > gm
    BY <1>2, <1>3, <1>6
  <2>2. Same(R.q, 0, R.q) /\ Same(low, low, R.q) /\ R.q \in Int
    <3>1. R.q % R.q = 0 /\ 0 % R.q = 0 /\ 0 \in Int /\ R.q \in Int
      BY <1>4
    <3> QED BY <1>4, <3>1, SameEqual, SameRefl, Zenon
  <2>3. Same(low + R.q, low + 0, R.q)
    BY <2>2, SameSum
  <2>4. low + 0 = low
    BY <1>4
  <2>5. Same(low, low + R.q, R.q)
    BY <2>2, <2>3, <2>4, SameSym
  <2>6. low % R.q = low + R.q
    BY <1>4, <2>1, <2>5, SameEqual, Zenon
  <2>7. (low + R.q) - R.q = low
    BY <1>4
  <2> QED BY <1>4, <2>1, <2>6, <2>7 DEF ModPm
<1> QED BY <1>4, <1>5, <1>6

\* Only the residue is rounded.
LEMMA DecomposeSame ==
  ASSUME NEW q, q = R.q, q \in Nat \ {0}, NEW r, NEW s, Same(r, s, q)
  PROVE  Decompose(r) = Decompose(s)
<1>1. r % R.q = s % R.q
  BY SameEqual
<1> QED BY <1>1, Zenon DEF Decompose

\* The residues of a number and of its sum with a small one.
LEMMA Shifted ==
  ASSUME NEW q \in Nat \ {0}, NEW r \in Int, NEW z \in -q .. q, z > -q, z < q
  PROVE  \E s \in {-1, 0, 1} : (r + z) % q = (r % q) + z + s * q
<1>1. PICK x, y, u, v : x = r % q /\ u = r \div q /\ y = (r + z) % q /\ v = (r + z) \div q
  OBVIOUS
<1>2. x \in 0 .. q - 1 /\ y \in 0 .. q - 1 /\ u \in Int /\ v \in Int /\ r = q * u + x /\ r + z = q * v + y
  BY <1>1
<1>3. PICK s : s = u - v
  OBVIOUS
<1>4. s \in Int /\ q * s = y - x - z
  BY <1>2, <1>3
<1>5. y = x + z + s * q
  <2>1. s * q = q * s
    BY <1>4
  <2>2. PICK sq : sq = q * s
    OBVIOUS
  <2>3. y = x + z + sq
    BY <1>2, <1>4, <2>2
  <2> QED BY <2>1, <2>2, <2>3
<1>6. s < 2
  <2> SUFFICES ASSUME s >= 2 PROVE FALSE
    BY <1>4
  <2>1. q * s >= q * 2
    BY <1>4
  <2> QED BY <1>2, <1>4, <2>1
<1>7. s > -2
  <2> SUFFICES ASSUME s <= -2 PROVE FALSE
    BY <1>4
  <2>1. q * s <= q * (-2)
    BY <1>4
  <2> QED BY <1>2, <1>4, <2>1
<1>8. s \in {-1, 0, 1}
  BY <1>4, <1>6, <1>7
<1> QED BY <1>1, <1>5, <1>8

\* High bits of a number and of its sum with a small one.
LEMMA HighBitsStep ==
  ASSUME NEW g, NEW m, Zones(g, m), NEW r \in Int, NEW z \in -g .. g
  PROVE  LET k == Decompose(r)[1]
             low == Decompose(r)[2]
         IN  /\ HighBits(r) = k /\ k \in 0 .. m - 1 /\ low \in -g .. g
             /\ \/ HighBits(r + z) = k
                \/ low > 0 /\ HighBits(r + z) = (k + 1) % m
                \/ low <= 0 /\ HighBits(r + z) = (k - 1) % m
             /\ low + z > -g /\ low + z < g => HighBits(r + z) = k
<1>1. PICK q, gm : q = R.q /\ gm = g * m
  OBVIOUS
<1>2. g \in Nat \ {0} /\ m \in Nat \ {0} /\ q = 2 * gm + 1 /\ R.q = 2 * (g * m) + 1
  BY <1>1 DEF Zones
<1>3. gm \in Nat /\ gm >= g
  BY <1>1, <1>2
<1>4. q \in Nat \ {0} /\ z \in Int /\ z \in -q .. q /\ z > -q /\ z < q /\ r + z \in Int
  BY <1>2, <1>3
<1>5. PICK k, low \in Int : Decompose(r) = <<k, low>> /\ InZone(g, m, r % R.q, k, low)
  BY DecomposeIs
<1>6. PICK k2, low2 \in Int : Decompose(r + z) = <<k2, low2>> /\ InZone(g, m, (r + z) % R.q, k2, low2)
  BY <1>4, DecomposeIs
<1>7. PICK s \in {-1, 0, 1} : (r + z) % q = (r % q) + z + s * q
  BY <1>4, Shifted
<1>8. PICK x, x2 : x = r % q /\ x2 = (r + z) % q
  OBVIOUS
<1>9. x \in 0 .. 2 * (g * m) /\ x2 \in 0 .. 2 * (g * m)
  <2>1. x \in 0 .. q - 1 /\ x2 \in 0 .. q - 1
    BY <1>4, <1>8, ModRange
  <2> QED BY <1>1, <1>2, <1>3, <2>1
<1>10. x2 = x + z + s * (2 * (g * m) + 1)
  BY <1>1, <1>2, <1>7, <1>8
<1>11. InZone(g, m, x, k, low) /\ InZone(g, m, x2, k2, low2)
  BY <1>1, <1>5, <1>6, <1>8
<1>12. /\ k2 = k \/ (low > 0 /\ k2 = (k + 1) % m) \/ (low <= 0 /\ k2 = (k - 1) % m)
       /\ low + z > -g /\ low + z < g => k2 = k
  <2>1. low \in Int /\ low2 \in Int /\ s \in {-1, 0, 1}
    BY <1>5, <1>6, <1>7
  <2>2. Near(g, m, x, k, low, x2, k2, low2, z, s)
    BY <1>2, <1>9, <1>10, <1>11, <2>1, Zenon DEF Near
  <2> QED BY <2>2, ZoneStep
<1>13. k \in 0 .. m - 1 /\ low \in -g .. g
  <2>1. k \in 0 .. m - 1
    BY <1>11 DEF InZone
  <2>2. low >= -g /\ low <= g
    BY <1>2, <1>9, <1>11, ZoneEnds
  <2> QED BY <1>2, <2>1, <2>2
<1>14. Decompose(r)[1] = k /\ Decompose(r)[2] = low /\ HighBits(r) = k /\ HighBits(r + z) = k2
  BY <1>5, <1>6 DEF HighBits
<1> QED BY <1>12, <1>13, <1>14

\* A hint gives back the high bits of a sum from one summand.
LEMMA HintRecovers ==
  ASSUME NEW g, NEW m, Zones(g, m), (R.q - 1) \div (2 * MlDsaParams.gamma2) = m,
         NEW r \in Int, NEW z \in Int, NEW y \in -g .. g, Same(z, y, R.q)
  PROVE  UseHint(MakeHint(z, r), r) = HighBits(r + z)
<1>1. PICK k, low : k = Decompose(r)[1] /\ low = Decompose(r)[2]
  OBVIOUS
<1>2. /\ HighBits(r) = k /\ k \in 0 .. m - 1 /\ low \in -g .. g
      /\ \/ HighBits(r + y) = k
         \/ low > 0 /\ HighBits(r + y) = (k + 1) % m
         \/ low <= 0 /\ HighBits(r + y) = (k - 1) % m
  BY <1>1, HighBitsStep
<1>3. g \in Nat /\ m \in Nat /\ y \in Int /\ R.q \in Nat \ {0} /\ R.q \in Int
  BY DEF Zones
<1>4. HighBits(r + z) = HighBits(r + y)
  <2>1. Same(r, r, R.q)
    BY <1>3, SameRefl
  <2>2. Same(r + z, r + y, R.q)
    BY <1>3, <2>1, SameSum
  <2>3. Decompose(r + z) = Decompose(r + y)
    BY <1>3, <2>2, DecomposeSame
  <2> QED BY <2>3, Zenon DEF HighBits
<1>5. CASE HighBits(r) = HighBits(r + z)
  <2>1. MakeHint(z, r) = 0 /\ 0 # 1
    BY <1>5 DEF MakeHint
  <2>2. UseHint(MakeHint(z, r), r) = k
    BY <1>1, <2>1, Zenon DEF UseHint
  <2> QED BY <1>2, <1>5, <2>2
<1>6. CASE HighBits(r) # HighBits(r + z)
  <2>1. MakeHint(z, r) = 1
    BY <1>6 DEF MakeHint
  <2>2. UseHint(MakeHint(z, r), r) = (IF low > 0 THEN k + 1 ELSE k - 1) % m
    BY <1>1, <2>1, Zenon DEF UseHint
  <2>3. CASE low > 0
    BY <1>2, <1>4, <1>6, <2>2, <2>3
  <2>4. CASE ~(low > 0)
    BY <1>2, <1>4, <1>6, <2>2, <2>4
  <2> QED BY <2>3, <2>4
<1> QED BY <1>5, <1>6

\* The rounding of ML-DSA (mldsa.py:209-240, 548-575): when the three tests on norms of a coefficient succeed, the hint that
\* is made from the remainder and the product with t0 gives the high bits of the mask's coefficient w back to whoever
\* knows the remainder plus that product, v, only, whatever residues they are; the corner of _decompose is
\* included.
THEOREM HintsRecover ==
  ASSUME MlDsaParams.beta \in Nat, NEW w \in Int, NEW cs2 \in Int, NEW ct0 \in Int, NEW v \in Int,
         ModPm(cs2, R.q) \in -MlDsaParams.beta .. MlDsaParams.beta,
         ModPm(LowBits((w - cs2) % R.q), R.q)
           \in 1 - (MlDsaParams.gamma2 - MlDsaParams.beta) .. MlDsaParams.gamma2 - MlDsaParams.beta - 1,
         ModPm(ct0, R.q) \in 1 - MlDsaParams.gamma2 .. MlDsaParams.gamma2 - 1,
         v % R.q = (w - cs2 + ct0) % R.q
  PROVE  UseHint(MakeHint(-ct0, ((w - cs2) % R.q) + ct0), v) = HighBits(w)
<1>1. PICK g, m : Zones(g, m) /\ (R.q - 1) \div (2 * MlDsaParams.gamma2) = m
  BY ZonesExist
<1>2. PICK q, b, r : q = R.q /\ b = MlDsaParams.beta /\ r = (w - cs2) % R.q
  OBVIOUS
<1>3. g \in Nat \ {0} /\ m \in Nat \ {0} /\ q \in Nat \ {0} /\ q \in Int /\ b \in Nat /\ MlDsaParams.gamma2 = g
  BY <1>1, <1>2 DEF Zones
<1>4. PICK s, t, low : s = ModPm(cs2, q) /\ t = ModPm(ct0, q) /\ low = LowBits(r)
  OBVIOUS
<1>5. s \in -b .. b /\ t \in 1 - g .. g - 1 /\ ModPm(low, q) \in 1 - (g - b) .. g - b - 1
  BY <1>2, <1>3, <1>4
<1>6. r \in Int /\ Same(r, w - cs2, q)
  <2>1. w - cs2 \in Int
    OBVIOUS
  <2>2. r \in 0 .. q - 1 /\ Same(w - cs2, w - cs2, q)
    BY <1>2, <1>3, <2>1, ModRange, SameRefl
  <2> QED BY <1>2, <1>3, <2>2, SameMod
<1>7. Same(cs2, s, q) /\ Same(ct0, t, q) /\ s \in Int /\ t \in Int
  BY <1>3, <1>4, ModPmSame
<1>8. low \in -g .. g
  <2>1. 0 \in -g .. g
    BY <1>3
  <2>2. low = Decompose(r)[2]
    BY <1>4 DEF LowBits
  <2>3. Decompose(r)[2] \in -g .. g
    BY <1>1, <1>6, <2>1, HighBitsStep
  <2> QED BY <2>2, <2>3
<1>9. low \in 1 - (g - b) .. g - b - 1
  <2>1. ModPm(low, q) = low
    BY <1>1, <1>2, <1>8, ModPmSmall
  <2> QED BY <1>5, <2>1
<1>10. HighBits(r + s) = HighBits(r) /\ HighBits(r) = HighBits(w)
  <2>1. low + s > -g /\ low + s < g /\ s \in -g .. g
    BY <1>3, <1>5, <1>9
  <2>2. low = Decompose(r)[2]
    BY <1>4 DEF LowBits
  <2>3. HighBits(r + s) = HighBits(r)
    BY <1>1, <1>6, <2>1, <2>2, HighBitsStep
  <2>4. Same(r + s, w, q)
    <3>1. Same(s, cs2, q)
      BY <1>3, <1>7, SameSym
    <3>2. Same(r + s, (w - cs2) + cs2, q)
      BY <1>3, <1>6, <3>1, SameSum
    <3>3. (w - cs2) + cs2 = w
      OBVIOUS
    <3> QED BY <3>2, <3>3
  <2>5. Decompose(r + s) = Decompose(w)
    BY <1>2, <1>3, <2>4, DecomposeSame
  <2> QED BY <2>3, <2>5 DEF HighBits
<1>11. PICK u : u = r + ct0
  OBVIOUS
<1>12. u \in Int /\ -ct0 \in Int /\ -t \in -g .. g /\ u + (-ct0) = r
  BY <1>3, <1>5, <1>6, <1>11
<1>13. Same(-ct0, -t, q)
  <2>1. Same(0, 0, q)
    BY <1>3, SameRefl
  <2>2. Same(0 - ct0, 0 - t, q)
    BY <1>3, <1>7, <2>1, SameDifference
  <2>3. 0 - ct0 = -ct0 /\ 0 - t = -t
    BY <1>7
  <2> QED BY <2>2, <2>3
<1>14. UseHint(MakeHint(-ct0, u), u) = HighBits(r)
  <2>1. UseHint(MakeHint(-ct0, u), u) = HighBits(u + (-ct0))
    BY <1>1, <1>2, <1>12, <1>13, HintRecovers
  <2> QED BY <1>12, <2>1
<1>15. Decompose(v) = Decompose(u)
  <2>1. w - cs2 + ct0 \in Int /\ Same(ct0, ct0, q) /\ w - cs2 + ct0 = (w - cs2) + ct0
    BY <1>3, SameRefl
  <2>2. Same(v, w - cs2 + ct0, q)
    BY <1>2, <1>3, <2>1, SameEqual, Zenon
  <2>3. Same(u, (w - cs2) + ct0, q)
    BY <1>3, <1>6, <1>11, <2>1, SameSum
  <2>4. Same((w - cs2) + ct0, u, q)
    BY <1>3, <2>3, SameSym
  <2>5. Same(v, (w - cs2) + ct0, q)
    BY <2>1, <2>2
  <2>6. Same(v, u, q)
    BY <1>3, <2>4, <2>5, SameTrans
  <2> QED BY <1>2, <1>3, <2>6, DecomposeSame
<1>16. UseHint(MakeHint(-ct0, u), v) = UseHint(MakeHint(-ct0, u), u)
  BY <1>15, Zenon DEF UseHint
<1> QED BY <1>2, <1>10, <1>11, <1>14, <1>16

-----------------------------------------------------------------------------
(* The encoding of the hints of ML-DSA.                                      *)

Run(e, a, b) == {e[j] : j \in a + 1 .. b}
Rising(e, a, b) == \A i, j \in a + 1 .. b : i < j => e[i] < e[j]

LEMMA RunSize ==
  ASSUME NEW e, NEW a \in Nat, NEW b \in Nat, a <= b, \A j \in a + 1 .. b : e[j] \in Nat, Rising(e, a, b)
  PROVE  Cardinality(Run(e, a, b)) = b - a
<1> DEFINE f == [j \in a + 1 .. b |-> e[j]]
           T == Run(e, a, b)
<1>1. \A i, j \in a + 1 .. b : e[i] = e[j] => i = j
  <2> SUFFICES ASSUME NEW i \in a + 1 .. b, NEW j \in a + 1 .. b, e[i] = e[j], i # j PROVE FALSE
    OBVIOUS
  <2>1. e[i] \in Nat /\ e[j] \in Nat /\ (i < j \/ j < i)
    OBVIOUS
  <2>2. (i < j => e[i] < e[j]) /\ (j < i => e[j] < e[i])
    BY DEF Rising
  <2> QED BY <2>1, <2>2
<1>2. f \in Bijection(a + 1 .. b, T)
  BY <1>1, Zenon DEF Bijection, Injection, Surjection, IsInjective, Run
<1>3. ExistsBijection(a + 1 .. b, T)
  BY <1>2, Zenon DEF ExistsBijection
<1>4. a + 1 \in Int /\ b \in Int
  OBVIOUS
<1>5. IsFiniteSet(a + 1 .. b) /\ Cardinality(a + 1 .. b) = IF a + 1 > b THEN 0 ELSE b - (a + 1) + 1
  BY <1>4, FS_Interval
<1>6. Cardinality(T) = Cardinality(a + 1 .. b)
  BY <1>3, <1>5, FS_Bijection
<1> QED BY <1>5, <1>6

\* What rises from each to the next rises.
LEMMA NextRises ==
  ASSUME NEW e, NEW a \in Nat, NEW b \in Nat, \A j \in a + 1 .. b : e[j] \in Nat, \A j \in a + 2 .. b : e[j - 1] < e[j]
  PROVE  Rising(e, a, b)
<1> SUFFICES ASSUME NEW i \in a + 1 .. b, NEW j \in a + 1 .. b, i < j PROVE e[i] < e[j]
  BY DEF Rising
<1> DEFINE T == {d \in Nat : i + 1 + d <= b => e[i] < e[i + 1 + d]}
<1>1. 0 \in T
  <2>1. i + 1 + 0 = i + 1 /\ (i + 1) - 1 = i
    OBVIOUS
  <2>2. i + 1 <= b => i + 1 \in a + 2 .. b
    OBVIOUS
  <2> QED BY <2>1, <2>2
<1>2. ASSUME NEW d \in Nat, d \in T PROVE d + 1 \in T
  <2>1. ASSUME i + 1 + (d + 1) <= b PROVE e[i] < e[i + 1 + (d + 1)]
    <3>1. /\ i + 1 + d <= b /\ i + 1 + (d + 1) \in a + 2 .. b /\ i + 1 + (d + 1) - 1 = i + 1 + d
          /\ i + 1 + d \in a + 1 .. b /\ i + 1 + (d + 1) \in a + 1 .. b
      BY <2>1
    <3>2. e[i] < e[i + 1 + d]
      BY <1>2, <3>1
    <3>3. e[i + 1 + d] < e[i + 1 + (d + 1)]
      BY <3>1
    <3>4. e[i] \in Nat /\ e[i + 1 + d] \in Nat /\ e[i + 1 + (d + 1)] \in Nat
      BY <3>1
    <3> QED BY <3>2, <3>3, <3>4
  <2>2. d + 1 \in Nat
    OBVIOUS
  <2> QED BY <2>1, <2>2
<1>. HIDE DEF T
<1>3. \A d \in Nat : d \in T
  BY <1>1, <1>2, CountUp
<1>4. PICK d \in Nat : j = i + 1 + d
  <2>1. j - i - 1 \in Nat /\ j = i + 1 + (j - i - 1)
    OBVIOUS
  <2> QED BY <2>1
<1>5. d \in T /\ i + 1 + d <= b
  BY <1>3, <1>4
<1> QED BY <1>4, <1>5 DEF T

\* What _sig_decode makes of row i.
DecodedRow(e, i) == [x \in Coeffs |-> IF \E j \in Begin(e, i) + 1 .. Ends(e, i) : e[j] = x THEN 1 ELSE 0]

LEMMA WellFormedRow ==
  ASSUME NEW e, WellFormed(e), NEW i \in Rows
  PROVE  /\ Ends(e, i) \in Begin(e, i) .. MlDsaParams.omega
         /\ \A j \in Begin(e, i) + 2 .. Ends(e, i) : e[j - 1] < e[j]
         /\ HintDecode(e)[i] = DecodedRow(e, i)
<1>1. /\ Ends(e, i) \in Begin(e, i) .. MlDsaParams.omega
      /\ \A j \in Begin(e, i) + 2 .. Ends(e, i) : e[j - 1] < e[j]
  BY DEF WellFormed
<1>2. HintDecode(e)[i] = DecodedRow(e, i)
  BY DEF HintDecode, DecodedRow
<1> QED BY <1>1, <1>2

\* An encoding that _sig_decode takes.
Taken(e, omega, k) ==
  /\ omega = MlDsaParams.omega /\ k = MlDsaParams.k /\ omega \in Nat /\ k \in Nat \ {0} /\ R.n \in Nat
  /\ e \in Seq(Nat) /\ Len(e) = omega + k /\ \A j \in 1 .. omega : e[j] \in Coeffs
  /\ WellFormed(e)

LEMMA TakenRows ==
  ASSUME NEW e, NEW omega, NEW k, Taken(e, omega, k), NEW i \in 1 .. k
  PROVE  /\ Begin(e, i) \in 0 .. omega /\ Ends(e, i) \in Begin(e, i) .. omega
         /\ (i = 1 => Begin(e, i) = 0) /\ (i # 1 => Begin(e, i) = Ends(e, i - 1))
         /\ \A j \in Begin(e, i) + 1 .. Ends(e, i) : e[j] \in Nat
         /\ Rising(e, Begin(e, i), Ends(e, i))
         /\ Ones(HintDecode(e)[i]) = Run(e, Begin(e, i), Ends(e, i))
         /\ Cardinality(Ones(HintDecode(e)[i])) = Ends(e, i) - Begin(e, i)
<1>1. /\ omega = MlDsaParams.omega /\ k = MlDsaParams.k /\ omega \in Nat /\ k \in Nat \ {0} /\ R.n \in Nat
      /\ e \in Seq(Nat) /\ Len(e) = omega + k /\ (\A j \in 1 .. omega : e[j] \in Coeffs) /\ WellFormed(e)
  BY DEF Taken
<1>0. Rows = 1 .. k /\ i \in Rows
  BY <1>1 DEF Rows
<1>2. \A r \in 1 .. k : Ends(e, r) \in Begin(e, r) .. omega
  <2> TAKE r \in 1 .. k
  <2>1. r \in Rows
    BY <1>0
  <2> QED BY <1>1, <2>1, WellFormedRow, Zenon
<1>3. \A r \in 1 .. k : Ends(e, r) = e[omega + r] /\ Ends(e, r) \in Nat
  <2> TAKE r \in 1 .. k
  <2>1. omega + r \in 1 .. Len(e)
    BY <1>1
  <2>2. e[omega + r] \in Nat
    BY <1>1, <2>1, ElementOfSeq
  <2> QED BY <1>1, <2>2 DEF Ends
<1>4. (i = 1 => Begin(e, i) = 0) /\ (i # 1 => Begin(e, i) = Ends(e, i - 1))
  <2>1. i # 1 => omega + i - 1 = omega + (i - 1) /\ i - 1 \in 1 .. k
    BY <1>1
  <2> QED BY <1>1, <1>3, <2>1 DEF Begin
<1>5. Begin(e, i) \in Nat
  <2>1. i # 1 => i - 1 \in 1 .. k
    BY <1>1
  <2> QED BY <1>3, <1>4, <2>1
<1>6. PICK a, b : a = Begin(e, i) /\ b = Ends(e, i)
  OBVIOUS
<1>7. a \in Nat /\ b \in Nat /\ a <= b /\ b <= omega
  BY <1>1, <1>2, <1>3, <1>5, <1>6
<1>8. \A j \in a + 1 .. b : j \in 1 .. omega /\ e[j] \in Coeffs /\ e[j] \in Nat
  <2> TAKE j \in a + 1 .. b
  <2>1. j \in 1 .. omega
    BY <1>1, <1>7
  <2>2. e[j] \in Coeffs
    BY <1>1, <2>1
  <2>3. e[j] \in Nat
    BY <1>1, <2>2 DEF Coeffs
  <2> QED BY <2>1, <2>2, <2>3
<1>9. \A j \in a + 2 .. b : e[j - 1] < e[j]
  <2>1. \A j \in Begin(e, i) + 2 .. Ends(e, i) : e[j - 1] < e[j]
    BY <1>0, <1>1, WellFormedRow, Zenon
  <2> QED BY <1>6, <2>1, Zenon
<1>10. Rising(e, a, b)
  BY <1>7, <1>8, <1>9, NextRises
<1>11. HintDecode(e)[i] = [x \in Coeffs |-> IF \E j \in a + 1 .. b : e[j] = x THEN 1 ELSE 0]
  <2>1. HintDecode(e)[i] = DecodedRow(e, i)
    BY <1>0, <1>1, WellFormedRow, Zenon
  <2> QED BY <1>6, <2>1, Zenon DEF DecodedRow
<1>12. Ones(HintDecode(e)[i]) = Run(e, a, b)
  <2>1. \A x \in Coeffs : HintDecode(e)[i][x] # 0 <=> \E j \in a + 1 .. b : e[j] = x
    BY <1>11
  <2> QED BY <1>8, <2>1, Zenon DEF Ones, Run
<1>13. Cardinality(Run(e, a, b)) = b - a
  BY <1>7, <1>8, <1>10, RunSize
<1>14. Cardinality(Ones(HintDecode(e)[i])) = b - a
  BY <1>12, <1>13, Zenon
<1>15. a \in 0 .. omega /\ b \in a .. omega
  BY <1>1, <1>7
<1>16. \A j \in a + 1 .. b : e[j] \in Nat
  BY <1>8, Zenon
<1> QED BY <1>4, <1>6, <1>10, <1>12, <1>14, <1>15, <1>16, Zenon

\* What has been counted up to a row is where its positions end.
LEMMA WeightIs ==
  ASSUME NEW e, NEW omega, NEW k, Taken(e, omega, k), NEW i \in 0 .. k
  PROVE  Weight(HintDecode(e), i) = IF i = 0 THEN 0 ELSE Ends(e, i)
<1> DEFINE N(r) == Cardinality(Ones(HintDecode(e)[r]))
           B(w, r) == IF r = 0 THEN 0 ELSE w[r - 1] + N(r)
           V == CHOOSE w : w = [r \in 0 .. i |-> B(w, r)]
           v == [r \in 0 .. i |-> IF r = 0 THEN 0 ELSE Ends(e, r)]
<1>1. Weight(HintDecode(e), i) = V[i]
  BY Zenon DEF Weight
<1>2. k \in Nat \ {0} /\ i \in Nat
  BY DEF Taken
<1>3. \A r \in 1 .. k : /\ N(r) = Ends(e, r) - Begin(e, r) /\ Ends(e, r) \in Nat /\ Begin(e, r) \in Nat
                        /\ (r = 1 => Begin(e, r) = 0) /\ (r # 1 => Begin(e, r) = Ends(e, r - 1))
  <2> TAKE r \in 1 .. k
  <2>1. omega \in Nat
    BY DEF Taken
  <2>2. /\ Begin(e, r) \in 0 .. omega /\ Ends(e, r) \in Begin(e, r) .. omega /\ N(r) = Ends(e, r) - Begin(e, r)
        /\ (r = 1 => Begin(e, r) = 0) /\ (r # 1 => Begin(e, r) = Ends(e, r - 1))
    BY TakenRows
  <2> HIDE DEF N
  <2> QED BY <2>1, <2>2
<1>4. \A w : B(w, 0) = 0
  BY Zenon
<1>5. \A w : \A r \in 1 .. i : B(w, r) = w[r - 1] + N(r)
  <2>1. \A r \in 1 .. i : r # 0
    BY <1>2
  <2> QED BY <2>1, Zenon
<1>. HIDE DEF N, B
<1>6. \A r \in 0 .. i : v[r] = B(v, r)
  <2> TAKE r \in 0 .. i
  <2>1. CASE r = 0
    BY <1>4, <2>1
  <2>2. CASE r # 0
    <3>1. r \in 1 .. i /\ r \in 1 .. k /\ r - 1 \in 0 .. i /\ r \in Nat /\ v[r] = Ends(e, r)
      BY <1>2, <2>2
    <3>2. v[r - 1] = Begin(e, r)
      <4>1. CASE r = 1
        BY <1>3, <3>1, <4>1
      <4>2. CASE r # 1
        <5>1. r - 1 # 0
          BY <3>1, <4>2
        <5>2. v[r - 1] = Ends(e, r - 1)
          BY <3>1, <5>1
        <5> QED BY <1>3, <3>1, <4>2, <5>2, Zenon
      <4> QED BY <4>1, <4>2
    <3>3. B(v, r) = v[r - 1] + N(r) /\ N(r) = Ends(e, r) - Begin(e, r) /\ Ends(e, r) \in Nat /\ Begin(e, r) \in Nat
      BY <1>3, <1>5, <3>1
    <3> QED BY <3>1, <3>2, <3>3
  <2> QED BY <2>1, <2>2
<1>7. v = [r \in 0 .. i |-> B(v, r)]
  BY <1>6, Zenon
<1>8. V = [r \in 0 .. i |-> B(V, r)]
  BY <1>7, Zenon
<1>. HIDE DEF V
<1>9. \A r \in 0 .. i : V[r] = B(V, r)
  BY <1>8, Zenon
<1> DEFINE T == {r \in Nat : r <= i => V[r] = v[r]}
<1>10. 0 \in T
  <2>1. 0 \in 0 .. i
    BY <1>2
  <2>2. V[0] = v[0]
    BY <1>4, <1>6, <1>9, <2>1, Zenon
  <2> QED BY <2>2
<1>11. ASSUME NEW r \in Nat, r \in T PROVE r + 1 \in T
  <2>1. ASSUME r + 1 <= i PROVE V[r + 1] = v[r + 1]
    <3>1. r + 1 \in 1 .. i /\ r + 1 \in 0 .. i /\ (r + 1) - 1 = r /\ r <= i
      BY <1>2, <2>1
    <3>2. V[r] = v[r]
      BY <1>11, <3>1
    <3>3. V[r + 1] = V[r] + N(r + 1) /\ v[r + 1] = v[r] + N(r + 1)
      <4>1. V[r + 1] = B(V, r + 1) /\ v[r + 1] = B(v, r + 1)
        BY <1>6, <1>9, <3>1, Zenon
      <4>2. \A w : B(w, r + 1) = w[(r + 1) - 1] + N(r + 1)
        BY <1>5, <3>1, Zenon
      <4>. HIDE DEF v
      <4> QED BY <3>1, <4>1, <4>2, Zenon
    <3> QED BY <3>2, <3>3, Zenon
  <2>2. r + 1 \in Nat
    OBVIOUS
  <2>. HIDE DEF v
  <2> QED BY <2>1, <2>2
<1>. HIDE DEF T
<1>12. \A r \in Nat : r \in T
  BY <1>10, <1>11, CountUp
<1>13. i <= i /\ i \in 0 .. i
  BY <1>2
<1>14. V[i] = v[i]
  BY <1>2, <1>12, <1>13, Zenon DEF T
<1>15. v[i] = IF i = 0 THEN 0 ELSE Ends(e, i)
  BY <1>13, Zenon
<1> QED BY <1>1, <1>14, <1>15, Zenon

\* The position that is the next after the smaller ones.
LEMMA Positions ==
  ASSUME NEW e, NEW a \in Nat, NEW b \in Nat, \A j \in a + 1 .. b : e[j] \in Nat, Rising(e, a, b), NEW j \in a + 1 .. b
  PROVE  (CHOOSE x \in Run(e, a, b) : Cardinality({y \in Run(e, a, b) : y < x}) = j - 1 - a) = e[j]
<1>1. ASSUME NEW i \in a + 1 .. b PROVE Cardinality({y \in Run(e, a, b) : y < e[i]}) = i - 1 - a
  <2>1. \A h \in a + 1 .. b : e[h] < e[i] <=> h \in a + 1 .. i - 1
    <3> TAKE h \in a + 1 .. b
    <3>1. e[h] \in Nat /\ e[i] \in Nat /\ (h < i \/ h = i \/ i < h)
      OBVIOUS
    <3>2. (h < i => e[h] < e[i]) /\ (i < h => e[i] < e[h])
      BY DEF Rising
    <3>3. h < i <=> h \in a + 1 .. i - 1
      OBVIOUS
    <3> QED BY <3>1, <3>2, <3>3
  <2>2. \A h \in a + 1 .. i - 1 : h \in a + 1 .. b
    OBVIOUS
  <2>3. {y \in Run(e, a, b) : y < e[i]} = Run(e, a, i - 1)
    BY <2>1, <2>2, Zenon DEF Run
  <2>4. i - 1 \in Nat /\ a <= i - 1 /\ \A h \in a + 1 .. i - 1 : e[h] \in Nat
    BY <2>2
  <2>5. Rising(e, a, i - 1)
    BY <2>2, Zenon DEF Rising
  <2>6. Cardinality(Run(e, a, i - 1)) = (i - 1) - a
    BY <2>4, <2>5, RunSize
  <2> QED BY <2>3, <2>6
<1>2. e[j] \in Run(e, a, b) /\ Cardinality({y \in Run(e, a, b) : y < e[j]}) = j - 1 - a
  BY <1>1, Zenon DEF Run
<1>3. ASSUME NEW x \in Run(e, a, b), Cardinality({y \in Run(e, a, b) : y < x}) = j - 1 - a PROVE x = e[j]
  <2>1. PICK i \in a + 1 .. b : x = e[i]
    BY DEF Run
  <2>2. i - 1 - a = j - 1 - a
    BY <1>1, <1>3, <2>1, Zenon
  <2>3. i = j
    BY <2>2
  <2> QED BY <2>1, <2>3
<1> QED BY <1>2, <1>3, Zenon

\* A function on the numbers up to n is a sequence of length n.
LEMMA FunctionSeq ==
  ASSUME NEW S, NEW n \in Nat, NEW f \in [1 .. n -> S]
  PROVE  f \in Seq(S) /\ Len(f) = n
OBVIOUS

LEMMA HintCanonical ==
  ASSUME NEW e, NEW omega, NEW k, Taken(e, omega, k)
  PROVE  HintEncode(HintDecode(e)) = e
<1>1. /\ omega = MlDsaParams.omega /\ k = MlDsaParams.k /\ omega \in Nat /\ k \in Nat \ {0} /\ R.n \in Nat
      /\ e \in Seq(Nat) /\ Len(e) = omega + k /\ Rows = 1 .. k
  BY DEF Taken, Rows
<1> DEFINE h == HintDecode(e)
           At(j) == IF j > Weight(h, MlDsaParams.k) THEN 0
                    ELSE LET i == CHOOSE r \in Rows : Weight(h, r - 1) < j /\ j <= Weight(h, r)
                         IN  CHOOSE x \in Ones(h[i]) :
                               Cardinality({y \in Ones(h[i]) : y < x}) = j - 1 - Weight(h, i - 1)
           p == [j \in 1 .. MlDsaParams.omega |-> At(j)]
           q == [i \in Rows |-> Weight(h, i)]
<1>2. HintEncode(h) = p \o q
  BY Zenon DEF HintEncode
<1>3. \A i \in 1 .. k : /\ Weight(h, i) = Ends(e, i) /\ Weight(h, i - 1) = Begin(e, i)
                        /\ Ends(e, i) \in Nat /\ Begin(e, i) \in Nat /\ Begin(e, i) <= Ends(e, i) /\ Ends(e, i) <= omega
  <2> TAKE i \in 1 .. k
  <2>1. i \in 0 .. k /\ i # 0 /\ i - 1 \in 0 .. k /\ (i - 1 = 0 <=> i = 1)
    BY <1>1
  <2>2. Weight(h, i) = Ends(e, i)
    BY <2>1, WeightIs
  <2>3. Weight(h, i - 1) = IF i - 1 = 0 THEN 0 ELSE Ends(e, i - 1)
    BY <2>1, WeightIs
  <2>4. /\ Begin(e, i) \in 0 .. omega /\ Ends(e, i) \in Begin(e, i) .. omega
        /\ (i = 1 => Begin(e, i) = 0) /\ (i # 1 => Begin(e, i) = Ends(e, i - 1))
    BY TakenRows
  <2>5. Weight(h, i - 1) = Begin(e, i)
    BY <2>1, <2>3, <2>4
  <2>6. Ends(e, i) \in Nat /\ Begin(e, i) \in Nat /\ Begin(e, i) <= Ends(e, i) /\ Ends(e, i) <= omega
    BY <1>1, <2>4
  <2> QED BY <2>2, <2>5, <2>6
<1>. HIDE DEF h
<1>4. ASSUME NEW j \in 1 .. omega PROVE At(j) = e[j]
  <2>1. k \in 1 .. k /\ j \in Nat
    BY <1>1
  <2>2. Weight(h, k) = Ends(e, k) /\ Ends(e, k) \in Nat
    BY <1>3, <2>1
  <2>5. Weight(h, MlDsaParams.k) = Weight(h, k)
    BY <1>1
  <2>3. CASE j > Weight(h, k)
    <3>1. WellFormed(e)
      BY DEF Taken
    <3>2. \A i \in Ends(e, k) + 1 .. omega : e[i] = 0
      BY <1>1, <3>1 DEF WellFormed
    <3>3. j \in Ends(e, k) + 1 .. omega
      BY <1>1, <2>2, <2>3
    <3>4. e[j] = 0
      BY <3>2, <3>3
    <3> QED BY <2>3, <2>5, <3>4, Zenon
  <2>4. CASE ~(j > Weight(h, k))
    <3> DEFINE S == {r \in 1 .. k : j <= Ends(e, r)}
    <3>1. S \subseteq Nat /\ k \in S
      BY <2>1, <2>2, <2>4
    <3>2. PICK r \in S : \A s \in S : r <= s
      BY <3>1, Least
    <3>3. r \in 1 .. k /\ j <= Ends(e, r) /\ Begin(e, r) < j
      <4>1. CASE r = 1
        <5>1. Begin(e, r) = 0
          BY <3>2, <4>1, TakenRows
        <5> QED BY <2>1, <3>2, <5>1
      <4>2. CASE r # 1
        <5>1. Begin(e, r) = Ends(e, r - 1)
          BY <3>2, <4>2, TakenRows
        <5>2. r - 1 \in 1 .. k /\ r - 1 < r
          BY <1>1, <3>2, <4>2
        <5>3. r - 1 \notin S
          BY <3>2, <5>2
        <5>4. ~(j <= Ends(e, r - 1)) /\ Ends(e, r - 1) \in Nat
          BY <1>3, <5>2, <5>3
        <5> QED BY <2>1, <3>2, <5>1, <5>4
      <4> QED BY <4>1, <4>2
    <3>. HIDE DEF S
    <3>4. \E s \in Rows : Weight(h, s - 1) < j /\ j <= Weight(h, s)
      BY <1>1, <1>3, <3>3
    <3>5. PICK i : i = CHOOSE s \in Rows : Weight(h, s - 1) < j /\ j <= Weight(h, s)
      OBVIOUS
    <3>6. i \in Rows /\ Weight(h, i - 1) < j /\ j <= Weight(h, i)
      BY <3>4, <3>5, Zenon
    <3>7. PICK a, b : a = Begin(e, i) /\ b = Ends(e, i)
      OBVIOUS
    <3>8. i \in 1 .. k /\ Weight(h, i - 1) = a /\ Weight(h, i) = b /\ a \in Nat /\ b \in Nat
      BY <1>1, <1>3, <3>6, <3>7
    <3>9. j \in a + 1 .. b
      BY <2>1, <3>6, <3>8
    <3>10. Ones(h[i]) = Run(e, a, b) /\ Rising(e, a, b) /\ \A s \in a + 1 .. b : e[s] \in Nat
      BY <3>7, <3>8, TakenRows DEF h
    <3>11. (CHOOSE x \in Run(e, a, b) : Cardinality({y \in Run(e, a, b) : y < x}) = j - 1 - a) = e[j]
      BY <3>8, <3>9, <3>10, Positions
    <3>12. At(j) = CHOOSE x \in Ones(h[i]) : Cardinality({y \in Ones(h[i]) : y < x}) = j - 1 - Weight(h, i - 1)
      BY <2>4, <2>5, <3>5, Zenon
    <3>. HIDE DEF At
    <3> QED BY <3>8, <3>10, <3>11, <3>12, Zenon
  <2> QED BY <2>3, <2>4, Zenon
<1>. HIDE DEF At
<1>5. \A i \in 1 .. Len(e) : e[i] \in Nat
  BY <1>1, ElementOfSeq
<1>6. p \in Seq(Nat) /\ Len(p) = omega /\ \A j \in 1 .. omega : p[j] = e[j]
  <2>1. \A j \in 1 .. omega : At(j) = e[j] /\ At(j) \in Nat
    BY <1>1, <1>4, <1>5
  <2>2. \A j \in 1 .. omega : p[j] = e[j]
    BY <1>1, <2>1
  <2>3. p \in [1 .. omega -> Nat]
    BY <1>1, <2>1
  <2>. HIDE DEF p
  <2> QED BY <1>1, <2>2, <2>3, FunctionSeq, Zenon
<1>7. q \in Seq(Nat) /\ Len(q) = k /\ \A i \in 1 .. k : q[i] = e[omega + i]
  <2>1. \A i \in 1 .. k : q[i] = e[omega + i] /\ q[i] \in Nat
    BY <1>1, <1>3 DEF Ends
  <2>2. q \in [1 .. k -> Nat]
    BY <1>1, <2>1
  <2>. HIDE DEF q
  <2>3. k \in Nat
    BY <1>1
  <2> QED BY <2>1, <2>2, <2>3, FunctionSeq, Zenon
<1>. HIDE DEF p, q
<1>8. /\ p \o q \in Seq(Nat) /\ Len(p \o q) = omega + k
      /\ \A i \in 1 .. omega + k : (p \o q)[i] = IF i <= omega THEN p[i] ELSE q[i - omega]
  BY <1>6, <1>7, ConcatProperties
<1>9. \A i \in 1 .. omega + k : (p \o q)[i] = e[i]
  <2> TAKE i \in 1 .. omega + k
  <2>1. CASE i <= omega
    <3>1. i \in 1 .. omega
      BY <1>1, <2>1
    <3> QED BY <1>6, <1>8, <2>1, <3>1
  <2>2. CASE ~(i <= omega)
    <3>1. i - omega \in 1 .. k /\ omega + (i - omega) = i
      BY <1>1, <2>2
    <3>2. q[i - omega] = e[omega + (i - omega)]
      BY <1>7, <3>1, Zenon
    <3> QED BY <1>8, <2>2, <3>1, <3>2
  <2> QED BY <2>1, <2>2
<1>10. p \o q = e
  BY <1>1, <1>8, <1>9, SeqEqual
<1> QED BY <1>2, <1>10 DEF h

\* What a decoded signature holds.
Decoded == mldsa.stage = "decoded" => mldsa.from \in MlDsaHints /\ mldsa.hints = HintDecode(mldsa.from)

LEMMA DecodedStep == Decoded /\ [MlDsaNext]_mldsa => Decoded'
<1> SUFFICES ASSUME Decoded, [MlDsaNext]_mldsa PROVE Decoded'
  OBVIOUS
<1>1. ASSUME MlDsaKeygen PROVE Decoded'
  <2>1. mldsa'.stage = "loop"
    BY <1>1 DEF MlDsaKeygen
  <2> QED BY <2>1 DEF Decoded
<1>2. ASSUME MlDsaReject PROVE Decoded'
  <2>1. mldsa.stage = "loop"
    BY <1>2 DEF MlDsaReject
  <2>2. PICK kappa, nonces : mldsa' = [mldsa EXCEPT !.kappa = kappa, !.nonces = nonces]
    BY <1>2 DEF MlDsaReject
  <2>3. mldsa'.stage # "decoded"
    BY <2>1, <2>2
  <2> QED BY <2>3 DEF Decoded
<1>3. ASSUME MlDsaReturn PROVE Decoded'
  <2>1. mldsa'.stage = "done"
    BY <1>3 DEF MlDsaReturn
  <2> QED BY <2>1 DEF Decoded
<1>4. ASSUME MlDsaDecode PROVE Decoded'
  <2>1. PICK e \in MlDsaHints : mldsa' = [stage |-> "decoded", from |-> e, hints |-> HintDecode(e)]
    BY <1>4 DEF MlDsaDecode
  <2>2. mldsa'.from = e /\ mldsa'.hints = HintDecode(e)
    BY <2>1
  <2> QED BY <2>2 DEF Decoded
<1>5. ASSUME UNCHANGED mldsa PROVE Decoded'
  BY <1>5 DEF Decoded
<1> QED BY <1>1, <1>2, <1>3, <1>4, <1>5 DEF MlDsaNext

\* What the hints of a signature are decoded to has no other encoding that is taken: one with unordered or repeated
\* positions, with an end out of order or with octets behind the last position that are not zero is refused, for
\* every number of rows, hints and coefficients (mldsa.py:477-497).
THEOREM HintsCorrect == MlDsaSpec => []HintsUnique
<1>1. MlDsaInit => Decoded
  BY DEF MlDsaInit, Decoded
<1>2. Decoded => HintsUnique
  <2> SUFFICES ASSUME Decoded, mldsa.stage = "decoded", mldsa.hints # <<>> PROVE HintEncode(mldsa.hints) = mldsa.from
    BY DEF HintsUnique
  <2>1. PICK e \in MlDsaHints : mldsa.from = e /\ mldsa.hints = HintDecode(e)
    BY DEF Decoded
  <2>2. WellFormed(e)
    BY <2>1, Zenon DEF HintDecode
  <2>3. PICK omega, k : omega = MlDsaParams.omega /\ k = MlDsaParams.k
    OBVIOUS
  <2>4. /\ omega \in Nat /\ k \in Nat \ {0} /\ R.n \in Nat /\ e \in Seq(Nat) /\ Len(e) = omega + k
        /\ \A j \in 1 .. omega : e[j] < R.n
    BY <2>3, HintsAssumption DEF R
  <2>5. \A j \in 1 .. omega : e[j] \in Coeffs
    <3> TAKE j \in 1 .. omega
    <3>1. j \in 1 .. Len(e)
      BY <2>4
    <3>2. e[j] \in Nat
      BY <2>4, <3>1, ElementOfSeq
    <3> QED BY <2>4, <3>2 DEF Coeffs
  <2>6. Taken(e, omega, k)
    BY <2>2, <2>3, <2>4, <2>5, Zenon DEF Taken
  <2>7. HintEncode(HintDecode(e)) = e
    BY <2>6, HintCanonical
  <2> QED BY <2>1, <2>7
<1> QED BY DecodedStep, <1>1, <1>2, PTL DEF MlDsaSpec
=============================================================================
