---------------------------------- MODULE Xof ----------------------------------
(***************************************************************************)
(* The samplers of ML-DSA and ML-KEM: each reads a SHAKE stream through a  *)
(* reader that asks for a longer prefix whenever it runs out, and drops    *)
(* what does not fit.  The numbers are those of the code; the stream, the  *)
(* step by which the prefix grows and the number of coefficients are       *)
(* parameters.                                                             *)
(***************************************************************************)
EXTENDS ModArith, FiniteSets

CONSTANTS
  XofStreams,   \* sequences of octets: a stream to the end that a run looks at
  XofSamplers,  \* records of a sampler and its parameter
  XofStep,      \* octets by which the prefix grows: 840 in mldsa.py, 512 in mlkem.py
  SampleSize    \* coefficients of a polynomial

ASSUME XofAssumption ==
  /\ \A stream \in XofStreams : stream \in Seq(0 .. 255)
  /\ \A s \in XofSamplers :
       /\ s.by \in {"rej_ntt_poly", "sample_ntt", "rej_bounded_poly", "sample_in_ball"}
       /\ s.by = "rej_bounded_poly" => s.param \in {2, 4}
       /\ s.by = "sample_in_ball" => s.param \in 1 .. 64 /\ s.param <= SampleSize
  /\ XofStep \in Nat \ {0} /\ SampleSize \in Nat \ {0}

VARIABLE xof

QDsa == 8380417
QKem == 3329

\* The call of a sampler: stream and by are its arguments, the rest are its variables.
Sampling(stage, stream, by, param, buf, off, coeffs, signs) ==
  [stage |-> stage, stream |-> stream, by |-> by, param |-> param,
   buf |-> buf, off |-> off, coeffs |-> coeffs, signs |-> signs]

\* The call goes on.
Continues(stage, buf, off, coeffs, signs) ==
  xof' = Sampling(stage, xof.stream, xof.by, xof.param, buf, off, coeffs, signs)

XofInit == xof = [stage |-> "idle"]

XofOpen ==
  /\ xof.stage = "idle"
  /\ \E stream \in XofStreams, s \in XofSamplers :
       xof' = Sampling("read", stream, s.by, s.param, <<>>, 0, <<>>, <<>>)

\* Octets of the next read: a challenge starts with the eight octets of its signs.
Wanted ==
  CASE xof.by \in {"rej_ntt_poly", "sample_ntt"}       -> 3
    [] xof.by = "rej_bounded_poly"                     -> 1
    [] xof.by = "sample_in_ball" /\ xof.signs # <<>>   -> 1
    [] xof.by = "sample_in_ball" /\ xof.signs = <<>>   -> 8

\* Mutant: the prefix that is asked for is appended to the one before.
GrownByAppending(stream, buf) == buf \o SubSeq(stream, 1, XofStep)

\* A digest of the length of the buffer and a step.
Grown(stream, buf) == SubSeq(stream, 1, Len(buf) + XofStep)

XofGrow ==
  /\ xof.stage = "read" /\ Len(xof.buf) - xof.off < Wanted
  /\ Len(xof.buf) + XofStep <= Len(xof.stream)
  /\ Continues("read", Grown(xof.stream, xof.buf), xof.off, xof.coeffs, xof.signs)

\* What is read next; its octets are numbered from 0.
Octet(i) == xof.buf[xof.off + i + 1]

\* The reads that are complete; coeffs are the coefficients afterwards.
Take(coeffs) ==
  Continues(IF Len(coeffs) >= SampleSize THEN "done" ELSE "read",
            xof.buf, xof.off + Wanted, coeffs, xof.signs)

Ready(by) == xof.stage = "read" /\ xof.by = by /\ Len(xof.buf) - xof.off >= Wanted

\* s with the candidate, if that is in range and s not complete.
Push(s, cand, bound) == IF cand < bound /\ Len(s) < SampleSize THEN Append(s, cand) ELSE s

\* Three octets as a number, the lowest first.
Joined(a, b, c) == a + 256 * b + 65536 * c

\* _rej_ntt_poly: 23 bits of three octets.
RejNttPoly ==
  /\ Ready("rej_ntt_poly")
  /\ LET t == Joined(Octet(0), Octet(1), Octet(2) % 128)
     IN  Take(Push(xof.coeffs, t, QDsa))

\* _sample_ntt: three octets are two numbers of 12 bits.
SampleNtt ==
  /\ Ready("sample_ntt")
  /\ LET d1 == Octet(0) + 256 * (Octet(1) % 16)
         d2 == Octet(1) \div 16 + 16 * Octet(2)
     IN  Take(Push(Push(xof.coeffs, d1, QKem), d2, QKem))

\* _rej_bounded_poly: the half octets, the low one first; param is eta.
RejBoundedPoly ==
  /\ Ready("rej_bounded_poly")
  /\ LET bound == IF xof.param = 2 THEN 15 ELSE 9
     IN  Take(Push(Push(xof.coeffs, Octet(0) % 16, bound), Octet(0) \div 16, bound))

\* The coefficient of a candidate of _rej_bounded_poly.
Centered(cand, eta) == IF eta = 2 THEN 2 - (cand - ((205 * cand) \div 1024) * 5) ELSE 4 - cand

\* _sample_in_ball: 64 bits of sign, the lowest first; param is tau.
BallSigns ==
  /\ Ready("sample_in_ball") /\ xof.signs = <<>>
  /\ Continues("read", xof.buf, xof.off + Wanted, [i \in 1 .. SampleSize |-> 0],
               [b \in 1 .. 64 |-> Bit(Octet((b - 1) \div 8), (b - 1) % 8)])

\* Mutant: the coefficient that is overwritten is not kept.
BallPlacedOver(c, i, j, sign) == [c EXCEPT ![j + 1] = IF sign = 0 THEN 1 ELSE QDsa - 1]

\* c[i] = c[j]; c[j] = 1 or -1
BallPlaced(c, i, j, sign) ==
  [c EXCEPT ![i + 1] = c[j + 1], ![j + 1] = IF sign = 0 THEN 1 ELSE QDsa - 1]

Nonzero(c) == {i \in DOMAIN c : c[i] # 0}

\* One octet of the loop; position i is not filled by one above i.
BallStep ==
  /\ Ready("sample_in_ball") /\ xof.signs # <<>>
  /\ LET placed == 64 - Len(xof.signs)
         i == SampleSize - xof.param + placed
     IN  IF Octet(0) > i
         THEN Continues("read", xof.buf, xof.off + Wanted, xof.coeffs, xof.signs)
         ELSE Continues(IF placed + 1 = xof.param THEN "done" ELSE "read", xof.buf, xof.off + Wanted,
                        BallPlaced(xof.coeffs, i, Octet(0), xof.signs[1]), Tail(xof.signs))

XofNext == \/ XofOpen \/ XofGrow
           \/ RejNttPoly \/ SampleNtt \/ RejBoundedPoly \/ BallSigns \/ BallStep

XofSpec == XofInit /\ [][XofNext]_xof

-----------------------------------------------------------------------------

\* The lower and the upper part of a number in turn.
Triple(stream, k) == Joined(stream[3 * k - 2], stream[3 * k - 1], stream[3 * k])
Part(n, k, size)  == IF k % 2 = 1 THEN n % size ELSE n \div size

Range23 == 8388608
Range12 == 4096

\* The candidates of a whole stream for a sampler, in order.
Candidates(stream, by) ==
  LET triples == Len(stream) \div 3
  IN  CASE by = "rej_ntt_poly"     -> [k \in 1 .. triples |-> Triple(stream, k) % Range23]
        [] by = "sample_ntt"       -> [k \in 1 .. 2 * triples |-> Part(Triple(stream, (k + 1) \div 2), k, Range12)]
        [] by = "rej_bounded_poly" -> [k \in 1 .. 2 * Len(stream) |-> Part(stream[(k + 1) \div 2], k, 16)]

\* Those below the bound among the first n candidates.
Kept(cands, bound) ==
  LET kept[n \in 0 .. Len(cands)] ==
        IF n = 0 THEN <<>>
        ELSE IF cands[n] < bound THEN Append(kept[n - 1], cands[n]) ELSE kept[n - 1]
  IN  kept

Bound(by, param) == CASE by = "rej_ntt_poly" -> QDsa
                      [] by = "sample_ntt" -> QKem
                      [] by = "rej_bounded_poly" -> IF param = 2 THEN 15 ELSE 9

\* What a rejection sampler returns are the first candidates of the stream that are below
\* the bound, none lost or repeated where the prefix grows inside a read (mlkem.py:112-117),
\* and a coefficient from half an octet is the centred remainder that FIPS 204 defines.  A
\* challenge has as many nonzero coefficients as it should, each of them 1 or -1.
SamplesTheStream ==
  xof.stage = "done" =>
    IF xof.by = "sample_in_ball"
    THEN /\ Cardinality(Nonzero(xof.coeffs)) = xof.param
         /\ \A i \in Nonzero(xof.coeffs) : xof.coeffs[i] \in {1, QDsa - 1}
    ELSE LET cands  == Candidates(xof.stream, xof.by)
             usable == Kept(cands, Bound(xof.by, xof.param))[Len(cands)]
         IN  /\ xof.coeffs = SubSeq(usable, 1, SampleSize)
             /\ xof.by = "rej_bounded_poly" => \A i \in 1 .. SampleSize :
                  Centered(xof.coeffs[i], xof.param)
                    = xof.param - (xof.coeffs[i] % (2 * xof.param + 1))
=============================================================================
