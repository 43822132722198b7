---------------------------------- MODULE Kdf ----------------------------------
(***************************************************************************)
(* HKDF-Expand, PBKDF2 and the variable-length hash of Argon2 (kdf.py), of *)
(* which what matters is how outputs of any length are cut from blocks.    *)
(* An octet of output is a record of the block it is taken from and its    *)
(* place in it; hash functions are free constructors.                      *)
(***************************************************************************)
EXTENDS Integers, Sequences

Ceil(a, b) == (a + b - 1) \div b
Octets(block, n) == [i \in 1 .. n |-> [of |-> block, at |-> i]]

\* The octets of blocks 1 to n, of m octets each.
Blocks(Block(_), n, m) ==
  LET out[i \in 0 .. n] == IF i = 0 THEN <<>> ELSE out[i - 1] \o Octets(Block(i), m) IN out[n]

\* hkdf_expand: <<>> stands for ValueError.
HkdfExpand(hlen, length) ==
  LET T(i) == [counter |-> i]
  IN  IF length \notin 0 .. 255 * hlen THEN <<>>
      ELSE <<SubSeq(Blocks(T, Ceil(length, hlen), hlen), 1, length)>>

\* pbkdf2: block i is the sum of the values u that are computed one from the other.
Pbkdf2(hlen, iterations, dklen) ==
  LET T(i) == [block |-> i, sum |-> 1 .. iterations]
  IN  IF iterations < 1 \/ dklen < 1 THEN <<>>
      ELSE <<SubSeq(Blocks(T, Ceil(dklen, hlen), hlen), 1, dklen)>>

\* Mutant: one more half block.
HalvesOneMore(outlen) == Ceil(outlen, 32) - 1

\* r of _h_prime.
Halves(outlen) == Ceil(outlen, 32) - 2

\* _h_prime: the last block is a hash of the size that is left.
HPrime(outlen) ==
  LET V(i) == [v |-> i, size |-> 64]
      r == Halves(outlen)
  IN  IF outlen <= 64 THEN Octets([v |-> 1, size |-> outlen], outlen)
      ELSE Blocks(V, r, 32) \o Octets([v |-> r + 1, size |-> outlen - 32 * r], outlen - 32 * r)

-----------------------------------------------------------------------------

Distinct(s) == \A i, j \in 1 .. Len(s) : s[i] = s[j] => i = j

\* Outputs have the length that was asked for and use no octet of a hash twice; the counter of
\* HKDF fits its octet at the largest length (kdf.py:48), and the chain of the
\* variable-length hash ends in a piece of more than half a block and at most a
\* block (kdf.py:189), as RFC 9106 section 3.3 has it.
OutputsFit(hlen, length) ==
  LET k == HkdfExpand(hlen, length)
      p == Pbkdf2(hlen, 2, length)
      h == HPrime(length)
  IN  /\ k # <<>> => /\ Len(k[1]) = length /\ Distinct(k[1])
                     /\ \A i \in 1 .. length : k[1][i].of.counter \in 0 .. 255
      /\ p # <<>> => Len(p[1]) = length /\ Distinct(p[1])
      /\ Len(h) = length /\ Distinct(h)
      /\ length > 64 => h[length].of.size \in 33 .. 64
=============================================================================
