------------------------------- MODULE MCPbes2 --------------------------------
(* Octets of two bits, blocks of three octets.  A PrivateKeyInfo begins with  *)
(* the number of octets that follow: it has one to four octets, and fills a   *)
(* block at three.  Every ciphertext of up to two blocks is decrypted under   *)
(* one set of parameters, and one ciphertext under every set of them.         *)
EXTENDS Pbes2

MCOctet == 0 .. 3

MCXorOctet(a, b) == (((a \div 2) + (b \div 2)) % 2) * 2 + ((a + b) % 2)

MCIVs == {<<0, 1, 2>>, <<3, 0, 3>>}

\* A key is a number; the block is turned and shifted by it.
MCEncryptBlock(k, b) == [i \in 1 .. 3 |-> (b[(i % 3) + 1] + k + i) % 4]
MCDecryptBlock(k, b) == [i \in 1 .. 3 |-> (b[((i + 1) % 3) + 1] - k - (((i + 1) % 3) + 1)) % 4]

HashNumber == [sha1 |-> 0, sha224 |-> 1, sha256 |-> 2, sha384 |-> 3, sha512 |-> 0]

MCPbkdf2(p, salt, n, len, h) == (p + salt + n + (len \div 8) + HashNumber[h]) % 4

MCIsPrivateKeyInfo(s) == s # <<>> /\ s[1] = Len(s) - 1

\* Every PrivateKeyInfo, and octets that are none.
MCInfos ==
  {<<0>>} \cup {<<1, a>> : a \in MCOctet} \cup {<<2, a, b>> : a, b \in MCOctet}
    \cup {<<3, a, b, c>> : a, b, c \in MCOctet} \cup {<<>>, <<3, 3>>, <<3, 3, 3>>}

LenOf(n) == [kind |-> "integer", value |-> n]
PrfOf(h) == [kind |-> "prf", name |-> h]

Plain == [scheme |-> "pbes2", kdf |-> "pbkdf2", salt |-> 0, iterations |-> 1, extras |-> <<>>,
          cipher |-> "aes256", iv |-> <<0, 1, 2>>, ct |-> <<>>]

Ciphertexts == UNION {[1 .. n -> MCOctet] : n \in {0, 1, 3, 4, 6}}

Extras ==
  LET X == {LenOf(16), LenOf(32), PrfOf("sha224"), PrfOf("sha512"), PrfOf("unknown"),
            [kind |-> "other"]}
  IN  {<<>>} \cup {<<x>> : x \in X} \cup {<<x, y>> : x, y \in X}
        \cup {<<LenOf(32), PrfOf("sha512"), PrfOf("sha224")>>}

\* The ciphertext is the encryption of <<1, 1>> under key 1 and the IV of Plain.
Parameters ==
  {[Plain EXCEPT !.ct = MCEncryptBlock(1, [i \in 1 .. 3 |-> MCXorOctet(<<1, 1, 1>>[i], i - 1)]),
                 !.scheme = s, !.kdf = k, !.iterations = n, !.extras = x, !.cipher = c,
                 !.iv = v] :
     s \in {"pbes2", "other"}, k \in {"pbkdf2", "other"}, n \in 0 .. 3, x \in Extras,
     c \in {"aes128", "aes256", "other"}, v \in {<<0, 1, 2>>, <<0, 1>>}}

MCEnvelopes ==
  {[scheme |-> "not an envelope"]} \cup {[Plain EXCEPT !.ct = s] : s \in Ciphertexts} \cup Parameters
=============================================================================
