-------------------------------- MODULE RsaPad --------------------------------
(***************************************************************************)
(* The paddings of RSA (rsa.py), PKCS#1 v1.5, OAEP and PSS, the schemes    *)
(* that are built from them and the key operations, and the key files.     *)
(* Octets have OctetBits bits and the padding string of v1.5 MinPad octets *)
(* at least, which are parameters; the hash is any function to one octet,  *)
(* Hash, and MGF1 repeats it with a counter.                               *)
(***************************************************************************)
EXTENDS Rsa, Octets

CONSTANTS
  MinPad,       \* 8 in the code
  Hash(_)       \* of a sequence of octets: one octet

HLen == 1
Zeros(n) == [i \in 1 .. n |-> 0]

Mgf1(seed, length) == [i \in 1 .. length |-> Hash(Append(seed, i - 1))]

\* The first place from begin on where an octet is, or 0.
FirstPlace(s, begin, Is(_)) ==
  LET P == {i \in begin .. Len(s) : Is(s[i])}
  IN  IF P = {} THEN 0 ELSE CHOOSE i \in P : \A j \in P : i <= j

After(s, i) == SubSeq(s, i + 1, Len(s))

-----------------------------------------------------------------------------
(* RSAES-PKCS1-v1_5.  A decoded message is <<M>>, a failure <<>>.            *)

\* encrypt_v15 before the exponentiation; ps is not zero anywhere.
V15Encode(ps, message) == <<0, 2>> \o ps \o <<0>> \o message

\* _split_v15_padding
V15Decode(em) ==
  LET sep == FirstPlace(em, 3, LAMBDA x : x = 0)
  IN  IF sep = 0 \/ sep - 3 < MinPad \/ Len(em) < MinPad + 3 \/ em[1] # 0 \/ em[2] # 2
      THEN <<>> ELSE <<After(em, sep)>>

-----------------------------------------------------------------------------
(* OAEP.                                                                     *)

\* _eme_oaep_encode
OaepEncode(message, k, label, seed) ==
  LET db == <<Hash(label)>> \o Zeros(k - Len(message) - 2 * HLen - 2) \o <<1>> \o message
      maskedDb == Xor(db, Mgf1(seed, k - HLen - 1))
  IN  <<0>> \o Xor(seed, Mgf1(maskedDb, HLen)) \o maskedDb

OaepSeed(em) == Xor(SubSeq(em, 2, 1 + HLen), Mgf1(After(em, 1 + HLen), HLen))

\* _eme_oaep_decode
OaepDecode(em, label) ==
  LET db == Xor(After(em, 1 + HLen), Mgf1(OaepSeed(em), Len(em) - HLen - 1))
      sep == FirstPlace(db, HLen + 1, LAMBDA x : x # 0)
  IN  IF em[1] # 0 \/ db[1] # Hash(label) \/ sep = 0 THEN <<>>
      ELSE IF db[sep] # 1 THEN <<>> ELSE <<After(db, sep)>>

-----------------------------------------------------------------------------
(* PSS.                                                                      *)

EmLen(emBits) == (emBits + OctetBits - 1) \div OctetBits
Unused(emBits) == OctetBits * EmLen(emBits) - emBits
Trailer == Base - 1

\* Without the bits of the first octet that the modulus does not leave room for.
Trim(s, unused) == <<s[1] % 2 ^ (OctetBits - unused)>> \o Tail(s)

PssHash(mHash, salt) == Hash(Zeros(OctetBits) \o mHash \o salt)

\* _emsa_pss_encode
PssEncode(mHash, emBits, salt) ==
  LET h == PssHash(mHash, salt)
      db == Zeros(EmLen(emBits) - Len(salt) - HLen - 2) \o <<1>> \o salt
  IN  Trim(Xor(db, Mgf1(<<h>>, EmLen(emBits) - HLen - 1)), Unused(emBits)) \o <<h, Trailer>>

\* Mutant: the mask is left on the unused bits.
PssDbUntrimmed(em, emBits) ==
  Xor(SubSeq(em, 1, Len(em) - HLen - 1), Mgf1(<<em[Len(em) - 1]>>, Len(em) - HLen - 1))

PssDb(em, emBits) ==
  Trim(Xor(SubSeq(em, 1, Len(em) - HLen - 1), Mgf1(<<em[Len(em) - 1]>>, Len(em) - HLen - 1)),
       Unused(emBits))

\* _emsa_pss_verify; saltLen is a set of the lengths that are taken, all of them for None.
PssVerify(em, mHash, saltLen, emBits) ==
  LET db == PssDb(em, emBits)
      sep == FirstPlace(db, 1, LAMBDA x : x # 0)
      salt == After(db, sep)
  IN  /\ Len(em) >= HLen + 2 /\ em[Len(em)] = Trailer
      /\ em[1] < 2 ^ (OctetBits - Unused(emBits))
      /\ sep # 0 /\ db[sep] = 1
      /\ Len(salt) \in saltLen /\ em[Len(em) - 1] = PssHash(mHash, salt)

-----------------------------------------------------------------------------
(* The schemes, for keys as in Rsa.  What an operation returns is <<x>>, and *)
(* <<>> when it raises; the digest of the message is an argument.            *)

KeyBytes(k) == (BitLength(k.n) + OctetBits - 1) \div OctetBits

\* _rsaep, and _rsadp with the blinding 2, which is prime to every modulus (RsaReleases is
\* about all of them and about faults).
Rsaep(k, octets) == Pow(Os2ip(octets), k.e, k.n)
Rsadp(k, octets) == PrivateOp(k, Os2ip(octets), 2, 0).m

\* _nonzero_random: what the loop may end with.
PaddingStrings(length) == [1 .. length -> 1 .. Base - 1]

EncryptV15(k, ps, message) ==
  IF Len(message) > KeyBytes(k) - MinPad - 3 THEN <<>>
  ELSE <<I2osp(Rsaep(k, V15Encode(ps, message)), KeyBytes(k))>>

InRange(k, ciphertext) == Len(ciphertext) = KeyBytes(k) /\ Os2ip(ciphertext) < k.n

DecryptV15(k, ciphertext) ==
  IF InRange(k, ciphertext) THEN V15Decode(I2osp(Rsadp(k, ciphertext), KeyBytes(k))) ELSE <<>>

EncryptOaep(k, message, label, seed) ==
  IF Len(message) > KeyBytes(k) - 2 * HLen - 2 THEN <<>>
  ELSE <<I2osp(Rsaep(k, OaepEncode(message, KeyBytes(k), label, seed)), KeyBytes(k))>>

DecryptOaep(k, ciphertext, label) ==
  IF InRange(k, ciphertext) /\ KeyBytes(k) >= 2 * HLen + 2
  THEN OaepDecode(I2osp(Rsadp(k, ciphertext), KeyBytes(k)), label) ELSE <<>>

\* _emsa_v15_encode of a DigestInfo.
EmsaV15(info, length) ==
  IF length < Len(info) + MinPad + 3 THEN <<>>
  ELSE <<<<0, 1>> \o [i \in 1 .. length - Len(info) - 3 |-> Base - 1] \o <<0>> \o info>>

SignV15(k, info) ==
  LET em == EmsaV15(info, KeyBytes(k))
  IN  IF em = <<>> THEN <<>> ELSE <<I2osp(Rsadp(k, em[1]), KeyBytes(k))>>

VerifyV15(k, signature, info) ==
  /\ Len(signature) = KeyBytes(k)
  /\ <<I2osp(Rsaep(k, signature), KeyBytes(k))>> = EmsaV15(info, KeyBytes(k))

EmBits(k) == BitLength(k.n) - 1

SignPss(k, mHash, salt) ==
  IF EmLen(EmBits(k)) < HLen + Len(salt) + 2 THEN <<>>
  ELSE <<I2osp(Rsadp(k, PssEncode(mHash, EmBits(k), salt)), KeyBytes(k))>>

VerifyPss(k, signature, mHash, saltLen) ==
  /\ Len(signature) = KeyBytes(k) /\ EmLen(EmBits(k)) >= HLen + 2
  /\ Rsaep(k, signature) < 2 ^ EmBits(k)
  /\ PssVerify(I2osp(Rsaep(k, signature), EmLen(EmBits(k))), mHash, saltLen, EmBits(k))

-----------------------------------------------------------------------------
(* Key files: a SEQUENCE is the sequence of its children, which is what the  *)
(* readers tell the containers apart by, and a PEM block a label with one.   *)

RsaAlgorithm == [tag |-> "SEQUENCE", oid |-> "rsaEncryption", params |-> "NULL"]
ToPkcs1(k) == <<0, k.n, k.e, k.d, k.p, k.q, k.dmp1, k.dmq1, k.iqmp>>
PrivateKeyInfo(k) == <<0, RsaAlgorithm, ToPkcs1(k)>>

\* pbes2_encrypt, which returns what it holds to its own password only (the PBES2 component).
Encrypted(der, password) == <<[tag |-> "SEQUENCE", oid |-> "pbes2", password |-> password], der>>

\* RSAPrivateKey.to_pkcs8_der, with a password or "" for None, and its PEM block.
RsaPkcs8(k, password) ==
  IF password = "" THEN PrivateKeyInfo(k) ELSE Encrypted(PrivateKeyInfo(k), password)
RsaPkcs8Pem(k, password) ==
  [label |-> IF password = "" THEN "PRIVATE KEY" ELSE "ENCRYPTED PRIVATE KEY", der |-> RsaPkcs8(k, password)]

\* _from_pkcs1_children, with the checks of the constructor: the key, or <<>>.
FromPkcs1(kids) ==
  LET k == [n |-> kids[2], e |-> kids[3], d |-> kids[4], p |-> kids[5], q |-> kids[6],
            dmp1 |-> kids[7], dmq1 |-> kids[8], iqmp |-> kids[9]]
  IN  IF kids[1] # 0 \/ CheckPrivate(k) # "" THEN <<>> ELSE <<k>>

\* _from_pkcs8_children
FromPkcs8(kids) ==
  IF /\ Len(kids) = 3 /\ kids[1] = 0 /\ kids[2].oid = "rsaEncryption"
     /\ kids[2].params \in {"absent", "NULL"} /\ Len(kids[3]) = 9
  THEN FromPkcs1(kids[3]) ELSE <<>>

\* RSAPrivateKey.from_der of an outermost SEQUENCE, and of one that has been decrypted, for
\* which there is no password.
FromDer(kids) ==
  CASE Len(kids) = 9 -> FromPkcs1(kids)
    [] Len(kids) = 2 -> <<>>
    [] OTHER         -> FromPkcs8(kids)
Decrypted(kids, password) ==
  IF Len(kids) = 2 /\ password # "" /\ kids[1].password = password THEN FromDer(kids[2]) ELSE <<>>
RsaFromDer(kids, password) == IF Len(kids) = 2 THEN Decrypted(kids, password) ELSE FromDer(kids)

\* RSAPrivateKey.from_pem: of a block in the clear the password is ignored.
RsaFromPem(pem, password) ==
  CASE pem.label = "ENCRYPTED PRIVATE KEY"              -> Decrypted(pem.der, password)
    [] pem.label \in {"RSA PRIVATE KEY", "PRIVATE KEY"} -> FromDer(pem.der)
    [] OTHER                                            -> <<>>

\* The public key's two files, and RSAPublicKey.from_der and from_pem.
PublicPkcs1(k) == <<[tag |-> "INTEGER", value |-> k.n], [tag |-> "INTEGER", value |-> k.e]>>
Spki(k) == <<RsaAlgorithm, PublicPkcs1(k)>>
FromPublicPkcs1(kids) ==
  LET k == [n |-> kids[1].value, e |-> kids[2].value]
  IN  IF Len(kids) = 2 /\ PublicOk(k) THEN <<k>> ELSE <<>>
PublicFromDer(kids) ==
  IF Len(kids) # 2 THEN <<>>
  ELSE IF kids[1].tag = "INTEGER" THEN FromPublicPkcs1(kids)
  ELSE IF kids[1].oid = "rsaEncryption" THEN FromPublicPkcs1(kids[2]) ELSE <<>>
PublicFromPem(pem) ==
  CASE pem.label = "RSA PUBLIC KEY" -> FromPublicPkcs1(pem.der)
    [] pem.label = "PUBLIC KEY"     -> PublicFromDer(pem.der)
    [] OTHER                        -> <<>>

-----------------------------------------------------------------------------

Messages(n) == UNION {[1 .. k -> 0 .. Base - 1] : k \in 0 .. n}

\* A v1.5 block is taken exactly if it is an encoding with a padding string that is long
\* enough, and the message comes back (rsa.py:754-763).
V15Exact(em) ==
  LET E == {i \in MinPad + 3 .. Len(em) : \A j \in 3 .. i - 1 : em[j] # 0 /\ em[i] = 0}
  IN  IF E = {} \/ \A i \in E : em # V15Encode(SubSeq(em, 3, i - 1), After(em, i))
      THEN V15Decode(em) = <<>>
      ELSE \A i \in E : V15Decode(em) = <<After(em, i)>>

\* An OAEP block is taken exactly if it is the encoding of a message with the label, and
\* that message comes back (rsa.py:778-794).
OaepExact(em, label) ==
  LET M == {m \in Messages(Len(em) - 2 * HLen - 2) :
              em = OaepEncode(m, Len(em), label, OaepSeed(em))}
  IN  IF M = {} THEN OaepDecode(em, label) = <<>> ELSE {OaepDecode(em, label)} = {<<m>> : m \in M}

\* A PSS block is a number of emBits bits and verifies, for its own length of the salt or
\* any, and for no other (rsa.py:701-751).
PssExact(mHash, emBits, salt) ==
  LET em == PssEncode(mHash, emBits, salt)
      lengths == 0 .. EmLen(emBits)
  IN  /\ em[1] < 2 ^ (OctetBits - Unused(emBits))
      /\ PssVerify(em, mHash, lengths, emBits)
      /\ PssVerify(em, mHash, {Len(salt)}, emBits)
      /\ ~PssVerify(em, mHash, lengths \ {Len(salt)}, emBits)

\* What has been encrypted is decrypted, by the same key with the same label
\* (rsa.py:311-333, 515-555).
CiphertextsDecrypt(k, message, ps, label, seed) ==
  /\ \A c \in {EncryptV15(k, ps, message)} : c # <<>> => DecryptV15(k, c[1]) = <<message>>
  /\ \A c \in {EncryptOaep(k, message, label, seed)} :
       c # <<>> => DecryptOaep(k, c[1], label) = <<message>>

\* A signature verifies for its digest, also in the one octet more that a modulus of 8k + 1 bits
\* has; a PSS signature does so for its own length of the salt or any, and for no other
\* (rsa.py:265-309, 490-513).
SignaturesVerify(k, mHash, salt) ==
  LET lengths == 0 .. EmLen(EmBits(k))
  IN  /\ \A c \in {SignV15(k, mHash)} : c # <<>> => VerifyV15(k, c[1], mHash)
      /\ \A c \in {SignPss(k, mHash, salt)} : c # <<>> =>
           /\ VerifyPss(k, c[1], mHash, lengths) /\ VerifyPss(k, c[1], mHash, {Len(salt)})
           /\ ~VerifyPss(k, c[1], mHash, lengths \ {Len(salt)})

\* "RSA per RFC 8017" (rsa.py:2), where a signature is the octets of a number below the modulus
\* (RSAVP1, 5.2.2): octets of a larger one verify for no digest.
RepresentativesBelow(k, s, mHash) ==
  Os2ip(s) >= k.n => ~VerifyV15(k, s, mHash) /\ ~VerifyPss(k, s, mHash, 0 .. Len(s))

\* Octets that are taken have been made: a ciphertext is an encryption of what it decrypts to,
\* and a signature is, modulo n, the signature of the digest for some salt.
SchemesTakeOnlyMade(k, s, label, mHash) ==
  LET Octets(n) == [1 .. n -> 0 .. Base - 1]
      Same(t) == \A c \in {t} : c # <<>> /\ Os2ip(s) % k.n = Os2ip(c[1])
  IN  /\ \A m \in {DecryptV15(k, s)} : m # <<>> =>
           \E ps \in PaddingStrings(Len(s) - Len(m[1]) - 3) : EncryptV15(k, ps, m[1]) = <<s>>
      /\ \A m \in {DecryptOaep(k, s, label)} : m # <<>> =>
           \E seed \in Octets(HLen) : EncryptOaep(k, m[1], label, seed) = <<s>>
      /\ VerifyV15(k, s, mHash) => Same(SignV15(k, mHash))
      /\ \A n \in 0 .. Len(s) : VerifyPss(k, s, mHash, {n}) =>
           \E salt \in Octets(n) : Same(SignPss(k, mHash, salt))

\* A key comes back from each of its files and blocks, from an encrypted one with the password
\* only; what is encrypted twice, or what stands in the clear under the label of what is
\* encrypted or the reverse, is refused, and so is a private key as a public one
\* (rsa.py:352-387, 623-692).
RsaLoadsOwn(k) ==
  LET own == <<k>>
      public == <<[n |-> k.n, e |-> k.e]>>
      secret == RsaPkcs8(k, "secret")
  IN  /\ \A password \in {"", "secret"} :
           /\ RsaFromDer(ToPkcs1(k), password) = own
           /\ RsaFromDer(RsaPkcs8(k, password), "secret") = own
           /\ RsaFromPem(RsaPkcs8Pem(k, password), "secret") = own
           /\ RsaFromPem([label |-> "RSA PRIVATE KEY", der |-> ToPkcs1(k)], password) = own
      /\ \A password \in {"", "other"} :
           RsaFromDer(secret, password) = <<>> /\ RsaFromPem(RsaPkcs8Pem(k, "secret"), password) = <<>>
      /\ RsaFromDer(Encrypted(secret, "secret"), "secret") = <<>>
      /\ \A der \in {ToPkcs1(k), PrivateKeyInfo(k)} :
           RsaFromPem([label |-> "ENCRYPTED PRIVATE KEY", der |-> der], "secret") = <<>>
      /\ RsaFromPem([label |-> "PRIVATE KEY", der |-> secret], "secret") = <<>>
      /\ PublicFromDer(PublicPkcs1(k)) = public /\ PublicFromDer(Spki(k)) = public
      /\ PublicFromPem([label |-> "RSA PUBLIC KEY", der |-> PublicPkcs1(k)]) = public
      /\ PublicFromPem([label |-> "PUBLIC KEY", der |-> Spki(k)]) = public
      /\ \A der \in {ToPkcs1(k), PrivateKeyInfo(k), secret} : PublicFromDer(der) = <<>>
=============================================================================
