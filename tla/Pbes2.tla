-------------------------------- MODULE Pbes2 ---------------------------------
(***************************************************************************)
(* Password-encrypted private keys (_pbes2.py): a pbes2_encrypt, and then  *)
(* a pbes2_decrypt of its result or of any other envelope, with the CBC    *)
(* loops and the PKCS#7 padding (aes.py) that they run.                    *)
(*                                                                         *)
(* An envelope is what pbes2_decrypt reads of an EncryptedPrivateKeyInfo;  *)
(* octets that do not decode, or to another shape, have another scheme.    *)
(* The block cipher and PBKDF2 are operators.                              *)
(***************************************************************************)
EXTENDS Integers, Sequences, SequencesExt

CONSTANTS
  Octet, XorOctet(_, _),
  BlockSize,                  \* octets in a block: 16
  EncryptBlock(_, _), DecryptBlock(_, _),   \* key, block
  Keys,                      \* what Pbkdf2 derives
  Pbkdf2(_, _, _, _, _),     \* password, salt, iterations, length, hash
  IsPrivateKeyInfo(_),       \* the shape check of a plaintext
  Passwords,
  Salts, IVs,                \* what os.urandom may yield
  Infos,                     \* what callers encrypt, not always a PrivateKeyInfo
  MaxIterations,             \* the ceiling: 10^7
  Iterations,                \* the counts that callers ask for
  Envelopes                  \* other envelopes that callers decrypt

EncryptPrfs == {"sha256", "sha384", "sha512"}
Prfs == EncryptPrfs \cup {"sha1", "sha224"}
CipherKeyLen == [aes128 |-> 16, aes192 |-> 24, aes256 |-> 32]
KeyLen == 32

ASSUME BlockSizeAssumption == BlockSize \in 1 .. 255 /\ 1 .. BlockSize \subseteq Octet
ASSUME XorAssumption == \A a, b \in Octet : XorOctet(a, b) \in Octet /\ XorOctet(XorOctet(a, b), b) = a

Blocks == [1 .. BlockSize -> Octet]

\* A key makes a permutation of the blocks.
ASSUME CipherAssumption ==
  \A k \in Keys, b \in Blocks :
    /\ EncryptBlock(k, b) \in Blocks /\ DecryptBlock(k, EncryptBlock(k, b)) = b
    /\ DecryptBlock(k, b) \in Blocks /\ EncryptBlock(k, DecryptBlock(k, b)) = b

ASSUME InputAssumption ==
  /\ IVs \subseteq Blocks /\ Infos \subseteq Seq(Octet)
  /\ \A e \in Envelopes : e.scheme = "pbes2" =>
       /\ e.iv \in Seq(Octet) /\ e.ct \in Seq(Octet)
       /\ e.extras \in Seq({e.extras[i] : i \in DOMAIN e.extras})

ASSUME KeyAssumption ==
  \A salt \in Salts \cup {e.salt : e \in {x \in Envelopes : x.scheme = "pbes2"}},
    p \in Passwords, n \in 1 .. MaxIterations, h \in Prfs, c \in DOMAIN CipherKeyLen :
      Pbkdf2(p, salt, n, CipherKeyLen[c], h) \in Keys

VARIABLES
  call,     \* the call and its arguments
  stage,    \* where the call is: "idle" before and after it
  key, prev, data, out,   \* the loop of CBC: data are the octets still to come
  outcome,  \* of the last call: "returned" or the exception
  sealed    \* the call of the encryption that returned, with its envelope

pbes2Vars == <<call, stage, key, prev, data, out, outcome, sealed>>

NoCall == [op |-> "none"]

-----------------------------------------------------------------------------
(* PKCS#7.                                                                   *)

\* Mutant: no padding for data that fill their blocks.
PadPartial(s) ==
  LET n == (-Len(s)) % BlockSize IN s \o [i \in 1 .. n |-> n]

Pad(s) ==
  LET n == BlockSize - (Len(s) % BlockSize) IN s \o [i \in 1 .. n |-> n]

\* Mutant: the octets of the padding are not compared.
PaddingOKLength(s) == Last(s) \in 1 .. BlockSize

\* The scan of pkcs7_unpad over the last block.
PaddingOK(s) ==
  /\ Last(s) \in 1 .. BlockSize
  /\ \A i \in 0 .. BlockSize - 1 :
       i >= BlockSize - Last(s) => s[Len(s) - BlockSize + i + 1] = Last(s)

Unpadded(s) == SubSeq(s, 1, Len(s) - Last(s))

-----------------------------------------------------------------------------
(* The parameters of an envelope e: the octet strings e.salt, e.iv and e.ct,  *)
(* the names e.scheme, e.kdf and e.cipher of its OIDs, the integer            *)
(* e.iterations, and e.extras, the elements that may follow it: a key length, *)
(* a PRF (an unknown one, or a malformed element, has a name outside Prfs) or *)
(* something else.                                                            *)

Integer(x) == x.kind = "integer"
Prf(x) == x.kind = "prf"

\* One step of the loop over the extras; keylen is empty until one is read.
ReadExtra(read, x) ==
  CASE Integer(x) -> [read EXCEPT !.keylen = {x.value}]
    [] Prf(x)     -> [read EXCEPT !.hash = x.name]
    [] OTHER      -> read

\* What the loop reads: the last one of a kind wins.
ReadExtras(e) ==
  LET read[n \in 0 .. Len(e.extras)] ==
        IF n = 0 THEN [keylen |-> {}, hash |-> "sha1"]
        ELSE ReadExtra(read[n - 1], e.extras[n])
  IN  read[Len(e.extras)]

HashName(e) == ReadExtras(e).hash

\* _parse_kdf
KdfOK(e) ==
  /\ e.kdf = "pbkdf2" /\ Len(e.extras) <= 2
  /\ e.iterations \in 1 .. MaxIterations
  /\ \A i \in 1 .. Len(e.extras) :
       Integer(e.extras[i]) \/ (Prf(e.extras[i]) /\ e.extras[i].name \in Prfs)

\* _parse_cipher
CipherOK(e) == e.cipher \in DOMAIN CipherKeyLen /\ Len(e.iv) = BlockSize

KeySize(e) == CipherKeyLen[e.cipher]

\* What pbes2_decrypt checks before it derives a key.
EnvelopeOK(e) ==
  /\ e.scheme = "pbes2" /\ KdfOK(e) /\ CipherOK(e)
  /\ \A n \in ReadExtras(e).keylen : n = KeySize(e)
  /\ Len(e.ct) > 0 /\ Len(e.ct) % BlockSize = 0

-----------------------------------------------------------------------------
(* The calls.                                                                *)

Pbes2Init ==
  /\ call = NoCall /\ stage = "idle" /\ outcome = "none" /\ sealed = NoCall
  /\ key = <<>> /\ prev = <<>> /\ data = <<>> /\ out = <<>>

Call(a) ==
  /\ stage' = "check" /\ call' = a /\ outcome' = "none"
  /\ key' = <<>> /\ prev' = <<>> /\ data' = <<>> /\ out' = <<>>
  /\ UNCHANGED sealed

CallEncrypt ==
  /\ call = NoCall
  /\ \E m \in Infos, p \in Passwords, i \in Iterations, h \in Prfs :
       Call([op |-> "encrypt", info |-> m, password |-> p, iterations |-> i, hash |-> h])

\* Of the envelope that was sealed, or, when there was no call before it, of another.
CallDecrypt ==
  /\ stage = "idle" /\ call.op # "decrypt"
  /\ \E p \in Passwords,
        e \in IF sealed # NoCall THEN {sealed.envelope}
              ELSE IF call = NoCall THEN Envelopes ELSE {} :
       Call([op |-> "decrypt", password |-> p, envelope |-> e])

Fail(exception) ==
  /\ outcome' = exception /\ stage' = "idle"
  /\ UNCHANGED <<call, key, prev, data, out, sealed>>

EncryptOK == call.hash \in EncryptPrfs /\ call.iterations \in 1 .. MaxIterations

RejectEncrypt ==
  /\ stage = "check" /\ call.op = "encrypt" /\ ~EncryptOK
  /\ Fail(IF call.hash \notin EncryptPrfs THEN "UnsupportedAlgorithm" ELSE "ValueError")

\* pbes2_decrypt turns what is raised under it into one exception.
RejectDecrypt == Fail("InvalidKey")

RejectEnvelope ==
  /\ stage = "check" /\ call.op = "decrypt" /\ ~EnvelopeOK(call.envelope)
  /\ RejectDecrypt

\* From the arguments to the loop of CBC.
Begin(k, iv, octets) ==
  /\ stage' = "cbc" /\ key' = k /\ prev' = iv /\ data' = octets
  /\ UNCHANGED <<out, outcome>>

EncryptEnvelope(salt, iv) ==
  [scheme |-> "pbes2", kdf |-> "pbkdf2", salt |-> salt, iterations |-> call.iterations,
   extras |-> <<[kind |-> "integer", value |-> KeyLen], [kind |-> "prf", name |-> call.hash]>>,
   cipher |-> "aes256", iv |-> iv, ct |-> <<>>]

BeginEncrypt ==
  /\ stage = "check" /\ call.op = "encrypt" /\ EncryptOK
  /\ \E salt \in Salts, iv \in IVs :
       /\ Begin(Pbkdf2(call.password, salt, call.iterations, KeyLen, call.hash),
                iv, Pad(call.info))
       /\ sealed' = [info |-> call.info, password |-> call.password,
                     envelope |-> EncryptEnvelope(salt, iv)]
  /\ UNCHANGED call

\* Mutant: the key is derived with the PRF of the encryption, whatever the envelope says.
DecryptKeySha256(e) ==
  Pbkdf2(call.password, e.salt, e.iterations, KeySize(e), "sha256")

DecryptKey(e) ==
  Pbkdf2(call.password, e.salt, e.iterations, KeySize(e), HashName(e))

BeginDecrypt ==
  /\ stage = "check" /\ call.op = "decrypt" /\ EnvelopeOK(call.envelope)
  /\ Begin(DecryptKey(call.envelope), call.envelope.iv, call.envelope.ct)
  /\ UNCHANGED <<call, sealed>>

-----------------------------------------------------------------------------
(* The loops of cbc_encrypt and cbc_decrypt.                                 *)

XorBlock(a, b) == [i \in 1 .. BlockSize |-> XorOctet(a[i], b[i])]
NextBlock == SubSeq(data, 1, BlockSize)
Rest == SubSeq(data, BlockSize + 1, Len(data))

EncryptStep ==
  /\ stage = "cbc" /\ call.op = "encrypt" /\ data # <<>>
  /\ prev' = EncryptBlock(key, XorBlock(NextBlock, prev))
  /\ out' = out \o prev' /\ data' = Rest
  /\ UNCHANGED <<call, stage, key, outcome, sealed>>

\* Mutant: every block is chained with the IV.
ChainIv == prev

\* What a decryption chains the next block with.
Chain == NextBlock

DecryptStep ==
  /\ stage = "cbc" /\ call.op = "decrypt" /\ data # <<>>
  /\ out' = out \o XorBlock(DecryptBlock(key, NextBlock), prev)
  /\ prev' = Chain /\ data' = Rest
  /\ UNCHANGED <<call, stage, key, outcome, sealed>>

ReturnEnvelope ==
  /\ stage = "cbc" /\ call.op = "encrypt" /\ data = <<>>
  /\ stage' = "idle" /\ outcome' = "returned"
  /\ sealed' = [sealed EXCEPT !.envelope.ct = out]
  /\ UNCHANGED <<call, key, prev, data, out>>

RejectPadding ==
  /\ stage = "cbc" /\ call.op = "decrypt" /\ data = <<>> /\ ~PaddingOK(out)
  /\ RejectDecrypt

Unpad ==
  /\ stage = "cbc" /\ call.op = "decrypt" /\ data = <<>> /\ PaddingOK(out)
  /\ stage' = "unpadded" /\ out' = Unpadded(out)
  /\ UNCHANGED <<call, key, prev, data, outcome, sealed>>

RejectInfo ==
  /\ stage = "unpadded" /\ ~IsPrivateKeyInfo(out)
  /\ RejectDecrypt

ReturnInfo ==
  /\ stage = "unpadded" /\ IsPrivateKeyInfo(out)
  /\ stage' = "idle" /\ outcome' = "returned"
  /\ UNCHANGED <<call, key, prev, data, out, sealed>>

Step ==
  \/ RejectEncrypt \/ BeginEncrypt \/ EncryptStep \/ ReturnEnvelope
  \/ RejectEnvelope \/ BeginDecrypt \/ DecryptStep
  \/ RejectPadding \/ Unpad \/ RejectInfo \/ ReturnInfo

Pbes2Next == CallEncrypt \/ CallDecrypt \/ Step

Pbes2Spec == Pbes2Init /\ [][Pbes2Next]_pbes2Vars

-----------------------------------------------------------------------------
(* What password-encrypted private keys promise.                           *)

\* The encryption of a message under an envelope's parameters, block by block: block i is
\* the cipher of block i of the padded message on block i - 1 of the ciphertext.
IsEncryption(e, k, m) ==
  LET p == Pad(m)
      B(s, i) == SubSeq(s, (i - 1) * BlockSize + 1, i * BlockSize)
      C(i) == IF i = 0 THEN e.iv ELSE B(e.ct, i)
  IN  /\ Len(p) = Len(e.ct)
      /\ \A i \in 1 .. Len(p) \div BlockSize : C(i) = EncryptBlock(k, XorBlock(B(p, i), C(i - 1)))

\* The hash of an envelope: the PRF that no other follows, SHA-1 when there is none.
HashOf(e, h) ==
  \/ \E i \in 1 .. Len(e.extras) :
       /\ Prf(e.extras[i]) /\ e.extras[i].name = h
       /\ \A j \in i + 1 .. Len(e.extras) : ~Prf(e.extras[j])
  \/ h = "sha1" /\ \A i \in 1 .. Len(e.extras) : ~Prf(e.extras[i])

\* The message m is what an envelope holds under a password.
Holds(e, password, m) ==
  /\ IsPrivateKeyInfo(m)
  /\ \E h \in Prfs :
       /\ HashOf(e, h)
       /\ IsEncryption(e, Pbkdf2(password, e.salt, e.iterations, KeySize(e), h), m)

\* An envelope as RFC 8018 has it, with the algorithms of _pbes2.py: the key length, when it
\* is there, before the PRF.
Conforming(e) ==
  /\ e.scheme = "pbes2" /\ e.kdf = "pbkdf2" /\ e.cipher \in DOMAIN CipherKeyLen
  /\ e.iterations \in 1 .. MaxIterations /\ Len(e.iv) = BlockSize
  /\ LET len == <<[kind |-> "integer", value |-> KeySize(e)]>>
         prf == {<<[kind |-> "prf", name |-> h]>> : h \in Prfs}
     IN  e.extras \in {<<>>, len} \cup prf \cup {len \o p : p \in prf}

Decrypted == call.op = "decrypt" /\ stage = "idle"

\* A decryption returns only a PrivateKeyInfo whose encryption, padding included, is the
\* envelope: no other padding is taken for one (aes.py:231-235), no octet of a block is
\* lost or chained to the wrong one (aes.py:285-288).
ReturnsOnlyWhatIsHeld ==
  Decrypted /\ outcome = "returned" => Holds(call.envelope, call.password, out)

\* A decryption that fails raises InvalidKey, and a conforming envelope then holds nothing
\* under the password: what another encoder wrote is returned (_pbes2.py:8-10, 189-190).
FailsOnlyWhenNothingIsHeld ==
  Decrypted /\ outcome # "returned" =>
    /\ outcome = "InvalidKey"
    /\ Conforming(call.envelope) =>
         \A m \in Infos : ~Holds(call.envelope, call.password, m)

\* What pbes2_encrypt returns decrypts, under its password, to what was encrypted;
\* pbes2_encrypt takes octets that are no PrivateKeyInfo, and these never come back.
RoundTrip ==
  Decrypted /\ sealed # NoCall /\ call.password = sealed.password =>
    IF IsPrivateKeyInfo(sealed.info)
    THEN outcome = "returned" /\ out = sealed.info
    ELSE outcome = "InvalidKey"
=============================================================================
