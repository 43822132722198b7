--------------------------------- MODULE Aead ---------------------------------
(***************************************************************************)
(* The authenticated ciphers, AES-GCM (aes.py), ChaCha20-Poly1305 and      *)
(* XChaCha20-Poly1305 (chacha.py), and the bare streams under them,        *)
(* ctr_encrypt and chacha20_xor.  Calls are made one after the other with  *)
(* arguments the caller chooses; a decryption may get any nonce,           *)
(* associated data and ciphertext, and the tag of any encryption, cut to   *)
(* any length.                                                             *)
(*                                                                         *)
(* The block functions are the operator KeyStream of a block: a key, the   *)
(* fixed part of the counter block and the counter.  An authenticator is   *)
(* the term of its inputs: the hash, the block that keys or hides it, and  *)
(* the octets it runs over; two are equal when their inputs are.           *)
(***************************************************************************)
EXTENDS Integers, Sequences

CONSTANTS
  Byte, Zero, Xor(_, _),
  KeyStream(_, _),       \* an octet of the key stream: block, position in it
  Keys, BadKey,          \* keys of the right size, and one that is not
  Nonces, BadNonce,      \* nonces of the right size, and one that is not
  Nonces96,              \* the GCM nonces of 12 octets
  Ghash(_),              \* the counter block that GHASH makes of any other
  HChaCha(_, _),         \* the sub-key of a key and the first part of a nonce
  First(_), Second(_),   \* nonce[:16] and nonce[16:] of an XChaCha nonce
  BlockLen,              \* octets in a block of key stream, by scheme: 16 or 64
  CounterSize,           \* counters, by scheme: 2^32, and 2^128 for ctr
  MacLen,                \* octets in a block of the authenticator: 16
  MinTag, MaxTag,        \* octets in a tag: 4, 16
  Messages, Associated,  \* plaintexts and ciphertexts, associated data
  MaxCalls               \* bound: calls

AeadSchemes == {"gcm", "chacha", "xchacha"}
StreamSchemes == {"ctr", "chacha"}
Schemes == AeadSchemes \cup StreamSchemes

ASSUME ByteAssumption ==
  /\ Zero \in Byte
  /\ \A a, b \in Byte : Xor(a, b) \in Byte /\ Xor(Xor(a, b), b) = a
ASSUME SizeAssumption ==
  /\ MacLen \in Nat \ {0} /\ MinTag \in Nat /\ MaxTag \in Nat /\ MinTag <= MaxTag
  /\ BlockLen \in [Schemes -> Nat \ {0}] /\ CounterSize \in [Schemes -> Nat \ {0, 1}]
\* XChaCha20 is ChaCha20 under a sub-key.
ASSUME XChaChaAssumption ==
  BlockLen["xchacha"] = BlockLen["chacha"] /\ CounterSize["xchacha"] = CounterSize["chacha"]
ASSUME GhashAssumption == \A n \in Nonces : Ghash(n).counter \in 0 .. CounterSize["gcm"] - 1
ASSUME MessageAssumption == Messages \subseteq Seq(Byte) /\ Associated \subseteq Seq(Byte)
ASSUME BadAssumption == BadKey \notin Keys /\ BadNonce \notin Nonces

VARIABLES
  call,     \* the call and its arguments
  stage,    \* where the call is: "idle" before and after it
  pos, counter, out,   \* the loop over the data
  outcome,  \* of the last call: "returned" or the exception
  drawn,    \* the blocks of key stream it has used, in order
  calls,    \* how many calls there have been
  sent      \* every message encrypted so far, with its ciphertext and tag

vars == <<call, stage, pos, counter, out, outcome, drawn, calls, sent>>

-----------------------------------------------------------------------------
(* The blocks of a call.  The counter of ctr is the whole block: its nonce    *)
(* says only that counter_block has the right size.                          *)

\* _gcm_j0
J0(n) == IF n \in Nonces96 THEN [fixed |-> n, counter |-> 1] ELSE Ghash(n)

Block(a, c) ==
  [key     |-> IF a.scheme = "xchacha" THEN HChaCha(a.key, First(a.nonce)) ELSE a.key,
   fixed   |-> CASE a.scheme = "gcm"     -> J0(a.nonce).fixed
                 [] a.scheme = "xchacha" -> Second(a.nonce)
                 [] OTHER                -> a.nonce,
   counter |-> c]

ASSUME StreamAssumption ==
  \A s \in Schemes, k \in Keys, n \in Nonces :
    \A c \in 0 .. CounterSize[s] - 1, i \in 1 .. BlockLen[s] :
      KeyStream(Block([scheme |-> s, key |-> k, nonce |-> n], c), i) \in Byte

\* Mutant: the counter does not wrap.
IncNoWrap(a, c) == c + 1

\* _inc32, the steps of _gctr and chacha20_xor, and that of _ctr_keystream: the fixed
\* part stays.
Inc(a, c) == (c + 1) % CounterSize[a.scheme]

\* The block that hides the tag (GCM) or keys the authenticator (ChaCha20).
MacCounter(a) == IF a.scheme = "gcm" THEN J0(a.nonce).counter ELSE 0

\* Mutant: the data begins with the block of the tag.
FirstCounterSame(a) == IF a.op = "xor" THEN a.start ELSE MacCounter(a)

\* Mutant: a decryption begins with the block of the tag.
FirstCounterDecrypt(a) ==
  CASE a.op = "xor"     -> a.start
    [] a.op = "decrypt" -> MacCounter(a)
    [] OTHER            -> Inc(a, MacCounter(a))

FirstCounter(a) == IF a.op = "xor" THEN a.start ELSE Inc(a, MacCounter(a))

-----------------------------------------------------------------------------
(* The authenticator.                                                        *)

\* _pad16
Pad(s) == s \o [k \in 1 .. ((-Len(s)) % MacLen) |-> Zero]

\* Mutant: the length of the associated data is left out.
MacDataOneLength(a, c) == Pad(a) \o Pad(c) \o <<Len(c)>>

\* What GHASH (_gcm_auth_tag) and Poly1305 (_aead_mac) run over.
MacData(a, c) == Pad(a) \o Pad(c) \o <<Len(a), Len(c)>>

Mac(a, c) == [hash  |-> IF a.scheme = "gcm" THEN "ghash" ELSE "poly1305",
              block |-> Block(a, MacCounter(a)),
              input |-> MacData(a.aad, c)]

-----------------------------------------------------------------------------
(* The calls.                                                                *)

NoCall == [op |-> "none"]

Init ==
  /\ call = NoCall /\ stage = "idle" /\ pos = 0 /\ counter = 0 /\ out = <<>>
  /\ outcome = "none" /\ drawn = <<>> /\ calls = 0 /\ sent = {}

MayCall == stage = "idle" /\ calls < MaxCalls

Call(a) ==
  /\ stage' = "check" /\ call' = a /\ calls' = calls + 1
  /\ pos' = 0 /\ counter' = 0 /\ out' = <<>> /\ outcome' = "none" /\ drawn' = <<>>
  /\ UNCHANGED sent

\* gcm_encrypt, chacha20_poly1305_encrypt, xchacha20_poly1305_encrypt; only GCM has a
\* tag_length argument.
CallEncrypt ==
  /\ MayCall
  /\ \E s \in AeadSchemes, k \in Keys \cup {BadKey}, n \in Nonces \cup {BadNonce},
        a \in Associated, d \in Messages, l \in MinTag - 1 .. MaxTag :
       /\ s # "gcm" => l = MaxTag
       /\ Call([op |-> "encrypt", scheme |-> s, key |-> k, nonce |-> n,
                aad |-> a, data |-> d, tag_length |-> l])

CallDecrypt ==
  /\ MayCall
  /\ \E t \in sent, s \in AeadSchemes, k \in Keys \cup {BadKey}, n \in Nonces \cup {BadNonce},
        a \in Associated, d \in Messages \cup {e.ciphertext : e \in sent},
        l \in MinTag - 1 .. MaxTag :
       Call([op |-> "decrypt", scheme |-> s, key |-> k, nonce |-> n,
             aad |-> a, data |-> d, tag |-> t.mac, tag_length |-> l])

\* chacha20_xor and ctr_encrypt; a counter argument of chacha20_xor may be too large.
CallXor ==
  /\ MayCall
  /\ \E s \in StreamSchemes, k \in Keys \cup {BadKey}, n \in Nonces \cup {BadNonce},
        d \in Messages : \E c \in 0 .. CounterSize[s] :
       /\ s = "ctr" => c < CounterSize[s]
       /\ Call([op |-> "xor", scheme |-> s, key |-> k, nonce |-> n, data |-> d, start |-> c])

Fail(exception) ==
  /\ outcome' = exception /\ stage' = "idle"
  /\ UNCHANGED <<call, pos, counter, out, drawn, calls, sent>>

TagLengthOK ==
  CASE call.op = "xor"       -> TRUE
    [] call.scheme = "gcm"   -> call.tag_length \in MinTag .. MaxTag
    [] OTHER                 -> call.tag_length = MaxTag

ArgumentsOK == call.key # BadKey /\ call.nonce # BadNonce /\ TagLengthOK

\* ctr_encrypt checks the counter block before the key, the others the key first.
RejectArguments ==
  /\ stage = "check" /\ ~ArgumentsOK
  /\ Fail(IF call.scheme = "ctr" /\ call.nonce = BadNonce THEN "ValueError"
          ELSE IF call.key = BadKey                       THEN "InvalidKey"
          ELSE IF call.op = "decrypt"                     THEN "InvalidCiphertext" ELSE "ValueError")

\* The first blocks of key stream of the call, then the loop.
Begin(blocks) ==
  /\ stage' = "stream" /\ counter' = FirstCounter(call) /\ drawn' = blocks
  /\ UNCHANGED <<call, pos, out, outcome, calls, sent>>

\* GCM uses the block of the tag after the data; which blocks are used is the same.
BeginEncrypt ==
  /\ stage = "check" /\ ArgumentsOK /\ call.op = "encrypt"
  /\ Begin(<<Block(call, MacCounter(call))>>)

BeginXor ==
  /\ stage = "check" /\ ArgumentsOK /\ call.op = "xor"
  /\ Begin(<<>>)

\* ct_equal of the tag and as much of the expected one (aes.py:429, chacha.py:165).
Verifies == call.tag = Mac(call, call.data)

BeginDecrypt ==
  /\ stage = "check" /\ ArgumentsOK /\ call.op = "decrypt" /\ Verifies
  /\ Begin(<<Block(call, MacCounter(call))>>)

RejectTag ==
  /\ stage = "check" /\ ArgumentsOK /\ call.op = "decrypt" /\ ~Verifies
  /\ Fail("InvalidTag")

-----------------------------------------------------------------------------
(* The loop.                                                                 *)

CounterOK == counter < CounterSize[call.scheme]

\* Octets of the next chunk, the last one partial.
ChunkLen == IF Len(call.data) - pos < BlockLen[call.scheme]
            THEN Len(call.data) - pos ELSE BlockLen[call.scheme]

Advance ==
  /\ pos' = pos + ChunkLen
  /\ counter' = Inc(call, counter)
  /\ drawn' = Append(drawn, Block(call, counter))

\* One iteration of the loop of _gctr, ctr_encrypt or chacha20_xor.
Stream ==
  /\ stage = "stream" /\ pos < Len(call.data) /\ CounterOK
  /\ out' = out \o [i \in 1 .. ChunkLen |->
                      Xor(call.data[pos + i], KeyStream(Block(call, counter), i))]
  /\ Advance
  /\ UNCHANGED <<call, stage, outcome, calls, sent>>

\* chacha20_block refuses a counter of more than 32 bits: only when there are data.
RejectCounter ==
  /\ stage = "stream" /\ pos < Len(call.data) /\ ~CounterOK
  /\ Fail("ValueError")

Sent == [scheme |-> call.scheme, aad |-> call.aad, plaintext |-> call.data,
         ciphertext |-> out, mac |-> Mac(call, out)]

Return ==
  /\ stage = "stream" /\ pos >= Len(call.data)
  /\ stage' = "idle" /\ outcome' = "returned"
  /\ sent' = sent \cup IF call.op = "encrypt" THEN {Sent} ELSE {}
  /\ UNCHANGED <<call, pos, counter, out, drawn, calls>>

Step ==
  \/ RejectArguments \/ BeginEncrypt \/ BeginDecrypt \/ BeginXor \/ RejectTag
  \/ Stream \/ RejectCounter \/ Return

Next == CallEncrypt \/ CallDecrypt \/ CallXor \/ Step

Spec == Init /\ [][Next]_vars

-----------------------------------------------------------------------------
(* What the authenticated ciphers and their streams promise.               *)

Blocks == Len(drawn)

\* The variables have their types; while the loop runs, as many octets are written as
\* the position says, and the position stays in the data.
TypeOK ==
  /\ stage \in {"idle", "check", "stream"}
  /\ outcome \in {"none", "returned", "ValueError", "InvalidKey", "InvalidCiphertext", "InvalidTag"}
  /\ call # NoCall => /\ call.op \in {"encrypt", "decrypt", "xor"}
                      /\ call.scheme \in Schemes
                      /\ pos \in 0 .. Len(call.data)
                      /\ counter \in 0 .. CounterSize[call.scheme]
  /\ call = NoCall => stage = "idle"
  /\ out \in Seq(Byte) /\ Len(out) = pos

\* No block of the key stream is used twice in a call, neither for two parts of the data
\* nor for the data and the tag, up to the number of counters: although the counter
\* may begin anywhere and wraps (aes.py:366, 371, chacha.py:98).
BlocksOnce ==
  Blocks > 0 /\ Blocks <= CounterSize[call.scheme] =>
    \A i, j \in 1 .. Blocks : drawn[i] = drawn[j] => i = j

\* A call that fails has not written an octet: plaintext is never released for
\* unauthenticated input (aes.py:418-419, chacha.py:155-156), and a counter that passes
\* 2^32 in the middle of the data is no error (chacha.py:98 against chacha.py:67).
FailsEarly == outcome \notin {"none", "returned"} => out = <<>>

\* A decryption that returns was given what an encryption has produced: the tag, and the
\* associated data and the ciphertext that belong to it, padding and lengths included,
\* whatever part of the tag is compared (aes.py:429, chacha.py:165).
Authentic ==
  (stage = "stream" \/ outcome = "returned") /\ call # NoCall /\ call.op = "decrypt" =>
    \E m \in sent : m.mac = call.tag /\ m.aad = call.aad /\ m.ciphertext = call.data

\* ... and what it returns is the plaintext of that encryption.
DecryptInverts ==
  outcome = "returned" /\ call.op = "decrypt" =>
    \E m \in sent : m.mac = call.tag /\ m.plaintext = out
=============================================================================
