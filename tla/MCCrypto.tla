------------------------------- MODULE MCCrypto --------------------------------
(* Public-key cryptography and the pure algorithms: one call of one of them in a *)
(* behaviour.  The loops that draw until what they have drawn can be used are    *)
(* state machines of their own; of an algorithm, call holds the arguments.       *)
EXTENDS Ecdsa, MlDsa, Xof, Rsa, RsaPad, MlKem, Curve25519, X509Fields, Kdf, TLC

VARIABLE call

-----------------------------------------------------------------------------
(* Curves of prime order above and below the prime of the field, and with a = 0. *)

Curve(p, a, b, gx, gy, n) == [p |-> p, a |-> a, b |-> b, gx |-> gx, gy |-> gy, n |-> n]
Curves == {Curve(11, 1, 6, 2, 4, 13), Curve(11, 6, 6, 2, 2, 7), Curve(7, 0, 3, 1, 2, 13)}

MCEcdsaCalls ==
  UNION {[curve : {c}, d : {1, 2, c.n - 1}, digest : 0 .. 7, hlen : {3}]
         \cup [curve : {c}, d : {2, 5}, digest : {0, 1, 13, 14, 26, 27, 31}, hlen : {5}]
         : c \in Curves}

Poly(a, b) == (0 :> a) @@ (1 :> b)

MCMlDsaParams == [ring |-> [n |-> 2, q |-> 97, low |-> 1, zeta |-> 22], d |-> 5, k |-> 2, ell |-> 2, eta |-> 1,
                  gamma1 |-> 8, gamma2 |-> 12, beta |-> 1, omega |-> 2]

Small == {Poly(1, -1), Poly(0, 1), Poly(-1, -1)}
Matrices == {<<<<Poly(5, 60), Poly(91, 12)>>, <<Poly(33, 2), Poly(70, 1)>>>>,
             <<<<Poly(0, 40), Poly(8, 8)>>, <<Poly(96, 13), Poly(21, 50)>>>>}
MCMlDsaSecrets == [a_hat : Matrices, s1 : {<<f, Poly(1, 0)>> : f \in Small},
                   s2 : {<<Poly(0, -1), f>> : f \in Small}]
MCMlDsaMasks == {<<f, g>> : f, g \in {Poly(8, -7), Poly(0, 1), Poly(-3, 5), Poly(6, 6), Poly(-6, 2)}}
MCMlDsaHints == {positions \o ends : positions \in [1 .. 2 -> 0 .. 1], ends \in [1 .. 2 -> 0 .. 3]}
MCMlDsaBalls == {Poly(1, 0), Poly(0, 1), Poly(96, 0), Poly(0, 96)}

-----------------------------------------------------------------------------
(* Streams of triples at the bounds of the samplers.                         *)

Triples == {<<1, 224, 127>>, <<0, 224, 255>>, <<1, 29, 208>>, <<0, 29, 3>>, <<2, 3, 159>>, <<232, 1, 0>>}
MCXofStreams == {a \o b \o c \o d : a, b, c, d \in Triples}
MCXofSamplers == [by : {"rej_ntt_poly", "sample_ntt"}, param : {0}]
                 \cup [by : {"rej_bounded_poly"}, param : {2, 4}]
                 \cup [by : {"sample_in_ball"}, param : {2}]

-----------------------------------------------------------------------------
(* Keys of seven to ten bits, 25 being the pseudoprime, and files of any factors.  *)

MCRsaRequests == [bits : {7, 8}, e : {3, 5, 7}] \cup {[bits |-> 10, e |-> 7]}
File(p, q, e, d, u, v) ==
  [n |-> p * q, e |-> e, d |-> d, p |-> p, q |-> q, iqmp |-> v,
   dmp1 |-> IF p > 1 THEN d % (p - 1) ELSE 0, dmq1 |-> IF q > 1 THEN (d + u) % (q - 1) ELSE 0]
MCRsaFiles == {File(p, q, 3, d, u, v) : p \in {1, 5, 9, 15}, q \in {1, 3, 11}, d \in {3, 7, 27, 47},
                                        u \in {0, 1}, v \in 0 .. 8}

\* Moduli of 8, 9, 10 and 11 bits, of 4, 5, 5 and 6 octets.
SchemeKeys == {KeyOf(17, 11, 3), KeyOf(23, 17, 3), KeyOf(29, 23, 3), KeyOf(47, 29, 3)}

-----------------------------------------------------------------------------
(* The calls: small curves, rings and blocks, and the fields of a certificate.  *)

\* Curves with points outside of the subgroup; the prime of the last one is 1 modulo 4.
CofactorCurves == {Curve(7, 1, 4, 4, 3, 5), Curve(11, 1, 7, 1, 3, 5), Curve(13, 0, 4, 7, 3, 7),
                   Curve(7, 0, 3, 1, 2, 13)}

Ring(n, q, low, zeta) == [n |-> n, q |-> q, low |-> low, zeta |-> zeta]
Rings == {Ring(2, 97, 1, 22), Ring(4, 97, 1, 33), Ring(4, 97, 2, 22), Ring(4, 193, 2, 81)}
Polynomials(r, S) == [0 .. r.n - 1 -> S]

MCKemRing == Ring(4, 193, 2, 81)
Quad(a, b, c, d) == (0 :> a) @@ (1 :> b) @@ (2 :> c) @@ (3 :> d)
KemMatrices == {<<<<Quad(1, 7, 50, 90), Quad(33, 2, 0, 11)>>, <<Quad(100, 5, 6, 7), Quad(9, 192, 2, 60)>>>>}
KemMessages == [1 .. 2 -> 0 .. 3]
\* Coefficients 0, 1 and -1 from the number that a seed begins with, or its octets.
MCNoise(seed, ctr) ==
  LET s == IF Len(seed) = 1 THEN seed[1]
           ELSE 3 + seed[1][1] + 4 * seed[1][2]
  IN  [i \in 0 .. 3 |-> <<0, 1, 192>>[1 + ((s * (i + 2) + ctr * (2 * i + 1) + s * s * ctr) % 3)]]

\* Of an octet of two bits.
MCHash(s) ==
  LET h[i \in 0 .. Len(s)] == IF i = 0 THEN 1 ELSE (3 * h[i - 1] + (i + 1) * s[i] + s[i] * s[i] + 1) % 4
  IN  h[Len(s)]

\* drop: of the code's two curves only X25519 has a bit of the octets that is dropped.
MontgomeryCurves == {[p |-> 29, A |-> 6, bits |-> 6, low |-> 8, base |-> 9, drop |-> 64],
                     [p |-> 19, A |-> 6, bits |-> 5, low |-> 4, base |-> 7, drop |-> 0]}
Edwards == [p |-> 29, d |-> 27, l |-> 5, b |-> <<8, 18>>]

Strings(S, n) == UNION {[1 .. k -> S] : k \in 0 .. n}
Dns(s) == [kind |-> "dns", value |-> s]
Hosts == {Dns(h) : h \in Strings({"a", "A", "."}, 4) \cup [1 .. 5 -> {"a", "."}]} \cup {[kind |-> "ip", value |-> "10.0.0.1"]}
HostCerts ==
  {[san |-> <<{Dns(s)}>>, cn |-> {}] : s \in Strings({"a", "*", "."}, 4)}
  \cup [san : {<<>>, <<{}>>, <<{[kind |-> "ip", value |-> "10.0.0.1"]}>>,
               <<{Dns(<<"*", ".", "a">>), [kind |-> "email", value |-> <<"a", ".", "a">>]}>>},
        cn : {{}, {<<"a">>, <<"*", ".", "A">>}}]

ExtensionLists == Strings([oid : 1 .. 2, critical : {"absent", "TRUE", "other"}, value : {"v", "w"}], 2)
WithExtensions(e) == [tag |-> 163, children |-> <<e>>]
TailNodes == [tag : {129, 130, 48, 163}, children : {<<>>}]
             \cup {WithExtensions(<<[oid |-> 1, critical |-> "TRUE", value |-> "v"]>>)}
Tails == Strings(TailNodes, 3) \cup {<<WithExtensions(e)>> : e \in ExtensionLists}
Node(kind, value) == [kind |-> kind, value |-> value]
Algorithms == [family : {"rsa", "pss", "ecdsa", "ed25519"}, params : {"absent", "NULL", "sequence"}]
Bodies == {<<Node("serial", serial), Node("algorithm", a), Node("name", "issuer"), Node("validity", ""),
             Node("name", "subject"), Node("key", "")>> : serial \in 0 .. 1, a \in Algorithms}
TailNode == [kind |-> "tail", tag |-> 129, children |-> <<>>]
Versions == {<<>>} \cup {<<Node("version", v)>> : v \in 0 .. 3}
\* The fields in their order, and with one left out or two exchanged.
WholeTbs == {v \o b \o t : v \in Versions, b \in Bodies, t \in {<<>>, <<TailNode>>}}
Spoiled(s) == {SubSeq(s, 1, i - 1) \o SubSeq(s, i + 1, Len(s)) : i \in 1 .. Len(s)}
              \cup {[s EXCEPT ![i] = s[j], ![j] = s[i]] : i, j \in 1 .. Len(s)}
Moments == [tag : {"UTCTime"}, year : {0, 24, 49, 50, 99}, month : {0, 1, 2, 12, 13}, day : {0, 28, 29, 31, 32},
          hour : {0, 23, 24}, minute : {0, 59}, second : {0}, offset : {<<>>, <<1, 5, 30>>, <<-1, 23, 59>>, <<1, 24, 0>>}]
         \cup [tag : {"GeneralizedTime"}, year : {0, 1, 1900, 2000, 2023, 9999}, month : {1, 2, 12}, day : {1, 28, 29, 31},
               hour : {0, 23}, minute : {0}, second : {0, 60}, offset : {<<>>, <<1, 0, 1>>, <<-1, 5, 0>>, <<-1, 0, 60>>}]
\* The default of the salt's length is 20, that of the trailer 1; the hashes are numbers, of
\* which 1 is SHA-1.
PssFields == [number : 0 .. 3, value : {1, 20}] \cup [number : {4}, value : {1}]

-----------------------------------------------------------------------------

Idle == call.op = "none"
CallInit == call = [op |-> "none"]

\* Points, to be decoded, and keys, to be loaded.
DecodeEc ==
  Idle /\ \E c \in CofactorCurves, x \in 0 .. 13, y \in 0 .. 13, format \in 2 .. 5 :
    call' = [op |-> "ec", curve |-> c,
             enc |-> IF format = 4 THEN [format |-> 4, fits |-> TRUE, x |-> x, y |-> y]
                     ELSE [format |-> format, fits |-> y > 0, x |-> x]]
LoadEc ==
  Idle /\ \E c \in CofactorCurves : \E d, other \in 1 .. c.n - 1 :
    call' = [op |-> "eckey", curve |-> c, d |-> d, other |-> other]

Transform ==
  Idle /\ \E r \in Rings : \E f \in Polynomials(r, {0, 3, r.q - 2}), g \in Polynomials(r, {5, r.q - 1}) :
    call' = [op |-> "ntt", ring |-> r, f |-> f, g |-> g]
Pack ==
  Idle /\ \E bits \in {1, 3, 4, 5} : \E values \in [1 .. 4 -> {0, 1, 2 ^ bits - 1, 2 ^ (bits - 1)}] :
    call' = [op |-> "pack", bits |-> bits, values |-> values]
Sample == Idle /\ \E eta \in 1 .. 2 : call' = [op |-> "cbd", eta |-> eta]

Encapsulate ==
  Idle /\ \E sigma \in 1 .. 2, a_hat \in KemMatrices, m \in KemMessages :
    call' = [op |-> "kem", m |-> m, dk |-> KemKeygen(<<sigma>>, a_hat, "z")]

UnpadV15 ==
  Idle /\ \E k \in 5 .. 6 : \E em \in [1 .. k -> 0 .. Base - 1] : call' = [op |-> "v15", em |-> em]
UnpadOaep ==
  Idle /\ \E em \in [1 .. 5 -> 0 .. Base - 1], label \in {<<>>, <<1>>} :
    call' = [op |-> "oaep", em |-> em, label |-> label]
PadPss ==
  Idle /\ \E h \in 0 .. Base - 1, emBits \in 7 .. 10, n \in 0 .. 2 :
          \E salt \in [1 .. n -> 0 .. Base - 1] :
    /\ EmLen(emBits) >= n + HLen + 2
    /\ call' = [op |-> "pss", hash |-> <<h>>, bits |-> emBits, salt |-> salt]

\* Operations on what the schemes have made, and on any octets.
EncryptRsa ==
  Idle /\ \E k \in SchemeKeys, h \in 0 .. Base - 1, message \in Strings(0 .. Base - 1, 1) :
          \E ps \in PaddingStrings(KeyBytes(k) - 3 - Len(message)) :
            call' = [op |-> "rsaencrypt", key |-> k, message |-> message, ps |-> ps, label |-> <<>>, seed |-> <<h>>]
SignRsa ==
  Idle /\ \E k \in SchemeKeys, h \in 0 .. Base - 1, salt \in Strings(0 .. Base - 1, 2) :
            call' = [op |-> "rsasign", key |-> k, hash |-> <<h>>, salt |-> salt]
ReceiveRsa ==
  Idle /\ \E k \in SchemeKeys : \E octets \in [1 .. KeyBytes(k) -> 0 .. Base - 1] :
    call' = [op |-> "rsaany", key |-> k, octets |-> octets, label |-> <<>>, hash |-> <<1>>]

ExchangeMontgomery ==
  Idle /\ \E c \in MontgomeryCurves : \E j, k \in 0 .. 2 ^ (c.bits - 1) - 1, enc \in 0 .. 2 ^ c.bits - 1 + c.drop :
    /\ j % c.low = 0 /\ k % c.low = 3
    /\ call' = [op |-> "montgomery", curve |-> c, j |-> j, k |-> k, enc |-> enc]

DecodeEd ==
  Idle /\ \E y \in 0 .. 31, sign \in 0 .. 1 : call' = [op |-> "eddecode", enc |-> [y |-> y, sign |-> sign]]
SignEd ==
  Idle /\ \E a \in {16, 24}, r, k \in 0 .. Edwards.l - 1 : call' = [op |-> "edsign", a |-> a, r |-> r, k |-> k]

Derive == Idle /\ \E hlen \in {1, 32}, length \in 0 .. 300 : call' = [op |-> "kdf", hlen |-> hlen, length |-> length]

MatchHost ==
  Idle /\ \E cert \in HostCerts, host \in Hosts : call' = [op |-> "host", cert |-> cert, host |-> host]

ReadTail ==
  Idle /\ \E tail \in Tails : call' = [op |-> "tail", tail |-> tail]
ReadConstraints ==
  Idle /\ \E n \in 0 .. 3 : \E kids \in [1 .. n -> [tag : {1, 2}, value : {-1, 0, 1, 255}]] :
    call' = [op |-> "constraints", kids |-> kids]
ReadUsages ==
  Idle /\ \E n \in 0 .. 5, unused \in 0 .. OctetBits - 1 : \E payload \in [1 .. n -> 0 .. Base - 1] :
    /\ unused > 0 => n > 0
    /\ call' = [op |-> "usages", unused |-> unused, payload |-> payload]
ReadAuthority ==
  Idle /\ \E n \in 0 .. 3 : \E kids \in [1 .. n -> [tag : {128, 130, 161, 129}, value : {"v", "w"}]] :
    call' = [op |-> "authority", kids |-> kids]
ReadPss ==
  Idle /\ \E n \in 0 .. 4 : \E fields \in [1 .. n -> PssFields] : call' = [op |-> "pssfields", fields |-> fields]

ReadCertificate ==
  Idle /\ \E s \in WholeTbs, outer \in Algorithms :
          \E kids \in {s} \cup (IF s[1].kind = "version" /\ s[1].value = 2 /\ s[2].value = 1 /\ s[3].value = outer
                               THEN Spoiled(s) ELSE {}) :
    call' = [op |-> "certificate", outer |-> outer, kids |-> kids]
ReadTime == Idle /\ \E t \in Moments : call' = [op |-> "time", time |-> t]

Call == \/ DecodeEc \/ LoadEc \/ Transform \/ Pack \/ Sample \/ Encapsulate \/ UnpadV15 \/ UnpadOaep \/ PadPss
        \/ EncryptRsa \/ SignRsa \/ ReceiveRsa
        \/ ExchangeMontgomery \/ DecodeEd \/ SignEd \/ Derive \/ MatchHost
        \/ ReadTail \/ ReadConstraints \/ ReadUsages \/ ReadAuthority \/ ReadPss \/ ReadCertificate \/ ReadTime

Init == EcdsaInit /\ MlDsaInit /\ XofInit /\ RsaInit /\ CallInit
Next == \/ MlDsaInit /\ XofInit /\ RsaInit /\ CallInit /\ EcdsaNext /\ UNCHANGED <<mldsa, xof, rsa, call>>
        \/ EcdsaInit /\ XofInit /\ RsaInit /\ CallInit /\ MlDsaNext /\ UNCHANGED <<ecdsa, xof, rsa, call>>
        \/ EcdsaInit /\ MlDsaInit /\ RsaInit /\ CallInit /\ XofNext /\ UNCHANGED <<ecdsa, mldsa, rsa, call>>
        \/ EcdsaInit /\ MlDsaInit /\ XofInit /\ CallInit /\ RsaNext /\ UNCHANGED <<ecdsa, mldsa, xof, call>>
        \/ EcdsaInit /\ MlDsaInit /\ XofInit /\ RsaInit /\ Call /\ UNCHANGED <<ecdsa, mldsa, xof, rsa>>
Spec == Init /\ [][Next]_<<ecdsa, mldsa, xof, rsa, call>>

-----------------------------------------------------------------------------

\* Points and private keys come back from their encodings, and others are refused
\* (ec.py:236-302, 314-352, 635-726).
EcKeysExact ==
  /\ call.op = "ec" => EcDecodesExactly(call.curve, call.enc)
  /\ call.op = "eckey" => EcLoadsOwn(call.curve, call.d, call.other)

\* Polynomials multiply through their number theoretic transforms, come back from their octets and
\* are sampled from all bits alike (mldsa.py:132-170, 339-370, mlkem.py:123-155, 186-259).
PolynomialsExact ==
  /\ call.op = "ntt" => TransformMultiplies(call.ring, call.f, call.g)
  /\ call.op = "pack" => PacksTheBits(call.values, call.bits)
  /\ call.op = "cbd" => CbdCentered(Ring(2, 97, 1, 22), call.eta)

\* Encapsulation and decapsulation agree, and no ciphertext that was changed does
\* (mlkem.py:363-370).
KemExact == call.op = "kem" => KemAgrees(call.dk, call.m)

\* The three paddings of RSA take what they have made and nothing else (rsa.py:701-794), and
\* so do the schemes and the key files (rsa.py:265-387, 490-692).
PaddingsExact ==
  /\ call.op = "v15" => V15Exact(call.em)
  /\ call.op = "oaep" => OaepExact(call.em, call.label)
  /\ call.op = "pss" => PssExact(call.hash, call.bits, call.salt)
  /\ call.op = "rsaencrypt" => CiphertextsDecrypt(call.key, call.message, call.ps, call.label, call.seed)
  /\ call.op = "rsasign" => SignaturesVerify(call.key, call.hash, call.salt) /\ RsaLoadsOwn(call.key)
  /\ call.op = "rsaany" => SchemesTakeOnlyMade(call.key, call.octets, call.label, call.hash)

\* Octets verify as an RSA signature only if they are a number below the modulus: "RSA per RFC
\* 8017" (rsa.py:2), against rsa.py:265-309.
SignaturesInRange == call.op = "rsaany" => RepresentativesBelow(call.key, call.octets, call.hash)

\* The Montgomery ladder multiplies, and exchanges agree (x25519.py:28-88).
ExchangesExact == call.op = "montgomery" => ExchangeAgrees(call.curve, call.j, call.k, call.enc)

\* Points of Ed25519 have one encoding, and each (r, k) one signature (eddsa.py:130-267).
EdwardsExact ==
  /\ call.op = "eddecode" => EdDecodesExactly(Edwards, call.enc)
  /\ call.op = "edsign" => EdSignatureVerifies(Edwards, call.a, call.r, call.k)

\* Outputs of key derivations are whole blocks and one piece, which uses no octet twice
\* (kdf.py:42-95, 186-198).
KdfOutputsFit == call.op = "kdf" => OutputsFit(call.hlen, call.length)

\* A host name matches by whole labels (x509.py:1161-1203).
HostnamesExact == call.op = "host" => HostnameExact(call.cert, call.host)

\* A certificate and what it leaves optional have one meaning or none (x509.py:285-316, 359-374,
\* 377-384, 435-470, 528-572, 797-966).
FieldsExact ==
  /\ call.op = "tail" => TailExact(call.tail) /\ ExtensionsUnambiguous(call.tail)
  /\ call.op = "constraints" => ConstraintsExact(call.kids)
  /\ call.op = "usages" => UsagesExact(call.unused, call.payload)
  /\ call.op = "authority" => AuthorityUnambiguous(call.kids)
  /\ call.op = "pssfields" => PssParametersAgree(call.fields)
  /\ call.op = "certificate" => CertificateExact(call.outer, call.kids)
  /\ call.op = "time" => TimeExact(call.time)
=============================================================================
