----------------------------- MODULE MCX509Path ------------------------------
(* Certificates of a small public-key infrastructure: a root R with a       *)
(* renewed copy, intermediates A and B that sign each other, cross          *)
(* certificates, and copies of A with one defect each; and path building    *)
(* among them.                                                              *)
EXTENDS X509PathProps

CONSTANTS none, naive

RSA(id) == [kind |-> "rsa", id |-> id]
EC(id)  == [kind |-> "ec", id |-> id]

\* A sound CA certificate for key of subject, signed by signer of issuer.
CA(subject, key, issuer, signer) ==
  [subject |-> subject, issuer |-> issuer, key |-> key, signer |-> signer,
   algorithm |-> signer.kind, weak |-> FALSE, akid |-> none, skid |-> none,
   bc |-> [ca |-> TRUE, pathLength |-> none], keyUsage |-> none,
   unenforced |-> FALSE, notBefore |-> 0, notAfter |-> 9]

kL == RSA("l")
kA == RSA("a")
kB == RSA("b")
kR == RSA("r")
kE == EC("r")

Leaf == [CA("L", kL, "A", kA) EXCEPT !.bc = none,
                                     !.keyUsage = {"digitalSignature"}]
\* The leaf with the key identifier of one of A's certificates.
LeafWithId == [Leaf EXCEPT !.akid = "a1"]

A       == CA("A", kA, "R", kR)              \* A, issued by the root
AWithId == [A EXCEPT !.skid = "a1", !.bc.pathLength = 0]
AOther  == [A EXCEPT !.skid = "a2"]
AShort  == [CA("A", kA, "B", kB) EXCEPT !.bc.pathLength = 0]
AByB    == CA("A", kA, "B", kB)              \* A, cross-signed by B
AExpired == [A EXCEPT !.notAfter = 3]
AWeak   == [A EXCEPT !.weak = TRUE]
AFalse  == CA("A", kB, "R", kR)              \* A's name, another key
ANoCA   == [AByB EXCEPT !.bc = none]
AUsage  == [A EXCEPT !.keyUsage = {"digitalSignature"}]
ACrit   == [A EXCEPT !.unenforced = TRUE]
B       == CA("B", kB, "R", kR)
BByA    == CA("B", kB, "A", kA)              \* the other half of the circle
BShort  == [B EXCEPT !.bc.pathLength = 0]
R       == CA("R", kR, "R", kR)
RNew    == [R EXCEPT !.notBefore = 5, !.skid = "r2"]   \* the root, renewed
RBare   == [R EXCEPT !.bc = none]
RForged == [R EXCEPT !.signer = kB]          \* its self-signature is wrong
RLimit  == [R EXCEPT !.bc.pathLength = 1]
RByB    == CA("R", kR, "B", kB)              \* the root, cross-signed by B
REC     == CA("R", kE, "R", kE)              \* the root's name, an EC key

Pool == {A, AWithId, AOther, AShort, AByB, AExpired, AWeak, AFalse, ANoCA,
         AUsage, ACrit, B, BByA, BShort, RByB}
Anchors == {R, RNew, RBare, RForged, RLimit, REC, A}
MCCert == {Leaf, LeafWithId} \cup Pool \cup Anchors

\* The sequences of at most n elements of S without repetition.
Lists(S, n) == {s \in UNION {[1 .. k -> S] : k \in 0 .. n} :
                  \A i, j \in DOMAIN s : s[i] = s[j] => i = j}

Arguments(leaves, bundles, stores, weak, moments) ==
  [leaf : leaves, intermediates : bundles, roots : stores,
   allowWeak : weak, moment : moments]

\* Deep and cyclic bags; then any two certificates and any anchor, without
\* and with a second anchor before or after it; and leaves that are anchors.
MCCalls ==
  Arguments({Leaf}, Lists({AByB, BByA, BShort, A, RByB}, 3), {<<R>>, <<RLimit>>},
            {FALSE}, {5})
    \cup Arguments({Leaf}, {s \in Lists({AByB, BByA, B, AShort}, 4) : Len(s) = 4},
                   {<<R>>, <<>>}, {FALSE}, {5})
    \cup Arguments({Leaf, LeafWithId}, Lists(Pool, 2), {<<R>>}, {FALSE}, {4})
    \cup Arguments({Leaf, LeafWithId}, Lists(Pool, 1), Lists(Anchors, 2),
                   BOOLEAN, {4})
    \cup Arguments({R, A}, Lists({A, RByB, BByA}, 2), Lists(Anchors, 1),
                   {FALSE}, {4, naive})
=============================================================================
