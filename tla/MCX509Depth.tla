----------------------------- MODULE MCX509Depth -----------------------------
(* One line of intermediates, each issued by the next, the last by the root, *)
(* under the real bound on the depth.                                        *)
EXTENDS MCX509Path

CONSTANT Links   \* the longest line from the leaf to the root

Name == <<"N1", "N2", "N3", "N4", "N5", "N6", "N7", "N8", "N9", "N10">>
Step(child, issuer) ==
  CA(Name[child], RSA(Name[child]), Name[issuer], RSA(Name[issuer]))

Line(n)  == [i \in 1 .. n - 1 |-> Step(i, i + 1)]
Bottom   == [CA("L", kL, Name[1], RSA(Name[1])) EXCEPT !.bc = none]
Root(n) == Step(n, n)

MCDepthCert == UNION {{Line(n)[i] : i \in 1 .. n - 1} \cup {Bottom, Root(n)} :
                        n \in 1 .. Links}
MCDepthCalls ==
  UNION {Arguments({Bottom}, {Line(n)}, {<<Root(n)>>}, {FALSE}, {5}) :
           n \in 1 .. Links}
=============================================================================
