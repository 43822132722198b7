---------------------------- MODULE X509PathProps ----------------------------
(***************************************************************************)
(* What path building and path validation promise, stated apart from how   *)
(* the search goes about it.                                               *)
(***************************************************************************)
EXTENDS X509Path

-----------------------------------------------------------------------------
(* build_chain's docstring, x509.py:1021-1027.                             *)

Trusted(cert) ==
  \/ IsAnchor(cert)
  \/ \E root \in Elements(call.roots) : IsIssuer(root, cert)

(* A path that build_chain may return: it leads from the leaf through the       *)
(* intermediates to a trust anchor, each certificate issued by the next     *)
(* one.  Although the intermediates and the roots may sign one another in   *)
(* circles, no certificate occurs in it twice, it stays within the bound on *)
(* the depth, and it does not go past the first certificate that stands for *)
(* a root or that a root has issued.                                        *)
IsPath(path) ==
  /\ path[1] = call.leaf
  /\ \A i \in 2 .. Len(path) - 1 : path[i] \in Elements(call.intermediates)
  /\ \A i \in 1 .. Len(path) - 1 : IsIssuer(path[i + 1], path[i])
  /\ IsAnchor(path[Len(path)])
  /\ \A i, j \in 1 .. Len(path) : path[i] = path[j] => i = j
  /\ Len(path) <= MaxPathDepth + 2
  /\ \A i \in 1 .. Len(path) - 2 : ~Trusted(path[i])

(* What build_chain returns is such a path.                                 *)
PathFound == phase \in Built => IsPath(chain)

\* The certificates that n or fewer intermediates lead to from the leaf.
Reach[n \in 0 .. MaxPathDepth] ==
  IF n = 0 THEN {call.leaf}
  ELSE Reach[n - 1] \cup
         {cert \in Elements(call.intermediates) :
            \E child \in Reach[n - 1] : IsIssuer(cert, child)}

PathExists == \E cert \in Reach[MaxPathDepth] : Trusted(cert)

(* The depth-first search gives up only when breadth-first search finds no  *)
(* path within the bound either: no candidate is lost when the search backs *)
(* out of a branch, whatever the order of the intermediates and the roots.  *)
NoPathMissed == phase = "no path" => ~PathExists

(* Every call returns or raises, although certificates may form cycles.     *)
Terminates == <>(phase \in {"accepted", "rejected", "no path", "aborted"})

(* validate_chain's docstring, x509.py:1086-1094, read from the anchor down: *)
(* in an accepted chain every certificate was valid at the moment, every     *)
(* issuer but a root that says nothing is a CA, and no pathLenConstraint is  *)
(* below the number of certificates between its CA and the leaf.            *)
AcceptedIsValid ==
  phase = "accepted" =>
    /\ \A i \in 1 .. Len(chain) : InWindow(chain[i]) /\ ~chain[i].unenforced
    /\ \A i \in 2 .. Len(chain) - 1 : IsCA(chain[i])
    /\ \A i \in 2 .. Len(chain) :
         /\ chain[i].bc # None =>
              /\ chain[i].bc.ca
              /\ chain[i].bc.pathLength # None => chain[i].bc.pathLength >= i - 2
         /\ chain[i].keyUsage # None => "keyCertSign" \in chain[i].keyUsage

-----------------------------------------------------------------------------
(* Statements of the documentation that the code does not keep.            *)

(* x509.py:1025-1026: "Depth is capped at eight links."                     *)
DepthCapped == phase \in Built => Len(chain) - 1 <= MaxPathDepth

(* x509.py:1026: "Raises InvalidCertificate when no path exists", which     *)
(* here happens with a path in the intermediates and the roots.             *)
RaisesWithoutPath == phase = "aborted" => ~PathExists
=============================================================================
