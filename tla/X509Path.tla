------------------------------ MODULE X509Path -------------------------------
(***************************************************************************)
(* Path building and path validation (purecrypt/x509.py:972-1119).         *)
(* build_chain searches depth first for a path from a leaf to a trust root *)
(* through a bag of intermediates that may cross-sign one another;         *)
(* validate_chain then checks the one path the search returned.  A call is *)
(* a step-by-step execution: one step per frame of _extend_path that is    *)
(* entered, per candidate that it tries, and per certificate checked.      *)
(***************************************************************************)
EXTENDS Integers, Sequences, FiniteSets

CONSTANTS
  Cert,          \* the certificates there are
  Calls,         \* the arguments of validate_chain that are considered
  MaxPathDepth,  \* _MAX_PATH_DEPTH
  None,          \* an absent extension
  Naive          \* a moment without a time zone

(* A certificate is what the search and the checks read of it.  Equality of *)
(* records stands for equality of the DER encodings.                        *)
CertFields == {"subject", "issuer", "key", "signer", "algorithm", "weak",
               "akid", "skid", "bc", "keyUsage", "unenforced",
               "notBefore", "notAfter"}

ASSUME DepthAssumption == MaxPathDepth \in Nat

ASSUME CertAssumption == \A c \in Cert : DOMAIN c = CertFields

ASSUME CallsAssumption ==
  \A call \in Calls :
    /\ call.leaf \in Cert
    /\ call.intermediates \in Seq(Cert)
    /\ call.roots \in Seq(Cert)
    /\ call.allowWeak \in BOOLEAN

VARIABLES
  call,     \* the arguments, fixed
  phase,
  chain,    \* the certificates from the leaf to the current one
  cursor,   \* per frame of _extend_path the next candidate; 0: just entered
  checked   \* the certificates of the chain that have passed the checks

vars == <<call, phase, chain, cursor, checked>>

Searching == {"start", "search"}
Failed    == {"no path", "aborted", "rejected"}
Built     == {"found", "accepted", "rejected"}
Phases    == Searching \cup Failed \cup Built

Current == chain[Len(chain)]
Top     == cursor[Len(cursor)]
Elements(s) == {s[i] : i \in DOMAIN s}

-----------------------------------------------------------------------------
(* Matching one certificate with a candidate issuer.                       *)

SameEntity(a, b) == a = b \/ (a.subject = b.subject /\ a.key = b.key)

\* "error" is InvalidCertificate: a weak hash or a key of another type.
VerifyIssuerSignature(cert, key, allowWeak) ==
  CASE (cert.weak /\ ~allowWeak) \/ cert.algorithm # key.kind -> "error"
    [] ~(cert.weak /\ ~allowWeak) /\ cert.algorithm = key.kind ->
         IF cert.signer = key THEN "valid" ELSE "invalid"

NamesMatch(issuer, child) ==
  /\ child.issuer = issuer.subject
  /\ None \in {child.akid, issuer.skid} \/ child.akid = issuer.skid

\* _issues: True, False or the exception that it lets through.
Issues(issuer, child, allowWeak) ==
  IF ~NamesMatch(issuer, child) THEN "no"
  ELSE CASE VerifyIssuerSignature(child, issuer.key, allowWeak) = "valid" -> "yes"
         [] VerifyIssuerSignature(child, issuer.key, allowWeak) = "invalid" -> "no"
         [] VerifyIssuerSignature(child, issuer.key, allowWeak) = "error" -> "raise"

IsIssuer(issuer, child) == Issues(issuer, child, call.allowWeak) = "yes"

-----------------------------------------------------------------------------
(* build_chain and _extend_path.                                           *)

TypeOK ==
  /\ call \in Calls
  /\ phase \in Phases
  /\ chain \in Seq(Cert)
  /\ chain # <<>>
  /\ cursor \in Seq(Nat)
  /\ checked \in 0 .. Len(chain)
  /\ phase = "search" => Len(cursor) = Len(chain)

Init ==
  /\ call \in Calls
  /\ phase = "start"
  /\ chain = <<call.leaf>>
  /\ cursor = <<>>
  /\ checked = 0

Found(path) ==
  /\ phase' = "found"
  /\ chain' = path
  /\ cursor' = <<>>
  /\ UNCHANGED <<call, checked>>

Abort ==
  /\ phase' = "aborted"
  /\ UNCHANGED <<call, chain, cursor, checked>>

IsAnchor(cert) == \E root \in Elements(call.roots) : SameEntity(cert, root)

\* The loop of build_chain over the roots, and the first call of _extend_path.
BuildChain ==
  /\ phase = "start"
  /\ \/ /\ IsAnchor(call.leaf)
        /\ Found(chain)
     \/ /\ ~IsAnchor(call.leaf)
        /\ phase' = "search"
        /\ cursor' = <<0>>
        /\ UNCHANGED <<call, chain, checked>>

\* The roots that can stop the first loop of _extend_path; the first one does.
Stops == {i \in DOMAIN call.roots :
            Issues(call.roots[i], Current, call.allowWeak) # "no"}
First(S) == {i \in S : \A j \in S : i <= j}

Advance(frames) == [frames EXCEPT ![Len(frames)] = @ + 1]
Pop(s) == SubSeq(s, 1, Len(s) - 1)

\* Mutant: the result of the first candidate is returned whatever it is.
ReturnNoneAtOnce ==
  /\ phase' = "no path"
  /\ UNCHANGED <<call, chain, cursor, checked>>

\* Mutant: the caller tries the same candidate again.
ReturnNoneSameCandidate ==
  \/ /\ Len(cursor) = 1
     /\ phase' = "no path"
     /\ UNCHANGED <<call, chain, cursor, checked>>
  \/ /\ Len(cursor) > 1
     /\ chain' = Pop(chain)
     /\ cursor' = Pop(cursor)
     /\ UNCHANGED <<call, phase, checked>>

\* _extend_path returns None: to its caller's loop, or to build_chain.
ReturnNone ==
  \/ /\ Len(cursor) = 1
     /\ phase' = "no path"
     /\ UNCHANGED <<call, chain, cursor, checked>>
  \/ /\ Len(cursor) > 1
     /\ chain' = Pop(chain)
     /\ cursor' = Advance(Pop(cursor))
     /\ UNCHANGED <<call, phase, checked>>

\* Mutant: one frame too many.
TooDeepLater == Len(chain) > MaxPathDepth + 2

TooDeep == Len(chain) > MaxPathDepth + 1

\* A frame is entered: the depth check and the two loops over the roots.
Enter ==
  /\ phase = "search"
  /\ Top = 0
  /\ \/ TooDeep /\ ReturnNone
     \/ /\ ~TooDeep
        /\ \E i \in First(Stops) :
             LET root == call.roots[i]
             IN  \/ IsIssuer(root, Current) /\ Found(Append(chain, root))
                 \/ ~IsIssuer(root, Current) /\ Abort
     \/ /\ ~TooDeep
        /\ Stops = {}
        /\ \/ IsAnchor(Current) /\ Found(chain)
           \/ /\ ~IsAnchor(Current)
              /\ cursor' = Advance(cursor)
              /\ UNCHANGED <<call, phase, chain, checked>>

Recurse(cand) ==
  /\ chain' = Append(chain, cand)
  /\ cursor' = Append(cursor, 0)
  /\ UNCHANGED <<call, phase, checked>>

\* One iteration of the loop over the intermediates.
TryCandidate ==
  /\ phase = "search"
  /\ Top \in DOMAIN call.intermediates
  /\ LET cand    == call.intermediates[Top]
         outcome == Issues(cand, Current, call.allowWeak)
     IN  \/ /\ cand \in Elements(chain) \/ outcome = "no"
            /\ cursor' = Advance(cursor)
            /\ UNCHANGED <<call, phase, chain, checked>>
         \/ cand \notin Elements(chain) /\ outcome = "yes" /\ Recurse(cand)
         \/ cand \notin Elements(chain) /\ outcome = "raise" /\ Abort

\* The loop over the intermediates ends.
Exhausted ==
  /\ phase = "search"
  /\ Top > Len(call.intermediates)
  /\ ReturnNone

-----------------------------------------------------------------------------
(* validate_chain, on the path that was found.                             *)

InWindow(cert) ==
  cert.notBefore <= call.moment /\ call.moment <= cert.notAfter

IsCA(cert) == cert.bc # None /\ cert.bc.ca

\* Mutant: the certificate just below is not counted.
CasBelowShort(i) == Cardinality({j \in 2 .. i - 2 : IsCA(chain[j])})

\* cas_below, for the certificate at place i counted from 1 (the leaf).
CasBelow(i) == Cardinality({j \in 2 .. i - 1 : IsCA(chain[j])})

CheckLeaf(cert) ==
  ~IsCA(cert) /\ cert.keyUsage # None => "digitalSignature" \in cert.keyUsage

\* _check_ca; a root without basicConstraints is trusted as it is.
CheckCA(cert, i) ==
  /\ IF cert.bc = None THEN i = Len(chain) ELSE cert.bc.ca
  /\ cert.bc # None /\ cert.bc.pathLength # None =>
       cert.bc.pathLength >= CasBelow(i)
  /\ cert.keyUsage # None => "keyCertSign" \in cert.keyUsage

Passes(i) ==
  /\ call.moment # Naive
  /\ InWindow(chain[i])
  /\ ~chain[i].unenforced
  /\ IF i = 1 THEN CheckLeaf(chain[i]) ELSE CheckCA(chain[i], i)

Reject ==
  /\ phase' = "rejected"
  /\ UNCHANGED <<call, chain, cursor, checked>>

\* One iteration of the loop over the certificates of the chain.
CheckCertificate ==
  /\ phase = "found"
  /\ checked < Len(chain)
  /\ \/ /\ Passes(checked + 1)
        /\ checked' = checked + 1
        /\ UNCHANGED <<call, phase, chain, cursor>>
     \/ ~Passes(checked + 1) /\ Reject

\* is_self_signed compares names only.
SelfSigned(cert) == cert.issuer = cert.subject

\* The last step: the sanity check of a self-signed anchor.
CheckAnchor ==
  /\ phase = "found"
  /\ checked = Len(chain)
  /\ LET sound == SelfSigned(Current) =>
                    VerifyIssuerSignature(Current, Current.key, call.allowWeak)
                      = "valid"
     IN  \/ /\ sound
            /\ phase' = "accepted"
            /\ UNCHANGED <<call, chain, cursor, checked>>
         \/ ~sound /\ Reject

Next ==
  \/ BuildChain
  \/ Enter
  \/ TryCandidate
  \/ Exhausted
  \/ CheckCertificate
  \/ CheckAnchor

\* The call is sequential code that nothing suspends.
Spec == Init /\ [][Next]_vars /\ WF_vars(Next)
=============================================================================
