--------------------------- MODULE X509PathProofs ----------------------------
(***************************************************************************)
(* Path building for every set of certificates, every bag of               *)
(* intermediates, every list of roots and every bound on the depth.        *)
(***************************************************************************)
EXTENDS X509PathProps, SequenceTheorems, FiniteSetTheorems, TLAPS

\* The certificates of the frames of _extend_path: a path that is no end yet.
Climb(path) ==
  /\ Len(path) <= MaxPathDepth + 2
  /\ path[1] = call.leaf
  /\ \A i \in 2 .. Len(path) : path[i] \in Elements(call.intermediates)
  /\ \A i \in 1 .. Len(path) - 1 : IsIssuer(path[i + 1], path[i])
  /\ \A i, j \in 1 .. Len(path) : path[i] = path[j] => i = j
  /\ \A i \in 1 .. Len(path) - 1 : ~Trusted(path[i])

\* A frame that has left its loops over the roots.
Settled ==
  Top > 0 => Len(chain) <= MaxPathDepth + 1 /\ ~Trusted(Current)

IInv ==
  /\ TypeOK
  /\ phase = "start" => chain = <<call.leaf>>
  /\ phase \in Searching => checked = 0
  /\ phase = "search" => Climb(chain) /\ ~IsAnchor(call.leaf) /\ Settled
  /\ PathFound

-----------------------------------------------------------------------------
(* Sequences.                                                              *)

LEMMA ChainType ==
  ASSUME TypeOK
  PROVE  /\ Len(chain) \in Nat \ {0}
         /\ \A i \in 1 .. Len(chain) : chain[i] \in Cert
         /\ Current \in Cert
         /\ call.leaf \in Cert
         /\ \A i \in DOMAIN call.intermediates : call.intermediates[i] \in Cert
         /\ \A i \in DOMAIN call.roots : call.roots[i] \in Cert
<1>1. chain \in Seq(Cert) /\ chain # <<>> /\ call \in Calls
  BY DEF TypeOK
<1>2. Len(chain) \in Nat \ {0}
  BY <1>1, EmptySeq
<1>3. \A i \in 1 .. Len(chain) : chain[i] \in Cert
  BY <1>1, ElementOfSeq
<1>4. Current \in Cert
  BY <1>2, <1>3 DEF Current
<1>5. /\ call.leaf \in Cert
      /\ call.intermediates \in Seq(Cert) /\ call.roots \in Seq(Cert)
  BY <1>1, CallsAssumption
<1>6. /\ \A i \in DOMAIN call.intermediates : call.intermediates[i] \in Cert
      /\ \A i \in DOMAIN call.roots : call.roots[i] \in Cert
  BY <1>5, ElementOfSeq, LenProperties
<1> QED BY <1>2, <1>3, <1>4, <1>5, <1>6

LEMMA PopFacts ==
  ASSUME NEW S, NEW s \in Seq(S), Len(s) > 1
  PROVE  /\ Pop(s) \in Seq(S)
         /\ Len(Pop(s)) = Len(s) - 1
         /\ Pop(s) # <<>>
         /\ \A i \in 1 .. Len(s) - 1 : Pop(s)[i] = s[i]
<1>1. Len(s) \in Nat /\ \A i \in 1 .. Len(s) - 1 : s[i] \in S
  BY LenProperties, ElementOfSeq
<1>2. /\ Pop(s) \in Seq(S)
      /\ Len(Pop(s)) = IF 1 <= Len(s) - 1 THEN Len(s) - 1 - 1 + 1 ELSE 0
      /\ \A i \in 1 .. Len(s) - 1 - 1 + 1 : Pop(s)[i] = s[1 + i - 1]
  BY <1>1, SubSeqProperties DEF Pop
<1>3. /\ Len(Pop(s)) = Len(s) - 1
      /\ \A i \in 1 .. Len(s) - 1 : Pop(s)[i] = s[i]
  BY <1>1, <1>2
<1> QED BY <1>1, <1>2, <1>3, EmptySeq

LEMMA AdvanceFacts ==
  ASSUME NEW s \in Seq(Nat), s # <<>>
  PROVE  /\ Advance(s) \in Seq(Nat)
         /\ Len(Advance(s)) = Len(s)
         /\ Advance(s)[Len(s)] = s[Len(s)] + 1
<1>1. Len(s) \in Nat \ {0} /\ DOMAIN s = 1 .. Len(s)
  BY EmptySeq, LenProperties
<1>2. s[Len(s)] \in Nat
  BY <1>1, ElementOfSeq
<1> QED BY <1>1, <1>2, ExceptSeq DEF Advance

-----------------------------------------------------------------------------
(* The arguments are fixed, so that a fact about a path stays one.         *)

LEMMA Carry ==
  ASSUME UNCHANGED call
  PROVE  /\ Climb(chain') => Climb(chain)'
         /\ IsPath(chain') => IsPath(chain)'
         /\ ~IsAnchor(call.leaf) => ~IsAnchor(call.leaf)'
BY DEF Climb, IsPath, Trusted, IsAnchor, IsIssuer

LEMMA ReturnNoneIInv ==
  ASSUME IInv, phase = "search", ReturnNone
  PROVE  IInv'
<1>0. Len(cursor) \in Nat
  BY LenProperties DEF IInv, TypeOK
<1>1. /\ Len(chain) \in Nat \ {0} /\ chain \in Seq(Cert)
      /\ cursor \in Seq(Nat) /\ Len(cursor) = Len(chain)
      /\ checked \in Nat /\ call \in Calls
  BY ChainType DEF IInv, TypeOK
<1>2. CASE Len(cursor) = 1
  <2>1. /\ phase' = "no path"
        /\ UNCHANGED <<call, chain, cursor, checked>>
    <3>1. ~(Len(cursor) > 1)
      BY <1>2
    <3> QED BY <1>2, <3>1, Zenon DEF ReturnNone
  <2>2. TypeOK'
    BY <2>1 DEF IInv, TypeOK, Phases, Failed
  <2> QED BY <2>1, <2>2 DEF IInv, PathFound, Built, Searching
<1>3. CASE Len(cursor) > 1
  <2>1. /\ chain' = Pop(chain) /\ cursor' = Advance(Pop(cursor))
        /\ UNCHANGED <<call, phase, checked>>
    <3>1. Len(cursor) # 1
      BY <1>0, <1>3
    <3> QED BY <1>3, <3>1, Zenon DEF ReturnNone
  <2>2. /\ chain' \in Seq(Cert) /\ chain' # <<>>
        /\ Len(chain') = Len(chain) - 1
        /\ \A i \in 1 .. Len(chain) - 1 : chain'[i] = chain[i]
    BY <1>1, <1>3, <2>1, PopFacts
  <2>3. cursor' \in Seq(Nat) /\ Len(cursor') = Len(chain')
    <3>1. Pop(cursor) \in Seq(Nat) /\ Pop(cursor) # <<>>
          /\ Len(Pop(cursor)) = Len(cursor) - 1
      BY <1>1, <1>3, PopFacts
    <3> QED BY <1>1, <2>1, <2>2, <3>1, AdvanceFacts
  <2>4. Climb(chain)
    BY DEF IInv
  <2>5. Climb(chain')
    BY <1>1, <1>3, <2>2, <2>4, DepthAssumption DEF Climb
  <2>6. ~Trusted(chain'[Len(chain')]) /\ Len(chain') <= MaxPathDepth + 1
    BY <1>1, <1>3, <2>2, <2>4, DepthAssumption DEF Climb
  <2>7. Settled'
    BY <2>1, <2>6 DEF Settled, Current, Trusted, IsAnchor, IsIssuer
  <2>8. TypeOK'
    <3>1. checked' \in 0 .. Len(chain')
      BY <1>1, <1>3, <2>1, <2>2 DEF IInv, Searching
    <3> QED BY <1>1, <2>1, <2>2, <2>3, <3>1 DEF IInv, TypeOK
  <2> QED BY <2>1, <2>5, <2>7, <2>8, Carry 
       DEF IInv, PathFound, Built, Searching
<1> QED BY <1>1, <1>2, <1>3 DEF ReturnNone

LEMMA InitIInv == Init => IInv
<1> SUFFICES ASSUME Init PROVE IInv
  OBVIOUS
<1>1. call \in Calls /\ call.leaf \in Cert
  BY CallsAssumption DEF Init
<1>2. chain \in Seq(Cert) /\ chain # <<>> /\ Len(chain) = 1
  BY <1>1 DEF Init
<1>3. TypeOK
  BY <1>1, <1>2, EmptySeq DEF Init, TypeOK, Phases, Searching
<1> QED BY <1>3 DEF Init, IInv, PathFound, Built, Searching

LEMMA BuildChainIInv == IInv /\ BuildChain => IInv'
<1> SUFFICES ASSUME IInv, BuildChain PROVE IInv'
  OBVIOUS
<1>1. /\ call \in Calls /\ chain = <<call.leaf>> /\ checked = 0
      /\ chain \in Seq(Cert) /\ chain # <<>>
      /\ Len(chain) = 1 /\ chain[1] = call.leaf
  BY DEF IInv, TypeOK, BuildChain, Searching
<1>2. UNCHANGED <<call, chain, checked>>
  BY DEF BuildChain, Found
<1>3. checked \in 0 .. Len(chain)
  BY <1>1
<1>4. CASE IsAnchor(call.leaf) /\ Found(chain)
  <2>1. IsPath(chain)
    BY <1>1, <1>4, DepthAssumption DEF IsPath
  <2>2. IsPath(chain)'
    BY <1>2, <2>1, Carry
  <2>3. phase' = "found" /\ cursor' = <<>>
    BY <1>4 DEF Found
  <2>4. TypeOK'
    BY <1>1, <1>2, <1>3, <2>3, EmptySeq DEF TypeOK, Phases, Built
  <2> QED BY <2>2, <2>3, <2>4 DEF IInv, PathFound, Searching
<1>5. CASE /\ ~IsAnchor(call.leaf)
           /\ phase' = "search"
           /\ cursor' = <<0>>
  <2>1. cursor' \in Seq(Nat) /\ Len(cursor') = 1 /\ cursor'[1] = 0
    BY <1>5
  <2>2. Climb(chain)
    BY <1>1, DepthAssumption DEF Climb
  <2>3. Climb(chain)' /\ ~IsAnchor(call.leaf)'
    BY <1>2, <1>5, <2>2, Carry
  <2>4. Settled'
    BY <2>1 DEF Settled, Top
  <2>5. TypeOK'
    BY <1>1, <1>2, <1>3, <1>5, <2>1 DEF TypeOK, Phases, Searching
  <2> QED BY <1>1, <1>2, <1>5, <2>3, <2>4, <2>5
          DEF IInv, PathFound, Built, Searching
<1> QED BY <1>4, <1>5 DEF BuildChain

\* The search ends at the current certificate, or with the root that issued it.
LEMMA FoundIInv ==
  ASSUME IInv, phase = "search", NEW path, Found(path),
         path \in Seq(Cert), Len(path) >= Len(chain), path # <<>>,
         IsPath(path)
  PROVE  IInv'
<1>1. /\ phase' = "found" /\ chain' = path /\ cursor' = <<>>
      /\ UNCHANGED <<call, checked>>
  BY DEF Found
<1>2. IsPath(chain)'
  BY <1>1, Carry
<1>3. checked' = 0 /\ Len(path) \in Nat
  BY <1>1, LenProperties DEF IInv, Searching
<1>4. TypeOK'
  <2>1. checked' \in 0 .. Len(chain')
    BY <1>1, <1>3
  <2> QED BY <1>1, <2>1, EmptySeq DEF IInv, TypeOK, Phases, Built
<1> QED BY <1>1, <1>2, <1>4 DEF IInv, PathFound, Searching

LEMMA AbortIInv == IInv /\ Abort => IInv'
<1> SUFFICES ASSUME IInv, Abort PROVE IInv'
  OBVIOUS
<1>1. TypeOK'
  BY DEF IInv, TypeOK, Abort, Phases, Failed
<1> QED BY <1>1 DEF IInv, Abort, PathFound, Built, Searching

LEMMA EnterIInv == IInv /\ Enter => IInv'
<1> SUFFICES ASSUME IInv, Enter PROVE IInv'
  OBVIOUS
<1>1. /\ phase = "search" /\ Climb(chain) /\ ~IsAnchor(call.leaf)
      /\ chain \in Seq(Cert) /\ call \in Calls
      /\ chain # <<>> /\ cursor \in Seq(Nat)
      /\ Len(cursor) = Len(chain)
  BY DEF IInv, TypeOK, Enter
<1>2. /\ Len(chain) \in Nat \ {0} /\ Current \in Cert
      /\ \A i \in DOMAIN call.roots : call.roots[i] \in Cert
  BY ChainType DEF IInv
<1>3. Len(cursor) \in Nat /\ cursor # <<>>
  BY <1>1, <1>2, LenProperties, EmptySeq
<1>4. CASE TooDeep /\ ReturnNone
  BY <1>1, <1>4, ReturnNoneIInv
<1>5. ASSUME ~TooDeep, NEW i \in First(Stops),
             IsIssuer(call.roots[i], Current),
             Found(Append(chain, call.roots[i]))
      PROVE  IInv'
  <2> DEFINE root == call.roots[i]
             path == Append(chain, root)
  <2>1. root \in Cert /\ root \in Elements(call.roots)
    BY <1>2, <1>5 DEF First, Stops, Elements
  <2>2. /\ path \in Seq(Cert) /\ path # <<>> /\ Len(path) = Len(chain) + 1
        /\ \A k \in 1 .. Len(chain) : path[k] = chain[k]
        /\ path[Len(chain) + 1] = root
    BY <1>1, <2>1, AppendProperties
  <2>3. IsAnchor(root)
    BY <2>1 DEF IsAnchor, SameEntity
  <2>4. Trusted(Current) /\ chain[Len(chain)] = Current
    BY <1>5, <2>1 DEF Trusted, Current
  <2>5. \A k \in 1 .. Len(chain) : chain[k] # root
    <3>1. \A k \in 1 .. Len(chain) - 1 : chain[k] # root
      BY <1>1, <2>3 DEF Climb, Trusted
    <3>2. chain[Len(chain)] # root
      <4>1. CASE Len(chain) = 1
        BY <1>1, <2>3, <4>1 DEF Climb
      <4>2. CASE Len(chain) > 1
        <5> SUFFICES ASSUME chain[Len(chain)] = root PROVE FALSE
          OBVIOUS
        <5>1. IsIssuer(root, chain[Len(chain) - 1])
          BY <1>1, <1>2, <4>2 DEF Climb
        <5>2. ~Trusted(chain[Len(chain) - 1])
          BY <1>1, <1>2, <4>2 DEF Climb
        <5> QED BY <2>1, <5>1, <5>2 DEF Trusted
      <4>3. Len(chain) \in Nat \ {0}
        BY <1>2
      <4>4. Len(chain) = 1 \/ Len(chain) > 1
        BY <4>3
      <4> QED BY <4>1, <4>2, <4>4
    <3> QED BY <1>2, <3>1, <3>2
  <2> HIDE DEF root, path
  <2>6. Len(path) <= MaxPathDepth + 2
    BY <1>2, <1>5, <2>2, DepthAssumption DEF TooDeep
  <2>7. IsIssuer(root, chain[Len(chain)])
    BY <1>5, <2>4 DEF root
  <2>8. /\ path[1] = call.leaf
        /\ \A k \in 2 .. Len(path) - 1 : path[k] \in Elements(call.intermediates)
        /\ \A k \in 1 .. Len(path) - 2 : ~Trusted(path[k])
    BY <1>1, <1>2, <2>2 DEF Climb
  <2>9. \A k \in 1 .. Len(path) - 1 : IsIssuer(path[k + 1], path[k])
    BY <1>1, <1>2, <2>2, <2>7 DEF Climb
  <2>10. \A j, k \in 1 .. Len(path) : path[j] = path[k] => j = k
    BY <1>1, <1>2, <2>2, <2>5 DEF Climb
  <2>11. IsPath(path)
    BY <1>2, <2>2, <2>3, <2>6, <2>8, <2>9, <2>10 DEF IsPath
  <2>12. Found(path) /\ Len(path) >= Len(chain)
    BY <1>2, <1>5, <2>2 DEF path, root
  <2> QED BY <1>1, <2>2, <2>11, <2>12, FoundIInv
<1>6. CASE ~TooDeep /\ IsAnchor(Current) /\ Found(chain)
  <2>1. IsPath(chain)
    BY <1>1, <1>2, <1>6, DepthAssumption DEF IsPath, Climb, TooDeep, Current
  <2> QED BY <1>1, <1>2, <1>6, <2>1, FoundIInv
<1>7. CASE /\ ~TooDeep
           /\ Stops = {}
           /\ ~IsAnchor(Current)
           /\ cursor' = Advance(cursor)
           /\ UNCHANGED <<call, phase, chain, checked>>
  <2>1. ~Trusted(Current)
    <3>1. \A root \in Elements(call.roots) : ~IsIssuer(root, Current)
      BY <1>7 DEF Stops, Elements, IsIssuer
    <3> QED BY <1>7, <3>1 DEF Trusted
  <2>2. Settled'
    <3>1. Trusted(Current)' <=> Trusted(Current)
      BY <1>7 DEF Trusted, Current, IsAnchor, IsIssuer
    <3>2. Len(chain') <= MaxPathDepth + 1
      BY <1>2, <1>7, DepthAssumption DEF TooDeep
    <3> QED BY <2>1, <3>1, <3>2 DEF Settled
  <2>3. cursor' \in Seq(Nat) /\ Len(cursor') = Len(chain')
    BY <1>1, <1>3, <1>7, AdvanceFacts
  <2>4. TypeOK'
    BY <1>7, <2>3 DEF IInv, TypeOK
  <2>5. Climb(chain)' /\ ~IsAnchor(call.leaf)'
    BY <1>1, <1>7, Carry
  <2> QED BY <1>1, <1>7, <2>2, <2>4, <2>5 DEF IInv, PathFound, Built, Searching
<1> QED BY <1>4, <1>5, <1>6, <1>7, AbortIInv DEF Enter

\* _extend_path calls itself for a candidate that it has not passed yet.
LEMMA RecurseIInv ==
  ASSUME IInv, phase = "search", Top \in DOMAIN call.intermediates,
         NEW cand, cand = call.intermediates[Top],
         cand \notin Elements(chain), IsIssuer(cand, Current), Recurse(cand)
  PROVE  IInv'
<1>1. /\ Climb(chain) /\ chain \in Seq(Cert) /\ call \in Calls
      /\ cursor \in Seq(Nat) /\ Len(cursor) = Len(chain)
      /\ checked = 0
  BY DEF IInv, TypeOK, Searching
<1>2. /\ Len(chain) \in Nat \ {0}
      /\ \A i \in DOMAIN call.intermediates : call.intermediates[i] \in Cert
  BY ChainType DEF IInv
<1>3. /\ Top > 0 /\ Top \in Nat
  <2>1. call.intermediates \in Seq(Cert)
    BY <1>1, CallsAssumption
  <2>2. DOMAIN call.intermediates = 1 .. Len(call.intermediates)
    BY <2>1, LenProperties
  <2> QED BY <2>2
<1>4. Len(chain) <= MaxPathDepth + 1 /\ ~Trusted(Current)
  BY <1>3 DEF IInv, Settled
<1>5. cand \in Cert /\ cand \in Elements(call.intermediates)
  BY <1>2 DEF Elements
<1>6. /\ chain' = Append(chain, cand) /\ cursor' = Append(cursor, 0)
      /\ UNCHANGED <<call, phase, checked>>
  BY DEF Recurse
<1>7. /\ chain' \in Seq(Cert) /\ chain' # <<>> /\ Len(chain') = Len(chain) + 1
      /\ \A k \in 1 .. Len(chain) : chain'[k] = chain[k]
      /\ chain'[Len(chain) + 1] = cand
  BY <1>1, <1>5, <1>6, AppendProperties
<1>8. /\ cursor' \in Seq(Nat) /\ Len(cursor') = Len(chain')
      /\ cursor'[Len(cursor')] = 0
  BY <1>1, <1>6, <1>7, AppendProperties
<1>9. \A k \in 1 .. Len(chain) : chain[k] # cand
  <2>1. DOMAIN chain = 1 .. Len(chain)
    BY <1>1, LenProperties
  <2> QED BY <2>1 DEF Elements
<1>10. Climb(chain')
  <2>0. \A i \in 1 .. Len(chain') : i \in 1 .. Len(chain) \/ i = Len(chain) + 1
    BY <1>2, <1>7
  <2>1. /\ Len(chain') <= MaxPathDepth + 2
        /\ chain'[1] = call.leaf
        /\ \A i \in 2 .. Len(chain') : chain'[i] \in Elements(call.intermediates)
    <3>1. Len(chain') <= MaxPathDepth + 2
      BY <1>2, <1>4, <1>7, DepthAssumption
    <3>2. chain'[1] = call.leaf
      BY <1>1, <1>2, <1>7 DEF Climb
    <3>3. ASSUME NEW i \in 2 .. Len(chain')
          PROVE  chain'[i] \in Elements(call.intermediates)
      <4>1. CASE i = Len(chain) + 1
        BY <1>5, <1>7, <4>1
      <4>2. CASE i \in 1 .. Len(chain)
        BY <1>1, <1>2, <1>7, <4>2 DEF Climb
      <4> QED BY <1>2, <1>7, <2>0, <4>1, <4>2
    <3> QED BY <3>1, <3>2, <3>3
  <2>2. \A i \in 1 .. Len(chain') - 1 : IsIssuer(chain'[i + 1], chain'[i])
    BY <1>1, <1>2, <1>7 DEF Climb, Current
  <2>3. \A i, j \in 1 .. Len(chain') : chain'[i] = chain'[j] => i = j
    <3>1. \A i, j \in 1 .. Len(chain) : chain[i] = chain[j] => i = j
      BY <1>1 DEF Climb
    <3>2. \A i \in 1 .. Len(chain) : chain'[i] # chain'[Len(chain) + 1]
      BY <1>7, <1>9
    <3> QED BY <1>7, <2>0, <3>1, <3>2
  <2>4. \A i \in 1 .. Len(chain') - 1 : ~Trusted(chain'[i])
    BY <1>1, <1>2, <1>4, <1>7 DEF Climb, Current
  <2> QED BY <2>1, <2>2, <2>3, <2>4 DEF Climb
<1>11. Settled'
  BY <1>8 DEF Settled, Top
<1>12. TypeOK'
  <2>1. checked' \in 0 .. Len(chain')
    BY <1>1, <1>2, <1>6, <1>7
  <2> QED BY <1>1, <1>6, <1>7, <1>8, <2>1 DEF IInv, TypeOK
<1> QED BY <1>1, <1>6, <1>10, <1>11, <1>12, Carry
        DEF IInv, PathFound, Built, Searching

LEMMA TryCandidateIInv == IInv /\ TryCandidate => IInv'
<1> SUFFICES ASSUME IInv, TryCandidate PROVE IInv'
  OBVIOUS
<1>1. /\ phase = "search" /\ Top \in DOMAIN call.intermediates
      /\ cursor \in Seq(Nat) /\ Len(cursor) = Len(chain)
      /\ Climb(chain) /\ ~IsAnchor(call.leaf) /\ Settled
  BY DEF IInv, TypeOK, TryCandidate
<1>2. Len(chain) \in Nat \ {0} /\ Len(cursor) \in Nat /\ cursor # <<>>
  <2>1. Len(chain) \in Nat \ {0}
    BY ChainType DEF IInv
  <2> QED BY <1>1, <2>1, EmptySeq
<1>3. Top > 0
  <2>1. call.intermediates \in Seq(Cert)
    BY CallsAssumption DEF IInv, TypeOK
  <2>2. DOMAIN call.intermediates = 1 .. Len(call.intermediates)
    BY <2>1, LenProperties
  <2> QED BY <1>1, <2>2
<1>4. CASE cursor' = Advance(cursor) /\ UNCHANGED <<call, phase, chain, checked>>
  <2>1. cursor' \in Seq(Nat) /\ Len(cursor') = Len(chain')
    BY <1>1, <1>2, <1>4, AdvanceFacts
  <2>2. TypeOK'
    BY <1>4, <2>1 DEF IInv, TypeOK
  <2>3. Settled'
    <3>1. Trusted(Current)' <=> Trusted(Current)
      BY <1>4 DEF Trusted, Current, IsAnchor, IsIssuer
    <3> QED BY <1>1, <1>3, <1>4, <3>1 DEF Settled
  <2>4. Climb(chain)' /\ ~IsAnchor(call.leaf)'
    BY <1>1, <1>4, Carry
  <2> QED BY <1>1, <1>4, <2>2, <2>3, <2>4
          DEF IInv, PathFound, Built, Searching
<1>5. ASSUME NEW cand, cand = call.intermediates[Top],
             cand \notin Elements(chain), IsIssuer(cand, Current), Recurse(cand)
      PROVE  IInv'
  BY <1>1, <1>5, RecurseIInv
<1> QED BY <1>4, <1>5, AbortIInv DEF TryCandidate, IsIssuer

LEMMA CheckIInv == IInv /\ (CheckCertificate \/ CheckAnchor) => IInv'
<1> SUFFICES ASSUME IInv, CheckCertificate \/ CheckAnchor PROVE IInv'
  OBVIOUS
<1>1. phase = "found" /\ IsPath(chain) /\ UNCHANGED <<call, chain, cursor>>
  BY DEF IInv, PathFound, Built, CheckCertificate, CheckAnchor, Reject
<1>2. IsPath(chain)'
  BY <1>1, Carry
<1>3. phase' \in {"found", "accepted", "rejected"}
  BY DEF CheckCertificate, CheckAnchor, Reject
<1>4. checked' \in 0 .. Len(chain)
  <2>1. Len(chain) \in Nat \ {0}
    BY ChainType DEF IInv
  <2>2. checked' = checked \/ (checked < Len(chain) /\ checked' = checked + 1)
    BY DEF CheckCertificate, CheckAnchor, Reject
  <2> QED BY <2>1, <2>2 DEF IInv, TypeOK
<1>5. TypeOK'
  BY <1>1, <1>3, <1>4 DEF IInv, TypeOK, Phases, Built
<1> QED BY <1>1, <1>2, <1>3, <1>5 DEF IInv, PathFound, Built, Searching

-----------------------------------------------------------------------------
(* What an accepted chain has passed.                                        *)

\* What has been checked has passed.
ChecksKept ==
  /\ phase \in {"found", "accepted"} => \A i \in 1 .. checked : Passes(i)
  /\ phase = "accepted" => checked = Len(chain)

\* The search leaves nothing checked, and the chain is fixed once it has ended.
LEMMA ChecksKeptStep == IInv /\ ChecksKept /\ [Next]_vars => ChecksKept'
<1> SUFFICES ASSUME IInv, ChecksKept, [Next]_vars PROVE ChecksKept'
  OBVIOUS
<1>1. CASE phase \in Searching /\ Next
  <2>1. checked' = 0 /\ phase' # "accepted"
    <3>1. checked = 0
      BY <1>1 DEF IInv
    <3> QED BY <1>1, <3>1 DEF Next, Searching, BuildChain, Enter, TryCandidate, Exhausted,
              CheckCertificate, CheckAnchor, Found, Abort, ReturnNone, Recurse
  <2> QED BY <2>1 DEF ChecksKept
<1>2. CASE CheckCertificate \/ CheckAnchor
  <2>1. /\ phase = "found" /\ UNCHANGED <<call, chain>>
        /\ \A i \in 1 .. checked : Passes(i)
    BY <1>2 DEF CheckCertificate, CheckAnchor, Reject, ChecksKept
  <2>2. \A i : Passes(i)' <=> Passes(i)
    BY <2>1 DEF Passes, InWindow, CheckLeaf, CheckCA, CasBelow
  <2>3. checked \in Nat
    BY ChainType DEF IInv, TypeOK
  <2>4. CASE Passes(checked + 1) /\ checked' = checked + 1 /\ UNCHANGED phase
    <3>1. \A i \in 1 .. checked + 1 : i \in 1 .. checked \/ i = checked + 1
      BY <2>3
    <3> QED BY <2>1, <2>2, <2>4, <3>1 DEF ChecksKept
  <2>5. CASE checked = Len(chain) /\ phase' = "accepted" /\ UNCHANGED checked
    BY <2>1, <2>2, <2>5 DEF ChecksKept
  <2>6. CASE Reject
    BY <2>6 DEF Reject, ChecksKept
  <2> QED BY <1>2, <2>4, <2>5, <2>6 DEF CheckCertificate, CheckAnchor
<1>3. CASE UNCHANGED vars
  BY <1>3 DEF vars, ChecksKept, Passes, InWindow, CheckLeaf, CheckCA, CasBelow
<1>4. Next => phase \in Searching \/ CheckCertificate \/ CheckAnchor
  BY DEF Next, BuildChain, Enter, TryCandidate, Exhausted, Searching
<1> QED BY <1>1, <1>2, <1>3, <1>4

\* Below an issuer every certificate but the leaf counts as a CA.
LEMMA CasBelowAll ==
  ASSUME NEW i \in Nat, i >= 2, \A j \in 2 .. i - 1 : IsCA(chain[j])
  PROVE  CasBelow(i) = i - 2
<1>1. {j \in 2 .. i - 1 : IsCA(chain[j])} = 2 .. i - 1
  OBVIOUS
<1>2. Cardinality(2 .. i - 1) = IF 2 > i - 1 THEN 0 ELSE (i - 1) - 2 + 1
  BY FS_Interval
<1>3. (IF 2 > i - 1 THEN 0 ELSE (i - 1) - 2 + 1) = i - 2
  OBVIOUS
<1> QED BY <1>1, <1>2, <1>3 DEF CasBelow

LEMMA ChecksSuffice == IInv /\ ChecksKept => AcceptedIsValid
<1> SUFFICES ASSUME IInv, ChecksKept, phase = "accepted" PROVE AcceptedIsValid
  BY DEF AcceptedIsValid
<1>1. Len(chain) \in Nat \ {0} /\ \A i \in 1 .. Len(chain) : Passes(i)
  BY ChainType DEF IInv, ChecksKept
<1>2. \A i \in 1 .. Len(chain) : InWindow(chain[i]) /\ ~chain[i].unenforced
  BY <1>1 DEF Passes
<1>3. \A i \in 2 .. Len(chain) : CheckCA(chain[i], i)
  BY <1>1 DEF Passes
<1>4. \A i \in 2 .. Len(chain) - 1 : IsCA(chain[i])
  BY <1>1, <1>3 DEF CheckCA, IsCA
<1>5. \A i \in 2 .. Len(chain) : CasBelow(i) = i - 2
  BY <1>1, <1>4, CasBelowAll
<1>6. \A i \in 2 .. Len(chain) :
        /\ chain[i].bc # None =>
             /\ chain[i].bc.ca
             /\ chain[i].bc.pathLength # None => chain[i].bc.pathLength >= i - 2
        /\ chain[i].keyUsage # None => "keyCertSign" \in chain[i].keyUsage
  BY <1>3, <1>5 DEF CheckCA
<1> QED BY <1>2, <1>4, <1>6 DEF AcceptedIsValid

-----------------------------------------------------------------------------
(* The depth-first search misses no path.                                    *)

\* A path without repetition that the intermediates continue from the leaf, each of its
\* certificates issued by the next.
Walk(p) ==
  /\ Len(p) >= 1 /\ p[1] = call.leaf
  /\ \A i \in 2 .. Len(p) : p[i] \in Elements(call.intermediates)
  /\ \A i \in 1 .. Len(p) - 1 : IsIssuer(p[i + 1], p[i])
  /\ \A i, j \in 1 .. Len(p) : p[i] = p[j] => i = j

\* One that build_chain has to end with success.
Good(p) == Walk(p) /\ Len(p) <= MaxPathDepth + 1 /\ Trusted(p[Len(p)])

\* p begins with the certificates of the first n frames.
Follows(p, n) == Len(p) >= n /\ \A i \in 1 .. n : p[i] = chain[i]

\* No good path goes from frame n on to a candidate that the frame has tried.
Explored(n) ==
  \A p \in Seq(Cert) :
    Good(p) /\ Follows(p, n) /\ Len(p) > n =>
      \A k \in DOMAIN call.intermediates : k < cursor[n] => p[n + 1] # call.intermediates[k]

\* The frame above frame n is the call for the candidate at its cursor.
Linked(n) ==
  /\ cursor[n] \in DOMAIN call.intermediates
  /\ chain[n + 1] = call.intermediates[cursor[n]]

NothingMissed ==
  /\ phase = "search" =>
       /\ \A n \in 1 .. Len(cursor) : Explored(n)
       /\ \A n \in 1 .. Len(cursor) - 1 : Linked(n)
  /\ phase = "no path" => \A p \in Seq(Cert) : ~Good(p)

\* When the last frame returns None.
GivesUp == TooDeep \/ Top > Len(call.intermediates)

\* The arguments are fixed, and so are the good paths.
LEMMA GoodIsFixed ==
  ASSUME UNCHANGED call, NEW p
  PROVE  Good(p)' <=> Good(p)
BY DEF Good, Walk, Trusted, IsAnchor, IsIssuer

\* A frame returns None only when no good path continues its chain.
LEMMA NoneMeansNone ==
  ASSUME IInv, NothingMissed, phase = "search",
         GivesUp, NEW p \in Seq(Cert), Good(p), Follows(p, Len(chain))
  PROVE  FALSE
<1>1. /\ Len(chain) \in Nat \ {0} /\ Len(cursor) = Len(chain) /\ Len(p) \in Nat
      /\ Len(p) >= Len(chain) /\ Len(p) <= MaxPathDepth + 1
  BY ChainType, LenProperties DEF IInv, TypeOK, Follows, Good
<1>2. CASE TooDeep
  BY <1>1, <1>2, DepthAssumption DEF TooDeep
<1>3. CASE Top > Len(call.intermediates)
  <2>1. /\ call.intermediates \in Seq(Cert) /\ Len(call.intermediates) \in Nat
        /\ DOMAIN call.intermediates = 1 .. Len(call.intermediates)
    BY CallsAssumption, LenProperties DEF IInv, TypeOK
  <2>2. Top \in Nat
    BY <1>1, ElementOfSeq DEF IInv, TypeOK, Top
  <2>3. ~Trusted(Current)
    BY <1>3, <2>1, <2>2 DEF IInv, Settled
  <2>4. CASE Len(p) = Len(chain)
    BY <1>1, <2>3, <2>4 DEF Good, Follows, Current
  <2>5. CASE Len(p) > Len(chain)
    <3>1. p[Len(chain) + 1] \in Elements(call.intermediates)
      BY <1>1, <2>5 DEF Good, Walk
    <3>2. PICK k \in DOMAIN call.intermediates : p[Len(chain) + 1] = call.intermediates[k]
      BY <3>1 DEF Elements
    <3>3. k < cursor[Len(chain)]
      BY <1>1, <1>3, <2>1, <2>2, <3>2 DEF Top
    <3>4. Explored(Len(chain))
      BY <1>1 DEF NothingMissed
    <3> QED BY <2>5, <3>2, <3>3, <3>4 DEF Explored
  <2> QED BY <1>1, <2>4, <2>5
<1> QED BY <1>2, <1>3 DEF GivesUp

\* A candidate at the top's cursor on which no good path goes on has been tried.
LEMMA AdvanceExplored ==
  ASSUME NEW n \in Nat, NEW c \in Nat, Explored(n), cursor[n] = c,
         UNCHANGED call, cursor'[n] = c + 1, \A i \in 1 .. n : chain'[i] = chain[i],
         call.intermediates \in Seq(Cert),
         \A p \in Seq(Cert) :
           Good(p) /\ Follows(p, n) /\ Len(p) > n /\ c \in DOMAIN call.intermediates =>
             p[n + 1] # call.intermediates[c]
  PROVE  Explored(n)'
<1>1. DOMAIN call.intermediates = 1 .. Len(call.intermediates) /\ Len(call.intermediates) \in Nat
  BY LenProperties
<1>2. SUFFICES ASSUME NEW p \in Seq(Cert), Good(p), Follows(p, n), Len(p) > n,
                      NEW k \in DOMAIN call.intermediates, k < c + 1
               PROVE  p[n + 1] # call.intermediates[k]
  BY GoodIsFixed DEF Explored, Follows
<1>3. k < c \/ k = c
  BY <1>1, <1>2
<1> QED BY <1>2, <1>3 DEF Explored

LEMMA ReturnNoneMissesNothing ==
  ASSUME IInv, NothingMissed, phase = "search", ReturnNone,
         GivesUp
  PROVE  NothingMissed'
<1>0. Len(cursor) \in Nat
  BY LenProperties DEF IInv, TypeOK
<1>1. /\ Len(chain) \in Nat \ {0} /\ chain \in Seq(Cert)
      /\ cursor \in Seq(Nat) /\ Len(cursor) = Len(chain) /\ call.intermediates \in Seq(Cert)
  BY ChainType, CallsAssumption DEF IInv, TypeOK
<1>2. CASE Len(cursor) = 1
  <2>1. phase' = "no path" /\ UNCHANGED call
    <3>1. ~(Len(cursor) > 1)
      BY <1>2
    <3> QED BY <1>2, <3>1, Zenon DEF ReturnNone
  <2>2. ASSUME NEW p \in Seq(Cert), Good(p) PROVE FALSE
    <3>1. Follows(p, Len(chain))
      <4>1. chain[1] = call.leaf
        BY DEF IInv, Climb
      <4>2. \A i \in 1 .. Len(chain) : i = 1
        BY <1>1, <1>2
      <4>. QED BY <1>1, <1>2, <2>2, <4>1, <4>2 DEF Follows, Good, Walk
    <3> QED BY <2>2, <3>1, NoneMeansNone
  <2> QED BY <2>1, <2>2, GoodIsFixed DEF NothingMissed
<1>3. CASE Len(cursor) > 1
  <2>1. /\ chain' = Pop(chain) /\ cursor' = Advance(Pop(cursor))
        /\ UNCHANGED <<call, phase>>
    <3>1. ASSUME Len(cursor) = 1 PROVE FALSE
      BY <1>0, <1>3, <3>1
    <3> QED BY <1>3, <3>1, Zenon DEF ReturnNone
  <2>2. PICK m \in Nat \ {0} : m + 1 = Len(chain) /\ m + 1 = Len(cursor)
    <3>1. Len(chain) - 1 \in Nat \ {0} /\ (Len(chain) - 1) + 1 = Len(chain)
      BY <1>1, <1>3
    <3> QED BY <1>1, <3>1
  <2>3. Len(chain') = m /\ \A i \in 1 .. m : chain'[i] = chain[i]
    <3>1. Len(chain) > 1 /\ Len(chain) - 1 = m
      BY <1>1, <1>3, <2>2
    <3>2. /\ Len(Pop(chain)) = Len(chain) - 1
          /\ \A i \in 1 .. Len(chain) - 1 : Pop(chain)[i] = chain[i]
      BY <1>1, <3>1, PopFacts
    <3> QED BY <2>1, <3>1, <3>2
  <2>4. /\ Pop(cursor) \in Seq(Nat) /\ Pop(cursor) # <<>> /\ Len(Pop(cursor)) = m
        /\ \A i \in 1 .. m : Pop(cursor)[i] = cursor[i]
    BY <1>1, <1>3, <2>2, PopFacts
  <2>5. /\ Len(cursor') = m /\ cursor'[m] = cursor[m] + 1
        /\ \A i \in 1 .. m - 1 : cursor'[i] = cursor[i]
    <3>1. Len(Pop(cursor)) \in Nat \ {0} /\ \A i \in 1 .. m : cursor[i] \in Nat
      BY <1>1, <2>2, <2>4, ElementOfSeq
    <3>2. /\ m \in 1 .. Len(Pop(cursor)) /\ cursor[m] + 1 \in Nat
          /\ Advance(Pop(cursor)) = [Pop(cursor) EXCEPT ![m] = cursor[m] + 1]
      <4>1. m \in 1 .. m /\ Pop(cursor)[m] = cursor[m] /\ cursor[m] \in Nat
        BY <2>2, <2>4, <3>1
      <4> QED BY <2>2, <2>4, <4>1 DEF Advance
    <3>3. /\ Len(Advance(Pop(cursor))) = m
          /\ \A j \in 1 .. m : Advance(Pop(cursor))[j] = IF j = m THEN cursor[m] + 1 ELSE Pop(cursor)[j]
      BY <2>4, <3>2, ExceptSeq
    <3> QED BY <2>1, <2>2, <2>4, <3>3
  <2>6. \A n \in 1 .. m - 1 : Explored(n)' /\ Linked(n)'
    <3> TAKE n \in 1 .. m - 1
    <3>1. Explored(n) /\ Linked(n)
      BY <2>2 DEF NothingMissed
    <3>2. cursor'[n] = cursor[n] /\ \A i \in 1 .. n + 1 : chain'[i] = chain[i]
      BY <2>2, <2>3, <2>5
    <3>3. Linked(n)'
      BY <2>1, <2>2, <3>1, <3>2 DEF Linked
    <3>4. \A p : Follows(p, n)' <=> Follows(p, n)
      <4>1. \A i \in 1 .. n : chain'[i] = chain[i]
        BY <2>2, <3>2
      <4> QED BY <4>1 DEF Follows
    <3>5. Explored(n)'
      BY <2>1, <3>1, <3>2, <3>4, GoodIsFixed DEF Explored
    <3> QED BY <3>3, <3>5
  <2>7. Explored(m)'
    <3>1. Explored(m) /\ Linked(m) /\ cursor[m] \in Nat
      BY <1>1, <2>2, ElementOfSeq DEF NothingMissed
    <3>2. ASSUME NEW p \in Seq(Cert), Good(p), Follows(p, m), Len(p) > m,
                 p[m + 1] = call.intermediates[cursor[m]]
          PROVE  FALSE
      <4>1. Len(p) \in Nat
        BY LenProperties
      <4>2. \A i \in 1 .. m + 1 : i \in 1 .. m \/ i = m + 1
        BY <2>2
      <4>3. Follows(p, m + 1)
        BY <2>2, <3>1, <3>2, <4>1, <4>2 DEF Follows, Linked
      <4> QED BY <2>2, <3>2, <4>3, NoneMeansNone
    <3> QED BY <1>1, <2>1, <2>2, <2>3, <2>5, <3>1, <3>2, AdvanceExplored
  <2>8. \A n \in 1 .. m : n \in 1 .. m - 1 \/ n = m
    BY <2>2
  <2>9. phase' = "search"
    BY <2>1
  <2> QED BY <2>5, <2>6, <2>7, <2>8, <2>9 DEF NothingMissed
<1> QED BY <1>1, <1>2, <1>3

\* The cursor of the last frame goes past a candidate, or past the roots.
LEMMA CursorMissesNothing ==
  ASSUME IInv, NothingMissed, phase = "search",
         cursor' = Advance(cursor), UNCHANGED <<call, phase, chain>>,
         \A p \in Seq(Cert) :
           Good(p) /\ Follows(p, Len(chain)) /\ Len(p) > Len(chain)
             /\ Top \in DOMAIN call.intermediates => p[Len(chain) + 1] # call.intermediates[Top]
  PROVE  NothingMissed'
<1>1. /\ Len(chain) \in Nat \ {0} /\ call.intermediates \in Seq(Cert)
      /\ cursor \in Seq(Nat) /\ Len(cursor) = Len(chain) /\ cursor # <<>>
  BY ChainType, CallsAssumption, EmptySeq DEF IInv, TypeOK
<1>0. PICK m \in Nat \ {0} : m = Len(chain)
  BY <1>1
<1>2. Top = cursor[m] /\ Top \in Nat
  BY <1>0, <1>1, ElementOfSeq DEF Top
<1>3. /\ Len(cursor') = m /\ cursor'[m] = cursor[m] + 1
      /\ \A i \in 1 .. m - 1 : cursor'[i] = cursor[i]
  <2>1. m \in 1 .. Len(cursor) /\ cursor[m] + 1 \in Nat /\ Len(cursor) = m
    BY <1>0, <1>1, <1>2
  <2>2. cursor' = [cursor EXCEPT ![m] = cursor[m] + 1]
    BY <2>1 DEF Advance
  <2>3. /\ Len(cursor') = m
        /\ \A j \in 1 .. m : cursor'[j] = IF j = m THEN cursor[m] + 1 ELSE cursor[j]
    BY <1>1, <2>1, <2>2, ExceptSeq
  <2> QED BY <1>2, <2>3
<1>4. \A n \in 1 .. m - 1 : Explored(n)' /\ Linked(n)'
  <2> TAKE n \in 1 .. m - 1
  <2>1. Explored(n) /\ Linked(n) /\ cursor'[n] = cursor[n]
    BY <1>0, <1>1, <1>2, <1>3 DEF NothingMissed
  <2>2. Linked(n)'
    BY <2>1 DEF Linked
  <2>3. Explored(n)'
    BY <2>1, GoodIsFixed DEF Explored, Follows
  <2> QED BY <2>2, <2>3
<1>5. Explored(m)'
  <2>1. Explored(m)
    BY <1>0, <1>1, <1>2 DEF NothingMissed
  <2>2. \A p \in Seq(Cert) :
           Good(p) /\ Follows(p, m) /\ Len(p) > m /\ Top \in DOMAIN call.intermediates =>
             p[m + 1] # call.intermediates[Top]
    BY <1>0
  <2> QED BY <1>0, <1>1, <1>2, <1>3, <2>1, <2>2, AdvanceExplored
<1>6. \A n \in 1 .. m : n \in 1 .. m - 1 \/ n = m
  BY <1>2
<1>7. phase' = "search"
  OBVIOUS
<1> QED BY <1>3, <1>4, <1>5, <1>6, <1>7 DEF NothingMissed

LEMMA RecurseMissesNothing ==
  ASSUME IInv, NothingMissed, phase = "search", Top \in DOMAIN call.intermediates,
         Recurse(call.intermediates[Top])
  PROVE  NothingMissed'
<1>0. PICK m \in Nat \ {0} : m = Len(chain)
  BY ChainType DEF IInv
<1> DEFINE cand == call.intermediates[Top]
<1>1. /\ chain \in Seq(Cert) /\ cursor \in Seq(Nat) /\ Len(cursor) = m /\ m \in Nat \ {0}
      /\ cand \in Cert /\ Top = cursor[m]
  BY <1>0, ChainType DEF IInv, TypeOK, Top
<1>2. /\ chain' = Append(chain, cand) /\ cursor' = Append(cursor, 0) /\ UNCHANGED <<call, phase>>
  BY DEF Recurse
<1>3. /\ \A i \in 1 .. m : chain'[i] = chain[i]
      /\ chain'[m + 1] = cand
  BY <1>0, <1>1, <1>2, AppendProperties
<1>4. /\ Len(cursor') = m + 1 /\ cursor'[m + 1] = 0
      /\ \A i \in 1 .. m : cursor'[i] = cursor[i]
  BY <1>1, <1>2, AppendProperties
<1>. HIDE DEF cand
<1>5. ASSUME NEW n \in 1 .. m PROVE Explored(n)'
  <2>1. Explored(n) /\ cursor'[n] = cursor[n] /\ \A i \in 1 .. n : chain'[i] = chain[i]
    BY <1>1, <1>3, <1>4, <1>5 DEF NothingMissed
  <2>2. \A p : Follows(p, n)' <=> Follows(p, n)
    BY <2>1 DEF Follows
  <2> QED BY <1>2, <2>1, <2>2, GoodIsFixed DEF Explored
<1>6. ASSUME NEW n \in 1 .. m PROVE Linked(n)'
  <2>1. CASE n = m
    BY <1>1, <1>2, <1>3, <1>4, <1>6, <2>1 DEF Linked, cand
  <2>2. CASE n \in 1 .. m - 1
    <3>1. Linked(n) /\ n \in 1 .. m /\ n + 1 \in 1 .. m
      BY <1>1, <2>2 DEF NothingMissed
    <3> QED BY <1>2, <1>3, <1>4, <3>1 DEF Linked
  <2> QED BY <1>1, <2>1, <2>2
<1>7. Explored(m + 1)'
  <2>1. DOMAIN call.intermediates = 1 .. Len(call.intermediates) /\ Len(call.intermediates) \in Nat
    BY CallsAssumption, LenProperties DEF IInv, TypeOK
  <2>2. \A k \in DOMAIN call.intermediates' : ~(k < cursor'[m + 1])
    BY <1>2, <1>4, <2>1
  <2> QED BY <2>2 DEF Explored
<1>8. /\ \A n \in 1 .. Len(cursor') : n \in 1 .. m \/ n = m + 1
      /\ \A n \in 1 .. Len(cursor') - 1 : n \in 1 .. m
  BY <1>1, <1>4
<1>9. phase' = "search"
  BY <1>2
<1> QED BY <1>5, <1>6, <1>7, <1>8, <1>9 DEF NothingMissed

\* The search ends in another way: nothing is claimed.
LEMMA EndMissesNothing ==
  ASSUME phase' \notin {"search", "no path"}
  PROVE  NothingMissed'
BY DEF NothingMissed

LEMMA SearchMissesNothing == IInv /\ NothingMissed /\ (Enter \/ TryCandidate) => NothingMissed'
<1> SUFFICES ASSUME IInv, NothingMissed, Enter \/ TryCandidate PROVE NothingMissed'
  OBVIOUS
<1>1. phase = "search" /\ Len(chain) \in Nat \ {0}
  BY ChainType DEF Enter, TryCandidate, IInv
<1>2. DOMAIN call.intermediates = 1 .. Len(call.intermediates) /\ Len(call.intermediates) \in Nat
  BY CallsAssumption, LenProperties DEF IInv, TypeOK
<1>3. CASE TooDeep /\ ReturnNone
  BY <1>1, <1>3, ReturnNoneMissesNothing DEF GivesUp
<1>4. CASE Abort \/ (\E path : Found(path))
  BY <1>4, EndMissesNothing DEF Abort, Found
<1>5. CASE Top = 0 /\ cursor' = Advance(cursor) /\ UNCHANGED <<call, phase, chain, checked>>
  <2>1. Top \notin DOMAIN call.intermediates
    BY <1>2, <1>5
  <2> QED BY <1>1, <1>5, <2>1, CursorMissesNothing
<1>6. CASE Top \in DOMAIN call.intermediates /\ Recurse(call.intermediates[Top])
  BY <1>1, <1>6, RecurseMissesNothing
<1>7. CASE /\ Top \in DOMAIN call.intermediates
           /\ \/ call.intermediates[Top] \in Elements(chain)
              \/ Issues(call.intermediates[Top], Current, call.allowWeak) = "no"
           /\ cursor' = Advance(cursor) /\ UNCHANGED <<call, phase, chain, checked>>
  <2>1. ASSUME NEW p \in Seq(Cert), Good(p), Follows(p, Len(chain)), Len(p) > Len(chain),
               p[Len(chain) + 1] = call.intermediates[Top]
        PROVE  FALSE
    <3>1. Len(p) \in Nat
      BY LenProperties
    <3>2. CASE call.intermediates[Top] \in Elements(chain)
      <4>1. DOMAIN chain = 1 .. Len(chain)
        BY LenProperties DEF IInv, TypeOK
      <4>2. PICK i \in 1 .. Len(chain) : call.intermediates[Top] = chain[i]
        BY <3>2, <4>1 DEF Elements
      <4>3. p[i] = p[Len(chain) + 1]
        BY <2>1, <4>2 DEF Follows
      <4> QED BY <1>1, <2>1, <3>1, <4>3 DEF Good, Walk
    <3>3. CASE Issues(call.intermediates[Top], Current, call.allowWeak) = "no"
      <4>1. IsIssuer(p[Len(chain) + 1], p[Len(chain)]) /\ p[Len(chain)] = Current
        BY <1>1, <2>1, <3>1 DEF Good, Walk, Follows, Current
      <4> QED BY <2>1, <3>3, <4>1 DEF IsIssuer
    <3> QED BY <1>7, <3>2, <3>3
  <2> QED BY <1>1, <1>7, <2>1, CursorMissesNothing
<1> QED BY <1>3, <1>4, <1>5, <1>6, <1>7 DEF Enter, TryCandidate

LEMMA NothingMissedStep == IInv /\ NothingMissed /\ [Next]_vars => NothingMissed'
<1> SUFFICES ASSUME IInv, NothingMissed, [Next]_vars PROVE NothingMissed'
  OBVIOUS
<1>1. CASE BuildChain
  <2>1. phase = "start" /\ UNCHANGED <<call, chain>>
    BY <1>1 DEF BuildChain, Found
  <2>2. CASE phase' = "found"
    BY <2>2, EndMissesNothing
  <2>3. CASE phase' = "search" /\ cursor' = <<0>>
    <3>1. Len(cursor') = 1 /\ cursor'[1] = 0
      BY <2>3
    <3>2. DOMAIN call.intermediates = 1 .. Len(call.intermediates) /\ Len(call.intermediates) \in Nat
      BY CallsAssumption, LenProperties DEF IInv, TypeOK
    <3>3. Explored(1)'
      BY <2>1, <3>1, <3>2 DEF Explored
    <3>4. \A n \in 1 .. Len(cursor') : n = 1
      BY <3>1
    <3>5. 1 .. Len(cursor') - 1 = {}
      BY <3>1
    <3> QED BY <2>3, <3>3, <3>4, <3>5 DEF NothingMissed
  <2> QED BY <1>1, <2>2, <2>3 DEF BuildChain, Found
<1>2. CASE Enter \/ TryCandidate
  BY <1>2, SearchMissesNothing
<1>3. CASE Exhausted
  BY <1>3, ReturnNoneMissesNothing DEF Exhausted, GivesUp
<1>4. CASE CheckCertificate \/ CheckAnchor
  BY <1>4, EndMissesNothing DEF CheckCertificate, CheckAnchor, Reject
<1>5. CASE UNCHANGED vars
  <2>1. UNCHANGED <<call, phase, chain, cursor>>
    BY <1>5 DEF vars
  <2>2. \A n \in 1 .. Len(cursor) : Explored(n)' <=> Explored(n)
    BY <2>1, GoodIsFixed DEF Explored, Follows
  <2>3. \A n \in 1 .. Len(cursor) - 1 : Linked(n)' <=> Linked(n)
    BY <2>1 DEF Linked
  <2> QED BY <2>1, <2>2, <2>3, GoodIsFixed DEF NothingMissed
<1> QED BY <1>1, <1>2, <1>3, <1>4, <1>5 DEF Next

-----------------------------------------------------------------------------
(* Every certificate that breadth-first search reaches is the end of a walk. *)

\* A set of natural numbers has a least one.
LEMMA LeastElement ==
  ASSUME NEW T, T \subseteq Nat, T # {}
  PROVE  \E m \in T : \A k \in T : m <= k
<1>1. IsWellFoundedOn(OpToRel(<, Nat), Nat)
  BY NatLessThanWellFounded
<1>2. PICK m \in T : \A k \in T : ~(<<k, m>> \in OpToRel(<, Nat))
  BY <1>1, WFMin
<1>3. \A k \in T : ~(k < m)
  BY <1>2 DEF OpToRel
<1> QED BY <1>3

\* Induction, for a set of natural numbers.
LEMMA NatSetInduction ==
  ASSUME NEW T, 0 \in T, \A n \in Nat : n \in T => n + 1 \in T
  PROVE  \A n \in Nat : n \in T
<1> SUFFICES ASSUME Nat \ T # {} PROVE FALSE
  OBVIOUS
<1>1. PICK m \in Nat \ T : \A k \in Nat \ T : m <= k
  BY LeastElement
<1>2. m # 0 /\ m - 1 \in Nat /\ m - 1 \in T
  BY <1>1
<1> QED BY <1>2

Issued(S) == {cert \in Elements(call.intermediates) : \E child \in S : IsIssuer(cert, child)}

\* The steps of the search, by level.
Levels(f, n) == f = [k \in 0 .. n |-> IF k = 0 THEN {call.leaf} ELSE f[k - 1] \cup Issued(f[k - 1])]

\* Reach is a function that its recursive definition defines.
LEMMA ReachLevels == Levels(Reach, MaxPathDepth)
<1> DEFINE T == {n \in Nat : \E f : Levels(f, n)}
<1>1. 0 \in T
  <2> DEFINE f == [k \in 0 .. 0 |-> {call.leaf}]
  <2>1. f = [k \in 0 .. 0 |-> IF k = 0 THEN {call.leaf} ELSE f[k - 1] \cup Issued(f[k - 1])]
    OBVIOUS
  <2> QED BY <2>1 DEF Levels
<1>2. ASSUME NEW n \in Nat, n \in T PROVE n + 1 \in T
  <2>1. PICK f : Levels(f, n)
    BY <1>2
  <2> DEFINE g == [k \in 0 .. n + 1 |-> IF k <= n THEN f[k] ELSE f[n] \cup Issued(f[n])]
  <2>2. \A k \in 0 .. n : g[k] = f[k]
    OBVIOUS
  <2>3. g[n + 1] = f[n] \cup Issued(f[n])
    OBVIOUS
  <2>4. \A k \in 0 .. n : f[k] = IF k = 0 THEN {call.leaf} ELSE f[k - 1] \cup Issued(f[k - 1])
    BY <2>1 DEF Levels
  <2>. HIDE DEF g
  <2>5. ASSUME NEW k \in 0 .. n + 1
        PROVE  g[k] = IF k = 0 THEN {call.leaf} ELSE g[k - 1] \cup Issued(g[k - 1])
    <3>1. CASE k = 0
      <4>1. 0 \in 0 .. n
        OBVIOUS
      <4> QED BY <2>2, <2>4, <3>1, <4>1
    <3>2. CASE k \in 1 .. n
      <4>1. k \in 0 .. n /\ k - 1 \in 0 .. n /\ k # 0
        BY <3>2
      <4> QED BY <2>2, <2>4, <4>1
    <3>3. CASE k = n + 1
      <4>1. k - 1 = n /\ n \in 0 .. n /\ k # 0
        BY <3>3
      <4> QED BY <2>2, <2>3, <3>3, <4>1
    <3> QED BY <3>1, <3>2, <3>3
  <2>6. Levels(g, n + 1)
    <3>1. DOMAIN g = 0 .. n + 1 /\ g = [k \in 0 .. n + 1 |-> g[k]]
      BY DEF g
    <3> QED BY <2>5, <3>1 DEF Levels
  <2> QED BY <2>6
<1>3. MaxPathDepth \in T
  <2>. HIDE DEF T
  <2> QED BY <1>1, <1>2, NatSetInduction, DepthAssumption
<1>4. PICK f : Levels(f, MaxPathDepth)
  BY <1>3
<1> QED BY <1>4 DEF Reach, Levels, Issued

LEMMA ReachUnfolded ==
  /\ Reach[0] = {call.leaf}
  /\ \A n \in 1 .. MaxPathDepth : Reach[n] = Reach[n - 1] \cup Issued(Reach[n - 1])
<1>1. Levels(Reach, MaxPathDepth)
  BY ReachLevels
<1>2. \A k \in 0 .. MaxPathDepth :
        Reach[k] = IF k = 0 THEN {call.leaf} ELSE Reach[k - 1] \cup Issued(Reach[k - 1])
  BY <1>1 DEF Levels
<1>3. Reach[0] = {call.leaf}
  <2>1. 0 \in 0 .. MaxPathDepth
    BY DepthAssumption
  <2> QED BY <1>2, <2>1
<1>4. ASSUME NEW n \in 1 .. MaxPathDepth
      PROVE  Reach[n] = Reach[n - 1] \cup Issued(Reach[n - 1])
  <2>1. n \in 0 .. MaxPathDepth /\ n # 0
    BY DepthAssumption
  <2> QED BY <1>2, <2>1
<1> QED BY <1>3, <1>4

\* The beginning of a walk is one.
LEMMA WalkBegins ==
  ASSUME NEW p \in Seq(Cert), Walk(p), NEW n \in 1 .. Len(p)
  PROVE  SubSeq(p, 1, n) \in Seq(Cert) /\ Walk(SubSeq(p, 1, n)) /\ Len(SubSeq(p, 1, n)) = n
         /\ SubSeq(p, 1, n)[n] = p[n]
<1>1. Len(p) \in Nat /\ \A i \in 1 .. n : p[i] \in Cert
  BY LenProperties, ElementOfSeq
<1> DEFINE q == SubSeq(p, 1, n)
<1>2. q \in Seq(Cert) /\ Len(q) = n /\ \A i \in 1 .. n : q[i] = p[i]
  <2>1. /\ q \in Seq(Cert) /\ Len(q) = IF 1 <= n THEN n - 1 + 1 ELSE 0
        /\ \A i \in 1 .. n - 1 + 1 : q[i] = p[1 + i - 1]
    BY <1>1, SubSeqProperties
  <2>. HIDE DEF q
  <2> QED BY <1>1, <2>1
<1>. HIDE DEF q
<1>3. Walk(q)
  <2>1. \A i \in 1 .. n : i \in 1 .. Len(p)
    BY <1>1
  <2>2. \A i \in 1 .. n - 1 : i \in 1 .. Len(p) - 1 /\ i \in 1 .. n /\ i + 1 \in 1 .. n
    BY <1>1
  <2>3. \A i \in 2 .. n : i \in 2 .. Len(p) /\ i \in 1 .. n
    BY <1>1
  <2>4. Len(q) >= 1 /\ q[1] = call.leaf
    BY <1>1, <1>2 DEF Walk
  <2>5. \A i \in 2 .. n : q[i] \in Elements(call.intermediates)
    BY <1>2, <2>3 DEF Walk
  <2>6. \A i \in 1 .. n - 1 : IsIssuer(q[i + 1], q[i])
    BY <1>2, <2>2 DEF Walk
  <2>7. \A i, j \in 1 .. n : q[i] = q[j] => i = j
    BY <1>2, <2>1 DEF Walk
  <2> QED BY <1>2, <2>4, <2>5, <2>6, <2>7 DEF Walk
<1> QED BY <1>2, <1>3 DEF q

\* A walk goes on to an issuer of its last certificate that is not in it.
LEMMA WalkGoesOn ==
  ASSUME NEW p \in Seq(Cert), Walk(p), NEW cert \in Cert, cert \in Elements(call.intermediates),
         IsIssuer(cert, p[Len(p)]), \A i \in 1 .. Len(p) : p[i] # cert
  PROVE  /\ Append(p, cert) \in Seq(Cert) /\ Walk(Append(p, cert))
         /\ Len(Append(p, cert)) = Len(p) + 1 /\ Append(p, cert)[Len(p) + 1] = cert
<1> DEFINE q == Append(p, cert)
<1>1. /\ q \in Seq(Cert) /\ Len(q) = Len(p) + 1 /\ q[Len(p) + 1] = cert
      /\ \A i \in 1 .. Len(p) : q[i] = p[i]
      /\ Len(p) \in Nat \ {0}
  BY AppendProperties, LenProperties DEF Walk
<1>. HIDE DEF q
<1>2. \A i \in 1 .. Len(q) : i \in 1 .. Len(p) \/ i = Len(p) + 1
  BY <1>1
<1>3. \A i \in 2 .. Len(q) : q[i] \in Elements(call.intermediates)
  BY <1>1, <1>2 DEF Walk
<1>4. \A i \in 1 .. Len(q) - 1 : IsIssuer(q[i + 1], q[i])
  <2> TAKE i \in 1 .. Len(q) - 1
  <2>1. CASE i = Len(p)
    BY <1>1, <2>1
  <2>2. CASE i \in 1 .. Len(p) - 1
    BY <1>1, <2>2 DEF Walk
  <2> QED BY <1>1, <2>1, <2>2
<1>5. \A i, j \in 1 .. Len(q) : q[i] = q[j] => i = j
  BY <1>1, <1>2 DEF Walk
<1>6. Walk(q)
  BY <1>1, <1>3, <1>4, <1>5 DEF Walk
<1> QED BY <1>1, <1>6 DEF q

\* cert is the end of a walk of n steps at most.
WalkTo(cert, n) == \E p \in Seq(Cert) : Walk(p) /\ Len(p) <= n + 1 /\ p[Len(p)] = cert

LEMMA ReachedByWalk ==
  ASSUME IInv
  PROVE  \A n \in 0 .. MaxPathDepth : \A cert \in Reach[n] : WalkTo(cert, n)
<1> DEFINE T == {n \in Nat : n <= MaxPathDepth => \A cert \in Reach[n] : WalkTo(cert, n)}
<1>1. 0 \in T
  <2> DEFINE p == <<call.leaf>>
  <2>1. call.leaf \in Cert
    BY ChainType DEF IInv
  <2>2. p \in Seq(Cert) /\ Len(p) = 1 /\ p[1] = call.leaf
    BY <2>1
  <2>. HIDE DEF p
  <2>3. Walk(p)
    BY <2>2 DEF Walk
  <2>4. WalkTo(call.leaf, 0)
    <3>1. Len(p) <= 0 + 1 /\ p[Len(p)] = call.leaf
      BY <2>2
    <3> QED BY <2>2, <2>3, <3>1 DEF WalkTo
  <2> QED BY <2>4, ReachUnfolded
<1>2. ASSUME NEW n \in Nat, n \in T PROVE n + 1 \in T
  <2> SUFFICES ASSUME n + 1 <= MaxPathDepth, NEW cert \in Reach[n + 1] PROVE WalkTo(cert, n + 1)
    OBVIOUS
  <2>1. n + 1 \in 1 .. MaxPathDepth /\ (n + 1) - 1 = n
    BY DepthAssumption
  <2>2. cert \in Reach[n] \/ cert \in Issued(Reach[n])
    BY <2>1, ReachUnfolded
  <2>3. \A c \in Reach[n] : WalkTo(c, n)
    BY <1>2, <2>1, DepthAssumption
  <2>4. CASE cert \in Reach[n]
    <3>1. PICK p \in Seq(Cert) : Walk(p) /\ Len(p) <= n + 1 /\ p[Len(p)] = cert
      BY <2>3, <2>4 DEF WalkTo
    <3>2. Len(p) \in Nat /\ Len(p) <= (n + 1) + 1
      BY <3>1, LenProperties
    <3> QED BY <3>1, <3>2 DEF WalkTo
  <2>5. CASE cert \in Issued(Reach[n])
    <3>1. PICK child \in Reach[n] : IsIssuer(cert, child)
      BY <2>5 DEF Issued
    <3>2. PICK p \in Seq(Cert) : Walk(p) /\ Len(p) <= n + 1 /\ p[Len(p)] = child
      BY <2>3 DEF WalkTo
    <3>3. cert \in Elements(call.intermediates) /\ cert \in Cert
      <4>1. cert \in Elements(call.intermediates)
        BY <2>5 DEF Issued
      <4> QED BY <4>1, ChainType DEF IInv, Elements
    <3>4. Len(p) \in Nat \ {0}
      BY <3>2, LenProperties DEF Walk
    <3>5. CASE \E i \in 1 .. Len(p) : p[i] = cert
      <4>1. PICK i \in 1 .. Len(p) : p[i] = cert
        BY <3>5
      <4> DEFINE q == SubSeq(p, 1, i)
      <4>2. q \in Seq(Cert) /\ Walk(q) /\ Len(q) = i /\ q[i] = cert
        BY <3>2, <4>1, WalkBegins
      <4>. HIDE DEF q
      <4>3. Len(q) <= (n + 1) + 1
        BY <3>2, <3>4, <4>2
      <4> QED BY <4>2, <4>3 DEF WalkTo
    <3>6. CASE \A i \in 1 .. Len(p) : p[i] # cert
      <4> DEFINE q == Append(p, cert)
      <4>1. q \in Seq(Cert) /\ Walk(q) /\ Len(q) = Len(p) + 1 /\ q[Len(p) + 1] = cert
        BY <3>1, <3>2, <3>3, <3>6, WalkGoesOn
      <4>. HIDE DEF q
      <4>2. Len(q) <= (n + 1) + 1
        BY <3>2, <3>4, <4>1
      <4> QED BY <4>1, <4>2 DEF WalkTo
    <3> QED BY <3>5, <3>6
  <2> QED BY <2>2, <2>4, <2>5
<1>3. \A n \in Nat : n \in T
  <2>. HIDE DEF T
  <2> QED BY <1>1, <1>2, NatSetInduction
<1> QED BY <1>3, DepthAssumption

\* Where breadth-first search finds a path, there is a good one.
LEMMA PathIsGood ==
  ASSUME IInv, PathExists
  PROVE  \E p \in Seq(Cert) : Good(p)
<1>1. PICK cert \in Reach[MaxPathDepth] : Trusted(cert)
  BY DEF PathExists
<1>2. MaxPathDepth \in 0 .. MaxPathDepth
  BY DepthAssumption
<1>3. WalkTo(cert, MaxPathDepth)
  BY <1>2, ReachedByWalk
<1> QED BY <1>1, <1>3 DEF WalkTo, Good

-----------------------------------------------------------------------------
(* The theorems.                                                             *)

\* The calls, the search and the validation keep the invariant.
THEOREM Inductive == Spec => []IInv
<1>1. IInv /\ [Next]_vars => IInv'
  <2> SUFFICES ASSUME IInv, [Next]_vars PROVE IInv'
    OBVIOUS
  <2>1. CASE BuildChain
    BY <2>1, BuildChainIInv
  <2>2. CASE Enter
    BY <2>2, EnterIInv
  <2>3. CASE TryCandidate
    BY <2>3, TryCandidateIInv
  <2>4. CASE Exhausted
    BY <2>4, ReturnNoneIInv DEF Exhausted
  <2>5. CASE CheckCertificate \/ CheckAnchor
    BY <2>5, CheckIInv
  <2>6. CASE UNCHANGED vars
    BY <2>6 DEF vars, IInv, TypeOK, PathFound, Climb, Settled, IsPath, Trusted,
                IsAnchor, IsIssuer, Top, Current
  <2> QED BY <2>1, <2>2, <2>3, <2>4, <2>5, <2>6 DEF Next
<1> QED BY InitIInv, <1>1, PTL DEF Spec

(* The search keeps one cursor per certificate of its chain, and neither     *)
(* list ever becomes empty, for every bag of certificates and every depth.   *)
THEOREM TypeCorrect == Spec => []TypeOK
<1>1. IInv => TypeOK
  BY DEF IInv
<1> QED BY <1>1, Inductive, PTL

(* Every chain that build_chain returns is a path of verified issuers from   *)
(* the leaf to an anchor, without repetition and within the depth.           *)
THEOREM PathCorrect == Spec => []PathFound
<1>1. IInv => PathFound
  BY DEF IInv
<1> QED BY <1>1, Inductive, PTL

(* An accepted chain keeps what validate_chain checks one certificate at a    *)
(* time: every certificate valid at the moment, every issuer a CA that may    *)
(* have as many CAs below it, whatever the chain that the search has found.   *)
THEOREM AcceptedCorrect == Spec => []AcceptedIsValid
<1>1. Init => ChecksKept
  BY DEF Init, ChecksKept
<1> QED BY <1>1, Inductive, ChecksKeptStep, ChecksSuffice, PTL DEF Spec

(* The search gives up only when no path exists within the bound: none is     *)
(* lost when it backs out of a branch, for every graph of certificates that   *)
(* sign one another and every order of the intermediates and the roots.       *)
THEOREM SearchIsComplete == Spec => []NoPathMissed
<1>1. Init => NothingMissed
  BY DEF Init, NothingMissed
<1>2. IInv /\ NothingMissed => NoPathMissed
  BY PathIsGood DEF NothingMissed, NoPathMissed
<1> QED BY <1>1, <1>2, Inductive, NothingMissedStep, PTL DEF Spec
=============================================================================
