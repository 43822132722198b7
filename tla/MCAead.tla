-------------------------------- MODULE MCAead --------------------------------
(* Octets of one bit; blocks of two octets, of the key stream and of the      *)
(* authenticator; a counter of two bits, that the longest message passes.     *)
EXTENDS Aead

MCByte == {0, 1}
MCXor(a, b) == (a + b) % 2

MCMessages == {<<>>, <<1>>, <<0, 1>>, <<1, 0, 1>>, <<0, 1, 1, 0, 0, 0, 1, 1, 1>>}

\* Some of these are equal once padded.
MCAssociated == {<<>>, <<1>>, <<1, 0>>, <<0, 1>>}

\* The hash takes the nonce that is not of 12 octets to the last counter.
MCGhash(n) == [fixed |-> "ghash", counter |-> CounterSize["gcm"] - 1]

MCHChaCha(k, n) == IF n = "u" THEN "sub-key u" ELSE "sub-key v"
MCFirst(n) == IF n = "n12" THEN "u" ELSE "v"
MCSecond(n) == "w"

MCBlockLen == [s \in Schemes |-> 2]
MCCounterSize == [s \in Schemes |-> 4]

MCKeyStream(block, i) ==
  ((block.counter + 1) \div 2 + i + IF block.key = "sub-key u" THEN 1 ELSE 0) % 2
=============================================================================
