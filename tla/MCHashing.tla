------------------------------ MODULE MCHashing -------------------------------
(* What is built on a hash, one of them in a behaviour: the incremental      *)
(* BLAKE3 hasher, with blocks of two bytes and chunks of two blocks; Argon2's *)
(* lanes in two orders, with the data operations of MCArgon2Data; and PBES2, *)
(* on the envelopes of MCPbes2.                                              *)
EXTENDS Blake3Tree, Argon2Order, MCArgon2Data, MCPbes2

VARIABLE machine   \* "blake3", "argon2" or "pbes2"

\* The machines that do not run stay in one of their initial states.
HashingInit ==
  /\ Init /\ OrderInit /\ Pbes2Init
  /\ machine \in {"blake3", "argon2", "pbes2"}
  /\ machine # "blake3" => hasher[Origin].mode = PlainMode
  /\ machine # "argon2" => memA = InitialMemory(0) /\ sharedVariant = ARGON2D /\ sharedVersion = 16

HashingNext ==
  \/ machine = "blake3" /\ Next /\ UNCHANGED <<orderVars, pbes2Vars, machine>>
  \/ machine = "argon2" /\ OrderNext /\ UNCHANGED <<vars, pbes2Vars, machine>>
  \/ machine = "pbes2" /\ Pbes2Next /\ UNCHANGED <<vars, orderVars, machine>>

HashingSpec == HashingInit /\ [][HashingNext]_<<vars, orderVars, pbes2Vars, machine>>
=============================================================================
