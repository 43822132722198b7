---------------------------- MODULE MCArgon2Data -----------------------------
(* Values for the data operations of Argon2Block: blocks of two words, J1   *)
(* the low and J2 the high one, so that there are Word * Word blocks.  G is *)
(* not commutative and depends on all of both arguments.                    *)
EXTENDS Argon2Block

MCBlock == 0 .. Word * Word - 1
MCHPrime(seed, i, l) == (seed * 5 + i * 3 + l * 7 + 1) % (Word * Word)
MCG(b, c) == (3 * b + 5 * c + b * c + 1) % (Word * Word)
MCXor(b, c) == (b + c) % (Word * Word)
MCJ1(b) == b % Word
MCJ2(b) == b \div Word
MCAddressJ1(p, l, s, i) == (p + 2 * l + s + 3 * i) % Word
MCAddressJ2(p, l, s, i) == (p + l + 2 * s + i) % Word
=============================================================================
