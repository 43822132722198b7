---------------------------- MODULE MCArgon2Fill ----------------------------
(* Argon2Fill with the data operations of MCArgon2Data. *)
EXTENDS Argon2Fill, MCArgon2Data
=============================================================================
