----------------------------- MODULE Argon2Block -----------------------------
(***************************************************************************)
(* The block schedule of Argon2 (purecrypt/kdf.py): the memory layout that *)
(* argon2() derives from its parameters, the pseudo-random pair (J1, J2)   *)
(* that selects a reference block, the mapping _index_alpha of J1 into the *)
(* reference window, and the block that one iteration of _fill_segment     *)
(* stores.  The state machines that run this schedule are Argon2Fill (the  *)
(* loops of the code) and Argon2Lanes (every parallel order of the lanes). *)
(*                                                                         *)
(* A block is a value of the set Block: its 128 words matter only through  *)
(* the first one, split in J1 and J2, and through G (_g_compress) and Xor. *)
(* mem[lane][i] is the code's mem[lane * lane_length + i].                 *)
(***************************************************************************)
EXTENDS Integers

CONSTANTS
  Parallelism,          \* argon2's parallelism: the number of lanes
  MemoryCost,           \* argon2's memory_cost, in blocks
  TimeCost,             \* argon2's time_cost: the number of passes
  Word,                 \* 2^32 in the code: J1 and J2 are in 0 .. Word - 1
  Block,                \* the 1024-byte blocks
  ZeroBlock,            \* _ZERO_BLOCK
  Seeds,                \* the values of H0: one per password, salt, ...
  HPrime(_, _, _),      \* _h_prime(h0 || i || lane): blocks 0 and 1 of a lane
  G(_, _),              \* _g_compress
  Xor(_, _),            \* word by word exclusive or of two blocks
  J1(_), J2(_),         \* low and high half of a block's first word
  AddressJ1(_, _, _, _),\* entry of _address_stream(pass, lane, slice) at an
  AddressJ2(_, _, _, _) \* index, which the block contents do not influence

ARGON2D  == 0
ARGON2I  == 1
ARGON2ID == 2
Variants == {ARGON2D, ARGON2I, ARGON2ID}
Versions == {16, 19}                      \* 0x10 and 0x13

\* What _argon2_validate lets through.
ASSUME ParallelismAssumption == Parallelism \in Nat \ {0}
ASSUME MemoryCostAssumption  == MemoryCost \in Nat /\ MemoryCost >= 8 * Parallelism
ASSUME TimeCostAssumption    == TimeCost \in Nat \ {0}

\* The types of the data operations.
ASSUME WordAssumption    == Word \in Nat \ {0}
ASSUME BlockAssumption   ==
  /\ ZeroBlock \in Block
  /\ \A b, c \in Block : G(b, c) \in Block /\ Xor(b, c) \in Block
  /\ \A b \in Block : J1(b) \in 0 .. Word - 1 /\ J2(b) \in 0 .. Word - 1
ASSUME HPrimeAssumption  ==
  \A s \in Seeds, i \in {0, 1}, l \in 0 .. Parallelism - 1 : HPrime(s, i, l) \in Block

-----------------------------------------------------------------------------
(* The memory layout. *)

Slices == 4                               \* _ARGON2_SLICES

\* Mutant: memory_cost is not rounded down to a multiple of 4 * parallelism.
MPrimeUnrounded == MemoryCost

MPrime     == 4 * Parallelism * (MemoryCost \div (4 * Parallelism))
LaneLength == MPrime \div Parallelism
SegLength  == LaneLength \div Slices

Lane  == 0 .. Parallelism - 1
Slot  == 0 .. LaneLength - 1
Slice == 0 .. Slices - 1

ASSUME AddressAssumption ==
  \A p \in 0 .. TimeCost - 1, l \in Lane, s \in Slice, i \in 0 .. SegLength - 1 :
     /\ AddressJ1(p, l, s, i) \in 0 .. Word - 1
     /\ AddressJ2(p, l, s, i) \in 0 .. Word - 1

\* The slots of a slice, in every lane.
Segment(slice) == slice * SegLength .. (slice + 1) * SegLength - 1

\* The first two blocks of a lane come from H0: _fill_segment skips them.
Start(pass, slice) == IF pass = 0 /\ slice = 0 THEN 2 ELSE 0

InitialMemory(seed) ==
  [l \in Lane |-> [i \in Slot |-> IF i < 2 THEN HPrime(seed, i, l) ELSE ZeroBlock]]

-----------------------------------------------------------------------------
(* The reference block of position index of a segment. *)

DataIndependent(variant, pass, slice) ==
  \/ variant = ARGON2I
  \/ variant = ARGON2ID /\ pass = 0 /\ slice < Slices \div 2

\* Mutant: every lane gets the window of the lane itself, which includes the
\* blocks of the current segment.
RefAreaSameForAll(pass, slice, index, sameLane) ==
  IF pass = 0 THEN slice * SegLength + index - 1
              ELSE LaneLength - SegLength + index - 1

\* The number of blocks the reference is chosen from.
RefArea(pass, slice, index, sameLane) ==
  LET finished == IF pass = 0 THEN slice * SegLength ELSE LaneLength - SegLength
  IN  IF sameLane \/ (pass = 0 /\ slice = 0)
      THEN finished + index - 1
      ELSE finished + (IF index = 0 THEN -1 ELSE 0)

\* Mutant: the oldest block of the window is always slot 0.
WindowStartZero(pass, slice) == 0

WindowStart(pass, slice) ==
  IF pass = 0 \/ slice = Slices - 1 THEN 0 ELSE (slice + 1) * SegLength

\* The quadratic map of J1 to a position of the window: J1 = 0 gives the newest.
Relative(area, j1) ==
  area - 1 - (area * ((j1 * j1) \div Word)) \div Word

IndexAlpha(pass, slice, index, j1, sameLane) ==
  ( WindowStart(pass, slice)
    + Relative(RefArea(pass, slice, index, sameLane), j1) ) % LaneLength

\* The block that precedes position cur in its lane, cyclically.
Previous(cur) == IF cur > 0 THEN cur - 1 ELSE LaneLength - 1

\* The pair (J1, J2) of one iteration: the one at place in the address stream, or
\* from the block computed just before.
PairAt(mem, variant, pass, slice, lane, index, place) ==
  IF DataIndependent(variant, pass, slice)
  THEN <<AddressJ1(pass, lane, slice, place), AddressJ2(pass, lane, slice, place)>>
  ELSE LET before == mem[lane][Previous(slice * SegLength + index)]
       IN  <<J1(before), J2(before)>>

\* Position index has the pair of that place.
PseudoRandom(mem, variant, pass, slice, lane, index) ==
  PairAt(mem, variant, pass, slice, lane, index, index)

RefLane(pass, slice, lane, j2) ==
  IF pass = 0 /\ slice = 0 THEN lane ELSE j2 % Parallelism

\* The reference block <<lane, slot>> that a pair j selects.
Selected(pass, slice, lane, index, j) ==
  LET rl == RefLane(pass, slice, lane, j[2])
  IN  <<rl, IndexAlpha(pass, slice, index, j[1], rl = lane)>>

\* The block one iteration of _fill_segment stores at slice * SegLength + index
\* when ref is its reference block.
BlockFrom(mem, version, pass, slice, lane, index, ref) ==
  LET cur == slice * SegLength + index
      new == G(mem[lane][Previous(cur)], mem[ref[1]][ref[2]])
  IN  IF pass # 0 /\ version # 16 THEN Xor(new, mem[lane][cur]) ELSE new

Reference(mem, variant, pass, slice, lane, index) ==
  Selected(pass, slice, lane, index, PseudoRandom(mem, variant, pass, slice, lane, index))

NewBlock(mem, variant, version, pass, slice, lane, index) ==
  BlockFrom(mem, version, pass, slice, lane, index,
            Reference(mem, variant, pass, slice, lane, index))

\* The memory after that iteration.
Fill(mem, variant, version, pass, slice, lane, index) ==
  [mem EXCEPT ![lane][slice * SegLength + index] =
                 NewBlock(mem, variant, version, pass, slice, lane, index)]

\* The exclusive or of the last blocks of all lanes, which argon2 hashes into
\* the tag: its value when the lanes below l + 1 are in, given that of the
\* lanes below l.
FoldLane(mem, final, l) ==
  IF l = 0 THEN mem[0][LaneLength - 1] ELSE Xor(final, mem[l][LaneLength - 1])

-----------------------------------------------------------------------------
(* The reference window of RFC 9106, section 3.4.2, stated on times instead  *)
(* of offsets.  A lane stores one block per tick: slot i in pass p is stored *)
(* at tick p * LaneLength + i.                                               *)

\* The ticks of the blocks position index of a segment may refer to: the last
\* three finished segments of the lane and, in its own lane, what the current
\* segment has stored so far; without the newest of them at the beginning of a
\* segment and without the block just stored.
Window(pass, slice, index, sameLane) ==
  LET now    == pass * LaneLength + slice * SegLength
      oldest == IF now >= 3 * SegLength THEN now - 3 * SegLength ELSE 0
      newest == IF sameLane THEN now + index - 2
                ELSE IF index = 0 THEN now - 2 ELSE now - 1
  IN  oldest .. newest

SlotOf(tick) == tick % LaneLength
=============================================================================
