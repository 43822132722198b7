---------------------------- MODULE Argon2Proofs -----------------------------
(***************************************************************************)
(* Proofs about argon2() for every parallelism, memory cost, time cost,    *)
(* variant, version, block function and word size.                         *)
(*                                                                         *)
(* First, the arithmetic (iter, piece, place and line are a pass, a slice, *)
(* an index and a lane; their own names are those of the variables of      *)
(* Argon2Fill), and the loops: the matrix stays well formed, every         *)
(* reference is in the window of RFC 9106, and the loops take only steps   *)
(* of Argon2Lanes.                                                         *)
(*                                                                         *)
(* Second, the order of the lanes inside a slice does not matter.          *)
(* OrderIrrelevant alone is not inductive: when the slower execution       *)
(* stores a block, it has to be the one the faster execution has stored    *)
(* before.  Replayable adds that: every block only one execution has       *)
(* stored is what NewBlock yields in its memory, with the old content of   *)
(* the block, which the other execution still has, put back.               *)
(***************************************************************************)
EXTENDS Argon2Fill, Argon2Order, TLAPS

-----------------------------------------------------------------------------
(* The arithmetic of Argon2Block: the layout, and the window into which      *)
(* _index_alpha maps J1.                                                     *)

(* A quotient is below b when the dividend is below the divisor times b.   *)
LEMMA QuotientBelow ==
  ASSUME NEW a \in Nat, NEW b \in Nat, NEW c \in Nat \ {0}, a < b * c
  PROVE  a \div c \in 0 .. b - 1
  OBVIOUS

(* memory_cost >= 8 * parallelism leaves at least two blocks per segment,  *)
(* and the rounding of mprime makes the segments tile the lane.            *)
LEMMA Layout ==
  /\ SegLength \in Nat
  /\ SegLength >= 2
  /\ LaneLength = 4 * SegLength
<1> DEFINE k == MemoryCost \div (4 * Parallelism)
<1>1. k \in Nat /\ k >= 2
  BY ParallelismAssumption, MemoryCostAssumption
<1>2. MPrime = Parallelism * (4 * k)
  BY <1>1, ParallelismAssumption DEF MPrime
<1>3. LaneLength = 4 * k
  BY <1>1, <1>2, ParallelismAssumption DEF LaneLength
<1>4. SegLength = k
  BY <1>1, <1>3 DEF SegLength, Slices
<1> QED BY <1>1, <1>3, <1>4

LEMMA ModuloWrap ==
  ASSUME NEW n \in Nat \ {0}, NEW x \in 0 .. 2 * n - 1
  PROVE  x % n = IF x < n THEN x ELSE x - n
  OBVIOUS

LEMMA ModuloShift ==
  ASSUME NEW n \in Nat \ {0}, NEW q \in Nat, NEW x \in Nat
  PROVE  (q * n + x) % n = x % n
<1> DEFINE d == x \div n
           r == x % n
<1>1. d \in Nat /\ r \in 0 .. n - 1 /\ x = n * d + r
  OBVIOUS
<1> HIDE DEF d, r
<1>2. q * n + x = (q + d) * n + r
  BY <1>1
<1> DEFINE y == q * n + x
           e == y \div n
<1>3. y \in Nat /\ e \in Nat /\ y % n \in 0 .. n - 1 /\ y = n * e + (y % n)
  BY <1>1, <1>2
<1> HIDE DEF e
<1>4. n * (e - (q + d)) = r - (y % n)
  BY <1>1, <1>2, <1>3
<1>5. e - (q + d) = 0
  <2> DEFINE z == e - (q + d)
  <2>1. z \in Int /\ n * z < n /\ n * z > - n
    BY <1>1, <1>3, <1>4
  <2> HIDE DEF z
  <2>2. z < 1
    BY <2>1
  <2>3. z > -1
    BY <2>1
  <2> QED BY <2>1, <2>2, <2>3 DEF z
<1>6. y % n = r
  BY <1>1, <1>3, <1>4, <1>5
<1> QED BY <1>6 DEF r

-----------------------------------------------------------------------------

\* The positions _fill_segment fills.
Position(iter, piece, place) ==
  /\ iter \in 0 .. TimeCost - 1
  /\ piece \in Slice
  /\ place \in Start(iter, piece) .. SegLength - 1

\* The cases in which argon2 asks for a reference: another lane is never one
\* of them in the first slice.
LaneCase(iter, piece, sameLane) ==
  sameLane \in BOOLEAN /\ (iter = 0 /\ piece = 0 => sameLane)

(* The reference window is never empty, and never the whole lane.          *)
LEMMA AreaBound ==
  ASSUME NEW iter, NEW piece, NEW place, Position(iter, piece, place),
         NEW sameLane, LaneCase(iter, piece, sameLane)
  PROVE  RefArea(iter, piece, place, sameLane) \in 1 .. LaneLength - 2
<1>1. /\ SegLength \in Nat /\ SegLength >= 2 /\ LaneLength = 4 * SegLength
      /\ piece \in 0 .. 3 /\ place \in 0 .. SegLength - 1
      /\ iter \in Nat /\ (iter = 0 /\ piece = 0 => place >= 2)
  BY Layout, TimeCostAssumption DEF Position, Slice, Slices, Start
<1>2. CASE piece = 0
  BY <1>1, <1>2 DEF RefArea, LaneCase
<1>3. CASE piece = 1
  BY <1>1, <1>3 DEF RefArea, LaneCase
<1>4. CASE piece = 2
  BY <1>1, <1>4 DEF RefArea, LaneCase
<1>5. CASE piece = 3
  BY <1>1, <1>5 DEF RefArea, LaneCase
<1> QED BY <1>1, <1>2, <1>3, <1>4, <1>5

(* The quadratic map stays inside the window, for every J1 and word size.  *)
LEMMA RelativeBound ==
  ASSUME NEW area \in Nat \ {0}, NEW j1 \in 0 .. Word - 1
  PROVE  Relative(area, j1) \in 0 .. area - 1
<1> DEFINE x == (j1 * j1) \div Word
<1>1. j1 * j1 \in Nat /\ j1 * j1 < Word * Word
  <2>1. j1 \in Nat /\ Word \in Nat \ {0} /\ j1 < Word
    BY WordAssumption
  <2>2. j1 * j1 <= Word * j1
    BY <2>1
  <2>3. Word * j1 < Word * Word
    BY <2>1
  <2> QED BY <2>1, <2>2, <2>3
<1>2. x \in 0 .. Word - 1
  BY <1>1, QuotientBelow, WordAssumption
<1>3. area * x \in Nat /\ area * x < area * Word
  BY <1>2, WordAssumption
<1>4. (area * x) \div Word \in 0 .. area - 1
  BY <1>3, QuotientBelow, WordAssumption
<1> QED BY <1>4 DEF Relative

(* J1 = 0 selects the newest block of the window.                          *)
LEMMA RelativeNewest ==
  ASSUME NEW area \in Nat \ {0}
  PROVE  Relative(area, 0) = area - 1
<1>1. (0 * 0) \div Word = 0
  BY WordAssumption
<1>2. (area * 0) \div Word = 0
  BY WordAssumption
<1> QED BY <1>1, <1>2 DEF Relative

(* Offsets and ticks: the window of the code, WindowStart and RefArea, is   *)
(* the window of the RFC, up to a number of whole passes.                  *)
LEMMA WindowOffsets ==
  ASSUME NEW iter, NEW piece, NEW place, Position(iter, piece, place),
         NEW sameLane, LaneCase(iter, piece, sameLane)
  PROVE  \E q \in Nat :
           LET first == q * LaneLength + WindowStart(iter, piece)
           IN  Window(iter, piece, place, sameLane)
                 = first .. first + RefArea(iter, piece, place, sameLane) - 1
<1>1. /\ SegLength \in Nat /\ SegLength >= 2 /\ LaneLength = 4 * SegLength
      /\ piece \in 0 .. 3 /\ place \in 0 .. SegLength - 1
      /\ iter \in Nat /\ (iter = 0 /\ piece = 0 => place >= 2)
  BY Layout, TimeCostAssumption DEF Position, Slice, Slices, Start
<1>2. CASE iter = 0
  <2>1. 0 * LaneLength = 0
    BY <1>1
  <2>2. Window(iter, piece, place, sameLane)
          = 0 * LaneLength + WindowStart(iter, piece) ..
            0 * LaneLength + WindowStart(iter, piece)
              + RefArea(iter, piece, place, sameLane) - 1
    <3>1. CASE piece = 0
      BY <1>1, <1>2, <2>1, <3>1 DEF Window, WindowStart, RefArea, LaneCase
    <3>2. CASE piece = 1
      BY <1>1, <1>2, <2>1, <3>2 DEF Window, WindowStart, RefArea, LaneCase
    <3>3. CASE piece = 2
      BY <1>1, <1>2, <2>1, <3>3 DEF Window, WindowStart, RefArea, LaneCase
    <3>4. CASE piece = 3
      BY <1>1, <1>2, <2>1, <3>4 DEF Window, WindowStart, RefArea, LaneCase
    <3> QED BY <1>1, <3>1, <3>2, <3>3, <3>4
  <2> QED BY <2>2
<1>3. CASE iter # 0
  <2> DEFINE before == (iter - 1) * LaneLength
  <2>1. /\ iter - 1 \in Nat /\ before \in Nat
        /\ iter * LaneLength = before + 4 * SegLength
    BY <1>1, <1>3
  <2> HIDE DEF before
  <2>2. CASE piece = 3
    <3>1. Window(iter, piece, place, sameLane)
            = iter * LaneLength + WindowStart(iter, piece) ..
              iter * LaneLength + WindowStart(iter, piece)
                + RefArea(iter, piece, place, sameLane) - 1
      BY <1>1, <1>3, <2>1, <2>2 DEF Window, WindowStart, RefArea, LaneCase, Slices
    <3> QED BY <1>1, <3>1
  <2>3. CASE piece # 3
    <3>1. Window(iter, piece, place, sameLane)
            = before + WindowStart(iter, piece) ..
              before + WindowStart(iter, piece)
                + RefArea(iter, piece, place, sameLane) - 1
      <4>1. CASE piece = 0
        BY <1>1, <1>3, <2>1, <4>1 DEF Window, WindowStart, RefArea, LaneCase, Slices
      <4>2. CASE piece = 1
        BY <1>1, <1>3, <2>1, <4>2 DEF Window, WindowStart, RefArea, LaneCase, Slices
      <4>3. CASE piece = 2
        BY <1>1, <1>3, <2>1, <4>3 DEF Window, WindowStart, RefArea, LaneCase, Slices
      <4> QED BY <1>1, <2>3, <4>1, <4>2, <4>3
    <3> QED BY <2>1, <3>1 DEF before
  <2> QED BY <2>2, <2>3
<1> QED BY <1>2, <1>3

(* _index_alpha yields a slot whose last block is in the window.           *)
LEMMA IndexInWindow ==
  ASSUME NEW iter, NEW piece, NEW place, Position(iter, piece, place),
         NEW sameLane, LaneCase(iter, piece, sameLane),
         NEW j1 \in 0 .. Word - 1
  PROVE  \E tick \in Window(iter, piece, place, sameLane) :
            IndexAlpha(iter, piece, place, j1, sameLane) = SlotOf(tick)
<1> DEFINE area == RefArea(iter, piece, place, sameLane)
           rel  == Relative(area, j1)
           ws   == WindowStart(iter, piece)
<1>1. area \in Nat \ {0} /\ rel \in 0 .. area - 1
  BY AreaBound, RelativeBound, Layout
<1>2. ws \in Nat
  BY Layout DEF Position, Slice, Slices, WindowStart
<1>3. PICK q \in Nat :
        Window(iter, piece, place, sameLane)
          = q * LaneLength + ws .. q * LaneLength + ws + area - 1
  BY WindowOffsets
<1> DEFINE tick == q * LaneLength + (ws + rel)
<1>4. LaneLength \in Nat \ {0}
  BY Layout
<1>5. IndexAlpha(iter, piece, place, j1, sameLane) = (ws + rel) % LaneLength
  BY DEF IndexAlpha
<1> HIDE DEF area, rel, ws
<1>6. q * LaneLength \in Nat
  BY <1>4
<1>7. tick \in q * LaneLength + ws .. q * LaneLength + ws + area - 1
  BY <1>1, <1>2, <1>6
<1>8. tick % LaneLength = (ws + rel) % LaneLength
  <2> DEFINE x == ws + rel
  <2>1. x \in Nat
    BY <1>1, <1>2
  <2> HIDE DEF x
  <2>2. (q * LaneLength + x) % LaneLength = x % LaneLength
    BY <1>4, <2>1, ModuloShift
  <2> QED BY <2>2 DEF x
<1> QED BY <1>3, <1>5, <1>7, <1>8 DEF SlotOf

(* J1 = 0 yields the newest block of the window.                           *)
LEMMA IndexNewest ==
  ASSUME NEW iter, NEW piece, NEW place, Position(iter, piece, place),
         NEW sameLane, LaneCase(iter, piece, sameLane),
         NEW tick \in Window(iter, piece, place, sameLane),
         \A older \in Window(iter, piece, place, sameLane) : older <= tick
  PROVE  IndexAlpha(iter, piece, place, 0, sameLane) = SlotOf(tick)
<1> DEFINE area == RefArea(iter, piece, place, sameLane)
           ws   == WindowStart(iter, piece)
<1>1. area \in Nat \ {0} /\ Relative(area, 0) = area - 1
  BY AreaBound, RelativeNewest, Layout
<1>2. ws \in Nat /\ LaneLength \in Nat \ {0}
  BY Layout DEF Position, Slice, Slices, WindowStart
<1>3. PICK q \in Nat :
        Window(iter, piece, place, sameLane)
          = q * LaneLength + ws .. q * LaneLength + ws + area - 1
  BY WindowOffsets
<1>4. IndexAlpha(iter, piece, place, 0, sameLane) = (ws + (area - 1)) % LaneLength
  BY <1>1 DEF IndexAlpha
<1> HIDE DEF area, ws
<1>5. q * LaneLength \in Nat
  BY <1>2
<1> DEFINE base == q * LaneLength
           x    == ws + (area - 1)
<1>6. base \in Nat /\ x \in Nat
  BY <1>1, <1>2, <1>5
<1>7. Window(iter, piece, place, sameLane) = base + ws .. base + x
  BY <1>1, <1>2, <1>3, <1>6
<1> HIDE DEF base
<1>8. base + x \in Window(iter, piece, place, sameLane)
  BY <1>1, <1>2, <1>6, <1>7
<1>9. tick = base + x
  BY <1>2, <1>6, <1>7, <1>8
<1> HIDE DEF x
<1>10. tick % LaneLength = x % LaneLength
  BY <1>2, <1>6, <1>9, ModuloShift DEF base
<1> QED BY <1>4, <1>10 DEF SlotOf, x

(* Where the reference may lie: never in the segment that the other lanes   *)
(* are filling, in its own lane never at or just before the current block.  *)
LEMMA IndexSeparated ==
  ASSUME NEW iter, NEW piece, NEW place, Position(iter, piece, place),
         NEW sameLane, LaneCase(iter, piece, sameLane),
         NEW j1 \in 0 .. Word - 1
  PROVE  LET r   == IndexAlpha(iter, piece, place, j1, sameLane)
             cur == piece * SegLength + place
         IN  /\ r \in Slot
             /\ ~sameLane => r \notin Segment(piece)
             /\ sameLane => /\ r # cur /\ r # Previous(cur)
                            /\ r \in Segment(piece) => r < cur
             /\ iter = 0 => r < piece * SegLength + (IF sameLane THEN place ELSE 0)
<1> DEFINE area == RefArea(iter, piece, place, sameLane)
           rel  == Relative(area, j1)
           ws   == WindowStart(iter, piece)
           r    == IndexAlpha(iter, piece, place, j1, sameLane)
<1>1. area \in 1 .. LaneLength - 2 /\ rel \in 0 .. area - 1
  BY AreaBound, RelativeBound, Layout
<1>2. /\ SegLength \in Nat /\ SegLength >= 2 /\ LaneLength = 4 * SegLength
      /\ piece \in 0 .. 3 /\ place \in 0 .. SegLength - 1
      /\ iter \in Nat /\ (iter = 0 /\ piece = 0 => place >= 2)
  BY Layout, TimeCostAssumption DEF Position, Slice, Slices, Start
<1>3. r = IF ws + rel < LaneLength THEN ws + rel ELSE ws + rel - LaneLength
  <2>1. ws \in 0 .. LaneLength
    BY <1>2 DEF WindowStart, Slices
  <2>2. ws + rel \in 0 .. 2 * LaneLength - 1
    BY <1>1, <1>2, <2>1
  <2>3. r = (ws + rel) % LaneLength
    BY DEF IndexAlpha
  <2> DEFINE x == ws + rel
  <2>4. LaneLength \in Nat \ {0} /\ x \in 0 .. 2 * LaneLength - 1
    BY <1>2, <2>2
  <2> HIDE DEF ws, rel, r, x
  <2>5. x % LaneLength = IF x < LaneLength THEN x ELSE x - LaneLength
    BY <2>4, ModuloWrap
  <2>6. r = x % LaneLength
    BY <2>3 DEF x
  <2>7. r = IF x < LaneLength THEN x ELSE x - LaneLength
    BY <2>5, <2>6
  <2>8. ws + rel = x
    BY DEF x
  <2> QED BY <1>1, <1>2, <2>1, <2>4, <2>7, <2>8
<1>4. /\ area = RefArea(iter, piece, place, sameLane)
      /\ ws = WindowStart(iter, piece)
  OBVIOUS
<1>5. sameLane \in BOOLEAN /\ (iter = 0 /\ piece = 0 => sameLane)
  BY DEF LaneCase
<1> HIDE DEF area, rel, ws, r
<1>6. CASE piece = 0
  BY <1>1, <1>2, <1>3, <1>4, <1>5, <1>6
     DEF RefArea, WindowStart, Slot, Segment, Previous, Slices, r
<1>7. CASE piece = 1
  BY <1>1, <1>2, <1>3, <1>4, <1>5, <1>7
     DEF RefArea, WindowStart, Slot, Segment, Previous, Slices, r
<1>8. CASE piece = 2
  BY <1>1, <1>2, <1>3, <1>4, <1>5, <1>8
     DEF RefArea, WindowStart, Slot, Segment, Previous, Slices, r
<1>9. CASE piece = 3
  BY <1>1, <1>2, <1>3, <1>4, <1>5, <1>9
     DEF RefArea, WindowStart, Slot, Segment, Previous, Slices, r
<1> QED BY <1>2, <1>6, <1>7, <1>8, <1>9

-----------------------------------------------------------------------------

Memories == [Lane -> [Slot -> Block]]

(* The pair that selects a reference is a pair of words, wherever it comes  *)
(* from.                                                                   *)
LEMMA PseudoRandomType ==
  ASSUME NEW mat \in Memories, NEW variety,
         NEW iter, NEW piece, NEW place, Position(iter, piece, place),
         NEW line \in Lane
  PROVE  LET j == PseudoRandom(mat, variety, iter, piece, line, place)
         IN  j[1] \in 0 .. Word - 1 /\ j[2] \in 0 .. Word - 1
<1>1. /\ iter \in 0 .. TimeCost - 1 /\ piece \in Slice
      /\ place \in 0 .. SegLength - 1
  BY Layout, TimeCostAssumption DEF Position, Start
<1>2. Previous(piece * SegLength + place) \in Slot
  BY <1>1, Layout DEF Previous, Slot, Slice, Slices
<1>3. mat[line][Previous(piece * SegLength + place)] \in Block
  BY <1>2 DEF Memories
<1>4. CASE DataIndependent(variety, iter, piece)
  BY <1>1, <1>4, AddressAssumption DEF PseudoRandom, PairAt
<1>5. CASE ~DataIndependent(variety, iter, piece)
  BY <1>3, <1>5, BlockAssumption DEF PseudoRandom, PairAt
<1> QED BY <1>4, <1>5

(* The reference of every iteration: a block that exists, that no other     *)
(* lane is storing in this slice and that its own lane has stored, not the  *)
(* block to store and not the one before it.                                *)
LEMMA ReferenceLemma ==
  ASSUME NEW mat \in Memories, NEW variety,
         NEW iter, NEW piece, NEW place, Position(iter, piece, place),
         NEW line \in Lane
  PROVE  LET ref == Reference(mat, variety, iter, piece, line, place)
             cur == piece * SegLength + place
         IN  /\ ref[1] \in Lane /\ ref[2] \in Slot
             /\ ref[1] # line => ref[2] \notin Segment(piece)
             /\ ref[1] = line => /\ ref[2] # cur /\ ref[2] # Previous(cur)
                                 /\ ref[2] \in Segment(piece) => ref[2] < cur
             /\ iter = 0 =>
                  ref[2] < piece * SegLength + (IF ref[1] = line THEN place ELSE 0)
<1> DEFINE j  == PseudoRandom(mat, variety, iter, piece, line, place)
           rl == RefLane(iter, piece, line, j[2])
           r  == IndexAlpha(iter, piece, place, j[1], rl = line)
<1>1. j[1] \in 0 .. Word - 1 /\ j[2] \in 0 .. Word - 1
  BY PseudoRandomType
<1>2. rl \in Lane
  BY <1>1, ParallelismAssumption, WordAssumption DEF RefLane, Lane
<1>3. LaneCase(iter, piece, rl = line)
  BY DEF LaneCase, RefLane
<1>4. /\ Reference(mat, variety, iter, piece, line, place)[1] = rl
      /\ Reference(mat, variety, iter, piece, line, place)[2] = r
  BY DEF Reference, Selected
<1> HIDE DEF j, rl, r
<1> DEFINE same == rl = line
<1>5. r = IndexAlpha(iter, piece, place, j[1], same) /\ LaneCase(iter, piece, same)
  BY <1>3 DEF r
<1> HIDE DEF same
<1>6. LET cur == piece * SegLength + place
      IN  /\ r \in Slot
          /\ ~same => r \notin Segment(piece)
          /\ same => /\ r # cur /\ r # Previous(cur)
                     /\ r \in Segment(piece) => r < cur
          /\ iter = 0 => r < piece * SegLength + (IF same THEN place ELSE 0)
  BY <1>1, <1>5, IndexSeparated
<1> QED BY <1>2, <1>4, <1>6 DEF same

(* One iteration stores a block at an existing place.                       *)
LEMMA FillType ==
  ASSUME NEW mat \in Memories, NEW variety, NEW edition,
         NEW iter, NEW piece, NEW place, Position(iter, piece, place),
         NEW line \in Lane
  PROVE  /\ piece * SegLength + place \in Slot
         /\ NewBlock(mat, variety, edition, iter, piece, line, place) \in Block
         /\ Fill(mat, variety, edition, iter, piece, line, place) \in Memories
<1> DEFINE cur == piece * SegLength + place
           ref == Reference(mat, variety, iter, piece, line, place)
           new == NewBlock(mat, variety, edition, iter, piece, line, place)
<1>1. /\ piece \in Slice /\ place \in 0 .. SegLength - 1
  BY Layout, TimeCostAssumption DEF Position, Start
<1>2. cur \in Slot /\ Previous(cur) \in Slot
  BY <1>1, Layout DEF Previous, Slot, Slice, Slices
<1>3. ref[1] \in Lane /\ ref[2] \in Slot
  BY ReferenceLemma
<1> HIDE DEF ref
<1>4. /\ mat[line][Previous(cur)] \in Block
      /\ mat[ref[1]][ref[2]] \in Block
      /\ mat[line][cur] \in Block
  BY <1>2, <1>3 DEF Memories
<1>5. new \in Block
  BY <1>4, BlockAssumption DEF NewBlock, BlockFrom, ref
<1> HIDE DEF new
<1>6. [mat EXCEPT ![line][cur] = new] \in Memories
  BY <1>2, <1>5 DEF Memories
<1> QED BY <1>2, <1>5, <1>6 DEF Fill, new

(* The memory the loops start from.                                         *)
LEMMA InitialMemoryType ==
  ASSUME NEW seed \in Seeds
  PROVE  InitialMemory(seed) \in Memories
BY HPrimeAssumption, BlockAssumption, Layout
   DEF InitialMemory, Memories, Lane, Slot

LEMMA FoldLaneType ==
  ASSUME NEW mat \in Memories, NEW block \in Block, NEW l \in Lane
  PROVE  FoldLane(mat, block, l) \in Block
<1>1. LaneLength - 1 \in Slot /\ 0 \in Lane
  BY Layout, ParallelismAssumption DEF Slot, Lane
<1> QED BY <1>1, BlockAssumption DEF FoldLane, Memories

-----------------------------------------------------------------------------
(* The loops.                                                                *)

\* The position of the loops is one of _fill_segment's, or its end.
Placed == index >= Start(pass, slice)

\* The stream is at the pair of that position.
Aligned == DataIndependent(variant, pass, slice) => drawn = index

IInv == TypeOK /\ Placed /\ Aligned

LEMMA PositionHere ==
  ASSUME IInv, pass < TimeCost, index < SegLength
  PROVE  Position(pass, slice, index)
BY Layout, TimeCostAssumption DEF IInv, TypeOK, Placed, Position, Start

LEMMA InitIInv == Init => IInv
<1> SUFFICES ASSUME Init PROVE IInv
  OBVIOUS
<1>1. mem \in Memories
  BY InitialMemoryType DEF Init
<1>2. /\ pass \in 0 .. TimeCost /\ slice \in Slice /\ lane \in Lane
      /\ index \in 0 .. SegLength /\ index >= Start(pass, slice)
      /\ variant \in Variants /\ version \in Versions
      /\ final \in Block /\ folded \in 0 .. Parallelism
  BY Layout, TimeCostAssumption, ParallelismAssumption, BlockAssumption
     DEF Init, Start, Slice, Slices, Lane
<1>3. drawn \in 0 .. SegLength /\ Aligned
  BY Layout DEF Init, Skipped, Start, Aligned
<1> QED BY <1>1, <1>2, <1>3 DEF IInv, TypeOK, Placed, Memories

\* The pair that the stream yields is that of the position, and so is the block.
LEMMA FillIsFill ==
  ASSUME Aligned, FillStep
  PROVE  mem' = Fill(mem, variant, version, pass, slice, lane, index)
<1>1. PairAt(mem, variant, pass, slice, lane, index, drawn)
        = PseudoRandom(mem, variant, pass, slice, lane, index)
  BY DEF Aligned, PseudoRandom, PairAt
<1>2. NextSelected = Reference(mem, variant, pass, slice, lane, index)
  BY <1>1 DEF NextSelected, Reference
<1> QED BY <1>2 DEF FillStep, Fill, NewBlock

LEMMA FillStepIInv == IInv /\ FillStep => IInv'
<1> SUFFICES ASSUME IInv, FillStep PROVE IInv'
  OBVIOUS
<1>1. Position(pass, slice, index)
  BY PositionHere DEF FillStep
<1>2. mem' \in Memories
  BY <1>1, FillIsFill, FillType DEF IInv, TypeOK, FillStep, Memories
<1>3. index' \in 0 .. SegLength /\ index' >= Start(pass', slice')
  BY Layout DEF IInv, TypeOK, Placed, FillStep, Start
<1>4. drawn' \in 0 .. SegLength /\ Aligned'
  BY Layout DEF IInv, TypeOK, Aligned, FillStep, DataIndependent
<1> QED BY <1>2, <1>3, <1>4 DEF IInv, TypeOK, Placed, FillStep, Memories

LEMMA NextSegmentIInv == IInv /\ NextSegment => IInv'
<1> SUFFICES ASSUME IInv, NextSegment PROVE IInv'
  OBVIOUS
<1>1. pass' \in 0 .. TimeCost /\ slice' \in Slice /\ lane' \in Lane
  BY TimeCostAssumption, ParallelismAssumption
     DEF IInv, TypeOK, NextSegment, Slice, Slices, Lane
<1>2. index' \in 0 .. SegLength /\ index' >= Start(pass', slice')
  BY Layout DEF NextSegment, Start
<1>3. drawn' \in 0 .. SegLength /\ Aligned'
  BY <1>2, Layout DEF NextSegment, Skipped, Start, Aligned, DataIndependent
<1> QED BY <1>1, <1>2, <1>3 DEF IInv, TypeOK, Placed, NextSegment

LEMMA FoldStepIInv == IInv /\ FoldStep => IInv'
<1> SUFFICES ASSUME IInv, FoldStep PROVE IInv'
  OBVIOUS
<1>1. folded \in Lane /\ folded' \in 0 .. Parallelism
  BY ParallelismAssumption DEF IInv, TypeOK, FoldStep, Lane
<1>2. final' \in Block
  BY <1>1, FoldLaneType DEF IInv, TypeOK, FoldStep, Memories
<1> QED BY <1>1, <1>2 DEF IInv, TypeOK, Placed, Aligned, FoldStep

(* IInv is inductive.                                                       *)
THEOREM Inductive == Spec => []IInv
<1>1. IInv /\ [Next]_vars => IInv'
  <2> SUFFICES ASSUME IInv, [Next]_vars PROVE IInv'
    OBVIOUS
  <2>1. CASE UNCHANGED vars
    BY <2>1 DEF vars, IInv, TypeOK, Placed, Aligned
  <2> QED
    BY <2>1, FillStepIInv, NextSegmentIInv, FoldStepIInv DEF Next
<1> QED BY InitIInv, <1>1, PTL DEF Spec

(* No iteration reads or writes outside the matrix or the set of blocks,    *)
(* and the loop variables stay in range (kdf.py:369-389).                   *)
THEOREM TypeCorrect == Spec => []TypeOK
BY Inductive, PTL DEF IInv

(* The reference of every iteration is in the window of RFC 9106, section   *)
(* 3.4.2, and J1 = 0 selects the newest block of it (_index_alpha).         *)
THEOREM WindowCorrect == Spec => []ReferenceInWindow
<1>1. IInv => ReferenceInWindow
  <2> SUFFICES ASSUME IInv, pass < TimeCost, index < SegLength,
                      NEW same \in IF pass = 0 /\ slice = 0 THEN {TRUE} ELSE BOOLEAN
               PROVE  LET window == Window(pass, slice, index, same)
                      IN  /\ \A j \in 0 .. Word - 1 :
                               \E tick \in window :
                                  IndexAlpha(pass, slice, index, j, same) = SlotOf(tick)
                          /\ \A tick \in window :
                               (\A older \in window : older <= tick) =>
                                  IndexAlpha(pass, slice, index, 0, same) = SlotOf(tick)
    BY DEF ReferenceInWindow
  <2>1. Position(pass, slice, index)
    BY PositionHere
  <2>2. LaneCase(pass, slice, same)
    BY DEF LaneCase
  <2> QED BY <2>1, <2>2, IndexInWindow, IndexNewest
<1> QED BY Inductive, <1>1, PTL

-----------------------------------------------------------------------------

(* Lanes!op is op: Lanes replaces none of the symbols these depend on.      *)
LEMMA SameLayout ==
  /\ Lanes!Lane = Lane /\ Lanes!Slot = Slot /\ Lanes!Slices = Slices
  /\ Lanes!LaneLength = LaneLength /\ Lanes!SegLength = SegLength
  /\ Lanes!Variants = Variants /\ Lanes!Versions = Versions
BY DEF Lanes!Lane, Lanes!Slot, Lanes!Slices, Lanes!LaneLength, Lanes!SegLength,
       Lanes!MPrime, Lanes!Variants, Lanes!Versions, Lanes!ARGON2D,
       Lanes!ARGON2I, Lanes!ARGON2ID,
       Lane, Slot, Slices, LaneLength, SegLength, MPrime, Variants, Versions,
       ARGON2D, ARGON2I, ARGON2ID

LEMMA SameStart ==
  ASSUME NEW p, NEW s
  PROVE  Lanes!Start(p, s) = Start(p, s)
BY DEF Lanes!Start, Start

LEMMA SameInitialMemory ==
  ASSUME NEW seed
  PROVE  Lanes!InitialMemory(seed) = InitialMemory(seed)
BY SameLayout DEF Lanes!InitialMemory, InitialMemory

LEMMA SameFoldLane ==
  ASSUME NEW m, NEW f, NEW l
  PROVE  Lanes!FoldLane(m, f, l) = FoldLane(m, f, l)
BY SameLayout DEF Lanes!FoldLane, FoldLane

LEMMA SameReference ==
  ASSUME NEW m, NEW va, NEW p, NEW s, NEW l, NEW i
  PROVE  Lanes!Reference(m, va, p, s, l, i) = Reference(m, va, p, s, l, i)
BY DEF Lanes!Reference, Lanes!Selected, Lanes!PseudoRandom, Lanes!PairAt, Lanes!DataIndependent, Lanes!Previous,
       Lanes!RefLane, Lanes!IndexAlpha, Lanes!WindowStart, Lanes!Relative,
       Lanes!RefArea, Lanes!LaneLength, Lanes!SegLength, Lanes!MPrime, Lanes!Slices,
       Lanes!ARGON2I, Lanes!ARGON2ID,
       Reference, Selected, PseudoRandom, PairAt, DataIndependent, Previous,
       RefLane, IndexAlpha, WindowStart, Relative,
       RefArea, LaneLength, SegLength, MPrime, Slices, ARGON2I, ARGON2ID

LEMMA SameFill ==
  ASSUME NEW m, NEW va, NEW ve, NEW p, NEW s, NEW l, NEW i
  PROVE  Lanes!Fill(m, va, ve, p, s, l, i) = Fill(m, va, ve, p, s, l, i)
BY SameReference, SameLayout
   DEF Lanes!Fill, Lanes!NewBlock, Lanes!BlockFrom, Lanes!Previous, Fill, NewBlock, BlockFrom, Previous

LEMMA InitRefines == Init => Lanes!Init
<1> SUFFICES ASSUME Init PROVE Lanes!Init
  OBVIOUS
<1>1. laneIndex = [l \in Lane |-> Start(0, 0)]
  BY DEF Init, laneIndex, Lane
<1> QED
  BY <1>1, SameLayout, SameStart, SameInitialMemory DEF Init, Lanes!Init

LEMMA FillStepRefines == IInv /\ FillStep => Lanes!FillStep(lane)
<1> SUFFICES ASSUME IInv, FillStep PROVE Lanes!FillStep(lane)
  OBVIOUS
<1>1. lane \in Lane /\ laneIndex[lane] = index
  BY DEF IInv, TypeOK, laneIndex, Lane
<1>2. laneIndex' = [laneIndex EXCEPT ![lane] = @ + 1]
  <2>1. laneIndex' = [l \in Lane |-> IF l < lane THEN SegLength
                                     ELSE IF l = lane THEN index + 1
                                     ELSE Start(pass, slice)]
    BY DEF FillStep, laneIndex
  <2>2. [laneIndex EXCEPT ![lane] = @ + 1]
          = [l \in Lane |-> IF l = lane THEN index + 1 ELSE laneIndex[l]]
    BY <1>1 DEF laneIndex
  <2>3. \A l \in Lane : (IF l < lane THEN SegLength
                         ELSE IF l = lane THEN index + 1 ELSE Start(pass, slice))
                        = (IF l = lane THEN index + 1 ELSE laneIndex[l])
    BY <1>1 DEF laneIndex, Lane
  <2> QED BY <2>1, <2>2, <2>3
<1> QED BY <1>1, <1>2, FillIsFill, SameLayout, SameFill DEF IInv, FillStep, Lanes!FillStep

(* The end of a segment is a barrier after the last lane, and invisible      *)
(* before.                                                                  *)
LEMMA NextSegmentRefines ==
  IInv /\ NextSegment => Lanes!Barrier \/ UNCHANGED Lanes!vars
<1> SUFFICES ASSUME IInv, NextSegment
             PROVE  Lanes!Barrier \/ UNCHANGED Lanes!vars
  OBVIOUS
<1>1. lane \in 0 .. Parallelism - 1 /\ Parallelism \in Nat \ {0}
  BY ParallelismAssumption DEF IInv, TypeOK, Lane
<1>2. CASE lane < Parallelism - 1
  <2>1. /\ lane' = lane + 1 /\ slice' = slice /\ pass' = pass
        /\ index = SegLength /\ index' = Start(pass, slice)
    BY <1>1, <1>2 DEF NextSegment
  <2>2. laneIndex' = laneIndex
    <3>1. \A l \in Lane :
            (IF l < lane + 1 THEN SegLength
             ELSE IF l = lane + 1 THEN index' ELSE Start(pass, slice))
            = (IF l < lane THEN SegLength
               ELSE IF l = lane THEN index ELSE Start(pass, slice))
      BY <1>1, <2>1 DEF Lane
    <3> QED BY <2>1, <3>1 DEF laneIndex
  <2> QED BY <2>1, <2>2 DEF NextSegment, Lanes!vars
<1>3. CASE lane = Parallelism - 1
  <2>1. laneIndex = [l \in Lane |-> SegLength]
    BY <1>1, <1>3 DEF laneIndex, NextSegment, Lane
  <2>2. lane' = 0 /\ index' = Start(pass', slice')
    BY <1>3 DEF NextSegment
  <2>3. laneIndex' = [l \in Lane |-> Start(pass', slice')]
    <3>1. \A l \in Lane :
            (IF l < 0 THEN SegLength
             ELSE IF l = 0 THEN index' ELSE Start(pass', slice'))
            = Start(pass', slice')
      BY <2>2 DEF Lane
    <3> QED BY <2>2, <3>1 DEF laneIndex
  <2>4. IF slice = Slices - 1
        THEN pass' = pass + 1 /\ slice' = 0
        ELSE pass' = pass /\ slice' = slice + 1
    BY <1>3 DEF NextSegment, IInv, TypeOK, Slice, Slices
  <2>5. Lanes!Barrier
    BY <2>1, <2>3, <2>4, SameLayout, SameStart DEF NextSegment, Lanes!Barrier
  <2> QED BY <2>5
<1> QED BY <1>1, <1>2, <1>3

LEMMA FoldStepRefines == FoldStep => Lanes!FoldStep
BY SameFoldLane DEF FoldStep, Lanes!FoldStep, laneIndex

(* argon2's sequential loops take only steps of the parallel execution, and  *)
(* start where it starts: the safety part of ImplementsLanes.                *)
THEOREM Refinement == Spec => Lanes!Safety
<1>1. IInv /\ [Next]_vars => [Lanes!Next]_(Lanes!vars)
  <2> SUFFICES ASSUME IInv, [Next]_vars PROVE [Lanes!Next]_(Lanes!vars)
    OBVIOUS
  <2>1. CASE FillStep
    BY <2>1, FillStepRefines, SameLayout DEF Lanes!Next, IInv, TypeOK
  <2>2. CASE NextSegment
    BY <2>2, NextSegmentRefines DEF Lanes!Next
  <2>3. CASE FoldStep
    BY <2>3, FoldStepRefines DEF Lanes!Next
  <2>4. CASE UNCHANGED vars
    BY <2>4 DEF vars, Lanes!vars, laneIndex
  <2> QED BY <2>1, <2>2, <2>3, <2>4 DEF Next
<1> QED BY InitRefines, Inductive, <1>1, PTL DEF Spec, Lanes!Safety

-----------------------------------------------------------------------------
(* The order of the lanes.                                                   *)

\* X and Y stand for the two executions, in either role.
Equal(memX, indexX, memY, indexY) ==
  \A l \in Lane : \A s \in Slot \ Ahead(indexX[l], indexY[l]) :
     memX[l][s] = memY[l][s]

\* Y, restored to what it was when it computed slot x of lane l.
Restored(memX, memY, l, x) == [memY EXCEPT ![l][x] = memX[l][x]]

Replayable(memX, indexX, memY, indexY) ==
  \A l \in Lane : \A i \in indexX[l] .. indexY[l] - 1 :
     memY[l][sharedSlice * SegLength + i]
       = NewBlock(Restored(memX, memY, l, sharedSlice * SegLength + i),
                  sharedVariant, sharedVersion, sharedPass, sharedSlice, l, i)

Indexes == {f \in [Lane -> 0 .. SegLength] : \A l \in Lane : f[l] >= Start(sharedPass, sharedSlice)}

Types ==
  /\ memA \in Memories /\ memB \in Memories
  /\ indexA \in Indexes /\ indexB \in Indexes
  /\ finalA \in Block /\ finalB \in Block
  /\ sharedFolded \in 0 .. Parallelism
  /\ sharedPass \in 0 .. TimeCost /\ sharedSlice \in Slice

OrderIInv ==
  /\ Types
  /\ Equal(memA, indexA, memB, indexB) /\ finalA = finalB
  /\ Replayable(memA, indexA, memB, indexB)
  /\ Replayable(memB, indexB, memA, indexA)
  /\ sharedPass = TimeCost => indexA = indexB

-----------------------------------------------------------------------------
(* What NewBlock reads.                                                      *)

LEMMA SegmentSlots ==
  ASSUME NEW s \in Slice
  PROVE  /\ s * SegLength \in Nat /\ SegLength \in Nat \ {0, 1}
         /\ Segment(s) = s * SegLength .. s * SegLength + SegLength - 1
         /\ Segment(s) \subseteq Slot
<1>1. SegLength \in Nat \ {0, 1} /\ LaneLength = 4 * SegLength /\ s \in 0 .. 3
  BY Layout DEF Slice, Slices
<1>2. s * SegLength \in Nat /\ (s + 1) * SegLength = s * SegLength + SegLength
  BY <1>1
<1>3. s * SegLength + SegLength <= LaneLength
  BY <1>1
<1> QED BY <1>1, <1>2, <1>3 DEF Segment, Slot

(* NewBlock reads the settled segments of all lanes and its own lane up to   *)
(* the block it replaces, and nothing else.                                  *)
LEMMA NewBlockReads ==
  ASSUME NEW m \in Memories, NEW n \in Memories,
         NEW p, NEW s, NEW i, Position(p, s, i), NEW l \in Lane,
         NEW va, NEW ve,
         \A k \in Lane : \A x \in Slot \ Segment(s) : m[k][x] = n[k][x],
         \A x \in Segment(s) : x <= s * SegLength + i => m[l][x] = n[l][x]
  PROVE  NewBlock(m, va, ve, p, s, l, i) = NewBlock(n, va, ve, p, s, l, i)
<1> DEFINE cur == s * SegLength + i
           ref == Reference(m, va, p, s, l, i)
<1>1. /\ SegLength \in Nat /\ SegLength >= 2 /\ LaneLength = 4 * SegLength
      /\ s \in 0 .. 3 /\ i \in 0 .. SegLength - 1
  BY Layout, TimeCostAssumption DEF Position, Slice, Slices, Start
<1>2. cur \in Segment(s) /\ cur \in Slot
  BY <1>1, SegmentSlots DEF Slice, Slices
<1>3. m[l][cur] = n[l][cur]
  BY <1>1, <1>2
<1>4. m[l][Previous(cur)] = n[l][Previous(cur)]
  <2>1. CASE i = 0
    <3>1. Previous(cur) \in Slot \ Segment(s)
      BY <1>1, <2>1 DEF Previous, Slot, Segment
    <3> QED BY <3>1
  <2>2. CASE i # 0
    <3>1. Previous(cur) \in Segment(s) /\ Previous(cur) <= cur
      BY <1>1, <2>2 DEF Previous, Segment
    <3> QED BY <3>1
  <2> QED BY <2>1, <2>2
<1>5. ref = Reference(n, va, p, s, l, i)
  BY <1>4 DEF Reference, Selected, PseudoRandom, PairAt
<1>6. /\ ref[1] \in Lane /\ ref[2] \in Slot
      /\ ref[1] # l => ref[2] \notin Segment(s)
      /\ ref[1] = l => (ref[2] \in Segment(s) => ref[2] < cur)
  BY ReferenceLemma
<1> HIDE DEF ref
<1>7. m[ref[1]][ref[2]] = n[ref[1]][ref[2]]
  <2>1. CASE ref[2] \in Segment(s)
    <3>1. ref[1] = l /\ ref[2] <= cur
      BY <1>1, <1>6, <2>1 DEF Segment
    <3> QED BY <2>1, <3>1
  <2>2. CASE ref[2] \notin Segment(s)
    BY <1>6, <2>2
  <2> QED BY <2>1, <2>2
<1> QED BY <1>3, <1>4, <1>5, <1>7 DEF NewBlock, BlockFrom, ref

(* Restored differs from Y only in the block it puts back.                   *)
LEMMA RestoredLemma ==
  ASSUME NEW mX \in Memories, NEW mY \in Memories,
         NEW k \in Lane, NEW x \in Slot
  PROVE  LET r == Restored(mX, mY, k, x)
         IN  /\ r \in Memories /\ r[k][x] = mX[k][x]
             /\ \A k2 \in Lane, x2 \in Slot :
                  <<k2, x2>> # <<k, x>> => r[k2][x2] = mY[k2][x2]
<1> DEFINE v == mX[k][x]
<1>1. v \in Block
  BY DEF Memories
<1>2. Restored(mX, mY, k, x) = [mY EXCEPT ![k][x] = v]
  BY DEF Restored
<1> HIDE DEF v
<1>3. /\ [mY EXCEPT ![k][x] = v] \in Memories
      /\ [mY EXCEPT ![k][x] = v][k][x] = v
      /\ \A k2 \in Lane, x2 \in Slot :
           <<k2, x2>> # <<k, x>> => [mY EXCEPT ![k][x] = v][k2][x2] = mY[k2][x2]
  BY <1>1 DEF Memories
<1> QED BY <1>2, <1>3 DEF v

(* How the slots of Ahead change when the first execution stores its block i. *)
LEMMA AheadLemma ==
  ASSUME sharedSlice \in Slice, NEW i \in 0 .. SegLength - 1, NEW j \in 0 .. SegLength,
         NEW x \in Segment(sharedSlice)
  PROVE  LET cur == sharedSlice * SegLength + i
         IN  /\ x # cur /\ x \notin Ahead(i + 1, j) => x \notin Ahead(i, j)
             /\ cur \notin Ahead(i + 1, j) => i < j
             /\ j <= i => cur \notin Ahead(i, j)
             /\ x < cur /\ i < j => x \notin Ahead(i, j)
<1> DEFINE b == sharedSlice * SegLength
<1>1. b \in Nat /\ SegLength \in Nat /\ Segment(sharedSlice) = b .. b + SegLength - 1
  BY SegmentSlots
<1>2. \A y, p, q : y \in Ahead(p, q) <=> y \in Segment(sharedSlice) /\ (y < b + p) # (y < b + q)
  BY DEF Ahead
<1> HIDE DEF b
<1>3. /\ i \in Int /\ j \in Int /\ x \in Int /\ b \in Int
      /\ 0 <= i /\ i < SegLength /\ b + i \in Segment(sharedSlice)
  BY <1>1
<1>4. x # b + i /\ x \notin Ahead(i + 1, j) => x \notin Ahead(i, j)
  BY <1>2, <1>3
<1>5. b + i \notin Ahead(i + 1, j) => i < j
  BY <1>2, <1>3
<1>6. j <= i => b + i \notin Ahead(i, j)
  BY <1>2, <1>3
<1>7. x < b + i /\ i < j => x \notin Ahead(i, j)
  BY <1>2, <1>3
<1> QED BY <1>4, <1>5, <1>6, <1>7 DEF b

-----------------------------------------------------------------------------
(* One execution, X, takes a step in lane l; the other one, Y, does not.     *)

StepOf(mX, iX, l, mZ, iZ) ==
  /\ mZ = Fill(mX, sharedVariant, sharedVersion, sharedPass, sharedSlice, l, iX[l])
  /\ iZ = [iX EXCEPT ![l] = @ + 1]

LEMMA StepPreserves ==
  ASSUME NEW mX \in Memories, NEW iX \in Indexes,
         NEW mY \in Memories, NEW iY \in Indexes,
         sharedPass \in 0 .. TimeCost - 1, sharedSlice \in Slice,
         Equal(mX, iX, mY, iY),
         Replayable(mX, iX, mY, iY), Replayable(mY, iY, mX, iX),
         NEW l \in Lane, iX[l] < SegLength,
         NEW mZ \in Memories, NEW iZ \in Indexes, StepOf(mX, iX, l, mZ, iZ)
  PROVE  /\ Equal(mZ, iZ, mY, iY)
         /\ Replayable(mZ, iZ, mY, iY)
         /\ Replayable(mY, iY, mZ, iZ)
<1> DEFINE base == sharedSlice * SegLength
           i    == iX[l]
           cur  == base + i
           new  == NewBlock(mX, sharedVariant, sharedVersion, sharedPass, sharedSlice, l, i)
<1>1. /\ base \in Nat /\ SegLength \in Nat \ {0, 1}
      /\ Segment(sharedSlice) = base .. base + SegLength - 1
      /\ Segment(sharedSlice) \subseteq Slot
  BY SegmentSlots
<1>2. /\ \A k \in Lane : iX[k] \in 0 .. SegLength /\ iY[k] \in 0 .. SegLength
      /\ iX \in [Lane -> 0 .. SegLength] /\ iY \in [Lane -> 0 .. SegLength]
      /\ i \in 0 .. SegLength - 1 /\ i >= Start(sharedPass, sharedSlice)
  BY <1>1 DEF Indexes
<1>3. Position(sharedPass, sharedSlice, i)
  BY <1>2, Layout, TimeCostAssumption DEF Position, Start
<1>4. cur \in Segment(sharedSlice) /\ cur \in Slot
  BY <1>1, <1>2
<1>5. new \in Block
  BY <1>3, FillType
<1>7. /\ iZ[l] = i + 1
      /\ \A k \in Lane : k # l => iZ[k] = iX[k]
  BY <1>2 DEF StepOf
<1>8. /\ mZ[l][cur] = new
      /\ \A k \in Lane, x \in Slot : <<k, x>> # <<l, cur>> => mZ[k][x] = mX[k][x]
  BY <1>4 DEF StepOf, Fill, Memories
<1>9. \A k \in Lane, x \in Slot \ Segment(sharedSlice) : mZ[k][x] = mX[k][x] /\ mX[k][x] = mY[k][x]
  BY <1>4, <1>8 DEF Equal, Ahead
<1> HIDE DEF base, i, cur, new
<1>10. cur = base + i
  BY DEF cur
<1>11. Equal(mZ, iZ, mY, iY)
  <2> SUFFICES ASSUME NEW k \in Lane, NEW x \in Slot \ Ahead(iZ[k], iY[k])
               PROVE  mZ[k][x] = mY[k][x]
    BY DEF Equal
  <2>1. CASE x \notin Segment(sharedSlice)
    BY <1>9, <2>1
  <2>2. CASE x \in Segment(sharedSlice) /\ <<k, x>> # <<l, cur>>
    <3>1. x \notin Ahead(iX[k], iY[k])
      <4>1. CASE k # l
        BY <1>7, <4>1
      <4>2. CASE k = l
        <5>1. x # sharedSlice * SegLength + i /\ x \notin Ahead(i + 1, iY[l])
          BY <1>7, <2>2, <4>2 DEF cur, base
        <5>2. i \in 0 .. SegLength - 1 /\ iY[l] \in 0 .. SegLength
          BY <1>2
        <5> QED BY <2>2, <4>2, <5>1, <5>2, AheadLemma DEF i
      <4> QED BY <4>1, <4>2
    <3> QED BY <1>8, <2>2, <3>1 DEF Equal
  <2>3. CASE k = l /\ x = cur
    <3>1. i < iY[l]
      <4>1. sharedSlice * SegLength + i \notin Ahead(i + 1, iY[l])
        BY <1>7, <2>3 DEF cur, base
      <4>2. i \in 0 .. SegLength - 1 /\ iY[l] \in 0 .. SegLength
        BY <1>2
      <4> QED BY <1>4, <4>1, <4>2, AheadLemma
    <3> DEFINE r == Restored(mX, mY, l, cur)
    <3>2. i \in iX[l] .. iY[l] - 1
      BY <1>2, <3>1 DEF i
    <3>3. mY[l][cur] = NewBlock(r, sharedVariant, sharedVersion, sharedPass, sharedSlice, l, i)
      BY <3>2 DEF Replayable, cur, base
    <3>4. /\ r \in Memories /\ r[l][cur] = mX[l][cur]
          /\ \A k2 \in Lane, x2 \in Slot :
               <<k2, x2>> # <<l, cur>> => r[k2][x2] = mY[k2][x2]
      BY <1>4, RestoredLemma
    <3>5. \A y \in Segment(sharedSlice) : y <= sharedSlice * SegLength + i => mX[l][y] = r[l][y]
      <4> SUFFICES ASSUME NEW y \in Segment(sharedSlice), y <= cur
                   PROVE  mX[l][y] = r[l][y]
        BY DEF cur, base
      <4>1. CASE y = cur
        BY <3>4, <4>1
      <4>2. CASE y # cur
        <5>1. y < sharedSlice * SegLength + i
          BY <1>1, <1>4, <4>2 DEF cur, base
        <5>2. i \in 0 .. SegLength - 1 /\ iY[l] \in 0 .. SegLength
          BY <1>2
        <5>3. y \notin Ahead(iX[l], iY[l])
          BY <3>1, <5>1, <5>2, AheadLemma DEF i
        <5> QED BY <1>1, <3>4, <4>2, <5>3 DEF Equal
      <4> QED BY <4>1, <4>2
    <3>6. \A k2 \in Lane : \A y \in Slot \ Segment(sharedSlice) : mX[k2][y] = r[k2][y]
      BY <1>4, <1>9, <3>4
    <3> HIDE DEF r
    <3>7. new = NewBlock(r, sharedVariant, sharedVersion, sharedPass, sharedSlice, l, i)
      BY <1>3, <3>4, <3>5, <3>6, NewBlockReads DEF new, i
    <3> QED BY <1>8, <2>3, <3>3, <3>7
  <2> QED BY <2>1, <2>2, <2>3
<1>12. Replayable(mZ, iZ, mY, iY)
  <2> SUFFICES ASSUME NEW k \in Lane, NEW j \in iZ[k] .. iY[k] - 1
               PROVE  mY[k][base + j] = NewBlock(Restored(mZ, mY, k, base + j), sharedVariant,
                                                 sharedVersion, sharedPass, sharedSlice, k, j)
    BY DEF Replayable, base
  <2>1. j \in iX[k] .. iY[k] - 1 /\ <<k, base + j>> # <<l, cur>> /\ base + j \in Slot
    <3>1. iX[k] \in 0 .. SegLength /\ iY[k] \in 0 .. SegLength
      BY <1>2
    <3>2. iZ[k] = IF k = l THEN iX[k] + 1 ELSE iX[k]
      BY <1>7 DEF i
    <3>3. j \in iX[k] .. iY[k] - 1 /\ j \in 0 .. SegLength - 1
      BY <1>1, <3>1, <3>2
    <3>4. k = l => j # i
      BY <3>1, <3>2 DEF i
    <3>5. i \in Int /\ j \in Int /\ base \in Int
      BY <1>1, <1>2, <3>3
    <3>6. k = l => base + j # cur
      BY <1>10, <3>4, <3>5
    <3>7. base + j \in Slot
      BY <1>1, <3>3
    <3> QED BY <3>3, <3>6, <3>7
  <2>2. Restored(mZ, mY, k, base + j) = Restored(mX, mY, k, base + j)
    BY <1>8, <2>1 DEF Restored, base
  <2> QED BY <2>1, <2>2 DEF Replayable, base
<1>13. Replayable(mY, iY, mZ, iZ)
  <2> SUFFICES ASSUME NEW k \in Lane, NEW j \in iY[k] .. iZ[k] - 1
               PROVE  mZ[k][base + j] = NewBlock(Restored(mY, mZ, k, base + j), sharedVariant,
                                                 sharedVersion, sharedPass, sharedSlice, k, j)
    BY DEF Replayable, base
  <2> DEFINE s == Restored(mY, mZ, k, base + j)
  <2>1. /\ j \in 0 .. SegLength - 1 /\ base + j \in Segment(sharedSlice)
        /\ base + j \in Slot /\ Position(sharedPass, sharedSlice, j)
    <3>1. iZ[k] \in 0 .. SegLength /\ iY[k] \in 0 .. SegLength /\ iY[k] >= Start(sharedPass, sharedSlice)
      BY DEF Indexes
    <3>2. j \in 0 .. SegLength - 1 /\ j >= Start(sharedPass, sharedSlice)
      BY <1>1, <3>1 DEF Start
    <3> QED BY <1>1, <3>2, Layout, TimeCostAssumption DEF Position, Start, base
  <2>2. /\ s \in Memories /\ s[k][base + j] = mY[k][base + j]
        /\ \A k2 \in Lane, x2 \in Slot :
             <<k2, x2>> # <<k, base + j>> => s[k2][x2] = mZ[k2][x2]
    BY <2>1, RestoredLemma
  <2>3. CASE <<k, j>> # <<l, i>>
    <3> DEFINE t == Restored(mY, mX, k, base + j)
    <3>1. /\ j \in iY[k] .. iX[k] - 1
          /\ <<k, base + j>> # <<l, cur>>
          /\ k = l => j < i
      <4>1. CASE k # l
        <5>1. iZ[k] = iX[k]
          BY <1>7, <4>1
        <5> QED BY <4>1, <5>1
      <4>2. CASE k = l
        <5>1. /\ iZ[k] = i + 1 /\ iX[k] = i /\ j # i
              /\ i \in Int /\ j \in Int /\ base \in Int /\ iY[k] \in Int
          BY <1>1, <1>2, <1>7, <2>1, <2>3, <4>2 DEF i
        <5>2. j \in iY[k] .. i - 1
          BY <5>1
        <5>3. base + j # cur
          BY <1>10, <5>1
        <5> QED BY <5>1, <5>2, <5>3
      <4> QED BY <4>1, <4>2
    <3>2. mX[k][base + j] = NewBlock(t, sharedVariant, sharedVersion, sharedPass, sharedSlice, k, j)
      BY <3>1 DEF Replayable, base
    <3>3. /\ t \in Memories /\ t[k][base + j] = mY[k][base + j]
          /\ \A k2 \in Lane, x2 \in Slot :
               <<k2, x2>> # <<k, base + j>> => t[k2][x2] = mX[k2][x2]
      BY <2>1, RestoredLemma
    <3>4. \A k2 \in Lane : \A y \in Slot \ Segment(sharedSlice) : t[k2][y] = s[k2][y]
      BY <1>9, <2>1, <2>2, <3>3
    <3>5. \A y \in Segment(sharedSlice) : y <= sharedSlice * SegLength + j => t[k][y] = s[k][y]
      <4> SUFFICES ASSUME NEW y \in Segment(sharedSlice), y <= base + j
                   PROVE  t[k][y] = s[k][y]
        BY DEF base
      <4>1. CASE y = base + j
        BY <2>2, <3>3, <4>1
      <4>2. CASE y # base + j
        <5>1. <<k, y>> # <<l, cur>> /\ y \in Slot
          <6>1. y \in Int /\ j \in Int /\ base \in Int /\ i \in Int /\ y \in Slot
            BY <1>1, <1>2, <2>1
          <6>2. k = l => y # base + i
            BY <3>1, <6>1
          <6> QED BY <1>10, <6>1, <6>2
        <5> QED BY <1>8, <2>2, <3>3, <4>2, <5>1
      <4> QED BY <4>1, <4>2
    <3> HIDE DEF s, t
    <3>6. NewBlock(t, sharedVariant, sharedVersion, sharedPass, sharedSlice, k, j)
            = NewBlock(s, sharedVariant, sharedVersion, sharedPass, sharedSlice, k, j)
      BY <2>1, <2>2, <3>3, <3>4, <3>5, NewBlockReads
    <3>7. mZ[k][base + j] = mX[k][base + j]
      BY <1>8, <2>1, <3>1
    <3> QED BY <3>2, <3>6, <3>7 DEF s
  <2>4. CASE k = l /\ j = i
    <3>1. iY[l] <= i /\ i \in 0 .. SegLength - 1 /\ iY[l] \in 0 .. SegLength
      BY <1>2, <2>4
    <3>2. cur \notin Ahead(iX[l], iY[l])
      BY <1>4, <3>1, AheadLemma DEF cur, base, i
    <3>3. mX[l][cur] = mY[l][cur]
      BY <1>4, <3>2 DEF Equal
    <3>4. \A k2 \in Lane, x2 \in Slot : s[k2][x2] = mX[k2][x2]
      BY <1>8, <1>10, <2>2, <2>4, <3>3
    <3>5. \A k2 \in Lane : \A y \in Slot \ Segment(sharedSlice) : mX[k2][y] = s[k2][y]
      BY <3>4
    <3>6. \A y \in Segment(sharedSlice) : y <= sharedSlice * SegLength + i => mX[l][y] = s[l][y]
      BY <1>1, <3>4
    <3> HIDE DEF s
    <3>7. new = NewBlock(s, sharedVariant, sharedVersion, sharedPass, sharedSlice, l, i)
      BY <1>3, <2>2, <3>5, <3>6, NewBlockReads DEF new, i
    <3> QED BY <1>8, <1>10, <2>4, <3>7 DEF s
  <2> QED BY <2>3, <2>4
<1> QED BY <1>11, <1>12, <1>13

-----------------------------------------------------------------------------
(* A!op and B!op are op: the instances replace none of the symbols they      *)
(* depend on.                                                                *)

LEMMA SameLayoutA ==
  /\ A!Lane = Lane /\ A!Slot = Slot /\ A!Slices = Slices
  /\ A!LaneLength = LaneLength /\ A!SegLength = SegLength
BY DEF A!Lane, A!Slot, A!Slices, A!LaneLength, A!SegLength, A!MPrime,
       Lane, Slot, Slices, LaneLength, SegLength, MPrime

LEMMA SameReferenceA ==
  ASSUME NEW m, NEW va, NEW p, NEW s, NEW l, NEW i
  PROVE  A!Reference(m, va, p, s, l, i) = Reference(m, va, p, s, l, i)
BY DEF A!Reference, A!Selected, A!PseudoRandom, A!PairAt, A!DataIndependent, A!Previous, A!RefLane,
       A!IndexAlpha, A!WindowStart, A!Relative, A!RefArea, A!LaneLength,
       A!SegLength, A!MPrime, A!Slices, A!ARGON2I, A!ARGON2ID,
       Reference, Selected, PseudoRandom, PairAt, DataIndependent, Previous, RefLane,
       IndexAlpha, WindowStart, Relative, RefArea, LaneLength,
       SegLength, MPrime, Slices, ARGON2I, ARGON2ID

LEMMA SameFillA ==
  ASSUME NEW m, NEW va, NEW ve, NEW p, NEW s, NEW l, NEW i
  PROVE  A!Fill(m, va, ve, p, s, l, i) = Fill(m, va, ve, p, s, l, i)
BY SameReferenceA, SameLayoutA
   DEF A!Fill, A!NewBlock, A!BlockFrom, A!Previous, Fill, NewBlock, BlockFrom, Previous

LEMMA SameFoldLaneA ==
  ASSUME NEW m, NEW f, NEW l
  PROVE  A!FoldLane(m, f, l) = FoldLane(m, f, l)
BY SameLayoutA DEF A!FoldLane, FoldLane

LEMMA SameLayoutB ==
  /\ B!Lane = Lane /\ B!Slot = Slot /\ B!Slices = Slices
  /\ B!LaneLength = LaneLength /\ B!SegLength = SegLength
BY DEF B!Lane, B!Slot, B!Slices, B!LaneLength, B!SegLength, B!MPrime,
       Lane, Slot, Slices, LaneLength, SegLength, MPrime

LEMMA SameReferenceB ==
  ASSUME NEW m, NEW va, NEW p, NEW s, NEW l, NEW i
  PROVE  B!Reference(m, va, p, s, l, i) = Reference(m, va, p, s, l, i)
BY DEF B!Reference, B!Selected, B!PseudoRandom, B!PairAt, B!DataIndependent, B!Previous, B!RefLane,
       B!IndexAlpha, B!WindowStart, B!Relative, B!RefArea, B!LaneLength,
       B!SegLength, B!MPrime, B!Slices, B!ARGON2I, B!ARGON2ID,
       Reference, Selected, PseudoRandom, PairAt, DataIndependent, Previous, RefLane,
       IndexAlpha, WindowStart, Relative, RefArea, LaneLength,
       SegLength, MPrime, Slices, ARGON2I, ARGON2ID

LEMMA SameFillB ==
  ASSUME NEW m, NEW va, NEW ve, NEW p, NEW s, NEW l, NEW i
  PROVE  B!Fill(m, va, ve, p, s, l, i) = Fill(m, va, ve, p, s, l, i)
BY SameReferenceB, SameLayoutB
   DEF B!Fill, B!NewBlock, B!BlockFrom, B!Previous, Fill, NewBlock, BlockFrom, Previous

LEMMA SameFoldLaneB ==
  ASSUME NEW m, NEW f, NEW l
  PROVE  B!FoldLane(m, f, l) = FoldLane(m, f, l)
BY SameLayoutB DEF B!FoldLane, FoldLane

LEMMA InitSame ==
  OrderInit => /\ \E seed \in Seeds : memA = InitialMemory(seed)
          /\ memB = memA
          /\ sharedPass = 0 /\ sharedSlice = 0 /\ sharedFolded = 0
          /\ indexA = [l \in Lane |-> Start(0, 0)] /\ indexB = indexA
          /\ finalA = ZeroBlock /\ finalB = ZeroBlock
BY SameLayoutA, SameLayoutB
   DEF OrderInit, A!Init, B!Init, A!InitialMemory, InitialMemory, A!Start, B!Start, Start

LEMMA BarrierSame ==
  Barrier => /\ \A l \in Lane : indexA[l] = SegLength /\ indexB[l] = SegLength
             /\ IF sharedSlice = Slices - 1
                THEN sharedPass' = sharedPass + 1 /\ sharedSlice' = 0
                ELSE sharedPass' = sharedPass /\ sharedSlice' = sharedSlice + 1
             /\ indexA' = [l \in Lane |-> Start(sharedPass', sharedSlice')] /\ indexB' = indexA'
             /\ sharedPass < TimeCost
             /\ UNCHANGED <<memA, memB, finalA, finalB, sharedFolded, sharedVariant, sharedVersion>>
BY SameLayoutA, SameLayoutB
   DEF Barrier, A!Barrier, B!Barrier, A!Start, B!Start, Start

-----------------------------------------------------------------------------

LEMMA OrderInitIInv == OrderInit => OrderIInv
<1> SUFFICES ASSUME OrderInit PROVE OrderIInv
  OBVIOUS
<1>1. memA \in Memories /\ memB = memA
  BY InitSame, InitialMemoryType
<1>2. indexA \in Indexes /\ indexB = indexA
  BY InitSame, Layout DEF Indexes, Start
<1>3. Types
  BY <1>1, <1>2, InitSame, BlockAssumption, TimeCostAssumption, ParallelismAssumption
     DEF Types, Slice, Slices
<1>4. /\ Replayable(memA, indexA, memB, indexB)
      /\ Replayable(memB, indexB, memA, indexA)
  BY <1>2, Layout DEF Replayable, Indexes
<1>5. Equal(memA, indexA, memB, indexB) /\ finalA = finalB
  BY <1>1, InitSame DEF Equal
<1> QED BY <1>2, <1>3, <1>4, <1>5 DEF OrderIInv

LEMMA EqualSymmetric ==
  ASSUME NEW m, NEW i, NEW n, NEW j, Equal(m, i, n, j)
  PROVE  Equal(n, j, m, i)
<1>1. \A l \in Lane : Ahead(i[l], j[l]) = Ahead(j[l], i[l])
  BY DEF Ahead
<1> QED BY <1>1 DEF Equal

\* What a step of one execution needs of the state.
LEMMA StepTypes ==
  ASSUME OrderIInv, sharedPass < TimeCost,
         NEW m \in Memories, NEW f \in Indexes, NEW l \in Lane, f[l] < SegLength
  PROVE  /\ Fill(m, sharedVariant, sharedVersion, sharedPass, sharedSlice, l, f[l]) \in Memories
         /\ [f EXCEPT ![l] = @ + 1] \in Indexes
         /\ sharedPass \in 0 .. TimeCost - 1 /\ sharedSlice \in Slice
<1>1. sharedPass \in 0 .. TimeCost - 1 /\ sharedSlice \in Slice
  BY TimeCostAssumption DEF OrderIInv, Types
<1>2. /\ f \in [Lane -> 0 .. SegLength] /\ f[l] \in 0 .. SegLength - 1
      /\ \A k \in Lane : f[k] >= Start(sharedPass, sharedSlice)
  BY Layout DEF Indexes
<1>3. Position(sharedPass, sharedSlice, f[l])
  BY <1>1, <1>2, Layout, TimeCostAssumption DEF Position, Start
<1>4. [f EXCEPT ![l] = @ + 1] \in Indexes
  <2> DEFINE g == [f EXCEPT ![l] = @ + 1]
  <2>1. g \in [Lane -> 0 .. SegLength]
    BY <1>2, Layout
  <2>2. \A k \in Lane : g[k] >= Start(sharedPass, sharedSlice)
    BY <1>2, Layout DEF Start
  <2> QED BY <2>1, <2>2 DEF Indexes
<1> QED BY <1>1, <1>3, <1>4, FillType

LEMMA StepAOrderIInv == ASSUME OrderIInv, NEW l \in Lane, StepA(l) PROVE OrderIInv'
<1>1. /\ memA' = Fill(memA, sharedVariant, sharedVersion, sharedPass, sharedSlice, l, indexA[l])
      /\ indexA' = [indexA EXCEPT ![l] = @ + 1]
      /\ sharedPass < TimeCost /\ indexA[l] < SegLength
      /\ UNCHANGED <<memB, indexB, finalA, finalB, sharedFolded, sharedPass, sharedSlice, sharedVariant, sharedVersion>>
  BY SameFillA, SameLayoutA DEF StepA, A!FillStep, varsB
<1>2. StepOf(memA, indexA, l, memA', indexA')
  BY <1>1 DEF StepOf
<1>3. memA' \in Memories /\ indexA' \in Indexes
  BY <1>1, StepTypes DEF OrderIInv, Types
<1>4. sharedPass \in 0 .. TimeCost - 1 /\ sharedSlice \in Slice
  BY <1>1, StepTypes DEF OrderIInv, Types
<1>5. /\ Equal(memA', indexA', memB, indexB)
      /\ Replayable(memA', indexA', memB, indexB)
      /\ Replayable(memB, indexB, memA', indexA')
  BY <1>1, <1>2, <1>3, <1>4, StepPreserves DEF OrderIInv, Types
<1>6. Types'
  BY <1>1, <1>3 DEF OrderIInv, Types, Indexes
<1>7. sharedPass # TimeCost
  BY <1>4, TimeCostAssumption
<1> QED BY <1>1, <1>5, <1>6, <1>7 DEF OrderIInv, Equal, Replayable, Ahead

LEMMA StepBOrderIInv == ASSUME OrderIInv, NEW l \in Lane, StepB(l) PROVE OrderIInv'
<1>1. /\ memB' = Fill(memB, sharedVariant, sharedVersion, sharedPass, sharedSlice, l, indexB[l])
      /\ indexB' = [indexB EXCEPT ![l] = @ + 1]
      /\ sharedPass < TimeCost /\ indexB[l] < SegLength
      /\ UNCHANGED <<memA, indexA, finalA, finalB, sharedFolded, sharedPass, sharedSlice, sharedVariant, sharedVersion>>
  BY SameFillB, SameLayoutB DEF StepB, B!FillStep, varsA
<1>2. StepOf(memB, indexB, l, memB', indexB')
  BY <1>1 DEF StepOf
<1>3. memB' \in Memories /\ indexB' \in Indexes
  BY <1>1, StepTypes DEF OrderIInv, Types
<1>4. sharedPass \in 0 .. TimeCost - 1 /\ sharedSlice \in Slice
  BY <1>1, StepTypes DEF OrderIInv, Types
<1>5. Equal(memB, indexB, memA, indexA)
  BY EqualSymmetric DEF OrderIInv
<1>6. /\ Equal(memB', indexB', memA, indexA)
      /\ Replayable(memB', indexB', memA, indexA)
      /\ Replayable(memA, indexA, memB', indexB')
  BY <1>1, <1>2, <1>3, <1>4, <1>5, StepPreserves DEF OrderIInv, Types
<1>7. Equal(memA, indexA, memB', indexB')
  BY <1>6, EqualSymmetric
<1>8. Types'
  BY <1>1, <1>3 DEF OrderIInv, Types, Indexes
<1>9. sharedPass # TimeCost
  BY <1>4, TimeCostAssumption
<1> QED BY <1>1, <1>6, <1>7, <1>8, <1>9 DEF OrderIInv, Equal, Replayable, Ahead

(* At a barrier both executions have stored the whole slice: the memories    *)
(* are equal.                                                                *)
LEMMA BarrierOrderIInv == OrderIInv /\ Barrier => OrderIInv'
<1> SUFFICES ASSUME OrderIInv, Barrier PROVE OrderIInv'
  OBVIOUS
<1>1. sharedPass' \in 0 .. TimeCost /\ sharedSlice' \in Slice
  BY BarrierSame, TimeCostAssumption DEF OrderIInv, Types, Slice, Slices
<1>2. \A l \in Lane : \A x \in Slot : memA'[l][x] = memB'[l][x]
  BY BarrierSame DEF OrderIInv, Equal, Ahead
<1>3. indexA' \in Indexes' /\ indexB' = indexA'
  BY BarrierSame, Layout DEF Indexes, Start
<1>4. Types'
  BY <1>1, <1>3, BarrierSame DEF OrderIInv, Types
<1>5. \A l \in Lane : indexA'[l] .. indexA'[l] - 1 = {}
  BY <1>3, Layout DEF Indexes
<1>6. /\ Replayable(memA, indexA, memB, indexB)'
      /\ Replayable(memB, indexB, memA, indexA)'
  BY <1>3, <1>5 DEF Replayable
<1> QED BY <1>2, <1>3, <1>4, <1>6, BarrierSame DEF OrderIInv, Equal

(* When the passes are over both memories are equal, and so are the values   *)
(* folded from them.                                                         *)
LEMMA FoldBothIInv == OrderIInv /\ FoldBoth => OrderIInv'
<1> SUFFICES ASSUME OrderIInv, FoldBoth PROVE OrderIInv'
  OBVIOUS
<1>1. /\ sharedFolded < Parallelism /\ sharedFolded' = sharedFolded + 1
      /\ finalA' = FoldLane(memA, finalA, sharedFolded)
      /\ finalB' = FoldLane(memB, finalB, sharedFolded)
      /\ sharedPass = TimeCost
      /\ UNCHANGED <<memA, memB, indexA, indexB, sharedPass, sharedSlice, sharedVariant, sharedVersion>>
  BY SameFoldLaneA, SameFoldLaneB DEF FoldBoth, A!FoldStep, B!FoldStep
<1>2. sharedFolded \in Lane /\ 0 \in Lane /\ sharedFolded' \in 0 .. Parallelism
  BY <1>1, ParallelismAssumption DEF OrderIInv, Types, Lane
<1>3. \A l \in Lane : \A x \in Slot : memA[l][x] = memB[l][x]
  <2>1. \A l \in Lane : Ahead(indexA[l], indexB[l]) = {}
    BY <1>1 DEF OrderIInv, Ahead
  <2> QED BY <2>1 DEF OrderIInv, Equal
<1>4. LaneLength - 1 \in Slot
  BY Layout DEF Slot
<1>5. finalA' = finalB'
  BY <1>1, <1>2, <1>3, <1>4 DEF FoldLane, OrderIInv
<1>6. finalA' \in Block
  BY <1>1, <1>2, FoldLaneType DEF OrderIInv, Types
<1>7. Types'
  BY <1>1, <1>2, <1>5, <1>6 DEF OrderIInv, Types, Indexes
<1> QED BY <1>1, <1>5, <1>7 DEF OrderIInv, Equal, Replayable, Ahead

(* IInv is inductive.                                                        *)
THEOREM OrderInductive == OrderSpec => []OrderIInv
<1>1. OrderIInv /\ [OrderNext]_orderVars => OrderIInv'
  <2> SUFFICES ASSUME OrderIInv, [OrderNext]_orderVars PROVE OrderIInv'
    OBVIOUS
  <2>1. CASE UNCHANGED orderVars
    BY <2>1 DEF orderVars, varsA, varsB, OrderIInv, Types, Equal, Replayable, Ahead, Indexes
  <2> QED
    BY <2>1, StepAOrderIInv, StepBOrderIInv, BarrierOrderIInv, FoldBothIInv DEF OrderNext
<1> QED BY OrderInitIInv, <1>1, PTL DEF OrderSpec

(* The claim of argon2's docstring (kdf.py:334-336): whatever the order of    *)
(* the lanes inside the slices, the executions store the same blocks and      *)
(* produce the same final block.                                             *)
THEOREM OrderCorrect == OrderSpec => []OrderIrrelevant
<1>1. OrderIInv => OrderIrrelevant
  BY DEF OrderIInv, OrderIrrelevant, Equal
<1> QED BY OrderInductive, <1>1, PTL

(* No lane reads a block that another lane may be storing: the reference of   *)
(* every step of both executions has been stored before the slice began, or   *)
(* by the lane itself.                                                        *)
THEOREM ReferenceCorrect == OrderSpec => []ReferenceSettled
<1>1. ASSUME OrderIInv, NEW m \in Memories, NEW f \in Indexes, NEW l \in Lane,
             sharedPass < TimeCost, f[l] < SegLength
      PROVE  LET ref == Reference(m, sharedVariant, sharedPass, sharedSlice, l, f[l])
                 cur == sharedSlice * SegLength + f[l]
             IN  /\ ref[1] \in Lane /\ ref[2] \in Slot
                 /\ ref[1] # l => ref[2] \notin Segment(sharedSlice)
                 /\ ref[1] = l => /\ ref[2] # cur /\ ref[2] # Previous(cur)
                                  /\ ref[2] \in Segment(sharedSlice) => ref[2] < cur
                 /\ sharedPass = 0 =>
                      ref[2] < sharedSlice * SegLength + (IF ref[1] = l THEN f[l] ELSE 0)
  <2>1. Position(sharedPass, sharedSlice, f[l])
    BY <1>1, Layout, TimeCostAssumption DEF OrderIInv, Types, Indexes, Position, Start
  <2> QED BY <1>1, <2>1, ReferenceLemma
<1>2. OrderIInv => A!ReferenceSettled
  BY <1>1, SameLayoutA, SameReferenceA
     DEF OrderIInv, Types, A!ReferenceSettled, A!NextReference, A!Segment, Segment,
         A!Previous, Previous
<1>3. OrderIInv => B!ReferenceSettled
  BY <1>1, SameLayoutB, SameReferenceB
     DEF OrderIInv, Types, B!ReferenceSettled, B!NextReference, B!Segment, Segment,
         B!Previous, Previous
<1> QED BY OrderInductive, <1>2, <1>3, PTL DEF ReferenceSettled
=============================================================================
