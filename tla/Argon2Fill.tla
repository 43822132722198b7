----------------------------- MODULE Argon2Fill ------------------------------
(***************************************************************************)
(* The loops of argon2() (purecrypt/kdf.py:369-389) as they are written:   *)
(* one lane after the other inside every slice, one iteration of           *)
(* _fill_segment (kdf.py:272-293) per step.  The state is the matrix,      *)
(* the four loop variables pass_, slice_, lane and i, and the place that   *)
(* the lazy stream of the segment's pairs has reached.                     *)
(***************************************************************************)
EXTENDS Argon2Block

VARIABLES
  mem,        \* mem[lane][slot]
  pass, slice, lane, index,   \* the loop variables pass_, slice_, lane and i
  drawn,      \* the pairs that next(stream) has yielded in the segment
  variant, version,           \* the arguments, fixed
  final,      \* the exclusive or of the lanes' last blocks
  folded      \* the number of lanes that are in final

vars == <<mem, pass, slice, lane, index, drawn, variant, version, final, folded>>

TypeOK ==
  /\ mem \in [Lane -> [Slot -> Block]]
  /\ pass \in 0 .. TimeCost
  /\ slice \in Slice
  /\ lane \in Lane
  /\ index \in 0 .. SegLength
  /\ drawn \in 0 .. SegLength
  /\ variant \in Variants
  /\ version \in Versions
  /\ final \in Block
  /\ folded \in 0 .. Parallelism

-----------------------------------------------------------------------------

\* Mutant: the pairs of the positions that are skipped are not.
SkippedNone(va, p, s) == 0

\* The pairs that are skipped at the beginning of a segment.
Skipped(va, p, s) == IF DataIndependent(va, p, s) THEN Start(p, s) ELSE 0

Init ==
  /\ \E seed \in Seeds : mem = InitialMemory(seed)
  /\ pass = 0
  /\ slice = 0
  /\ lane = 0
  /\ index = Start(0, 0)
  /\ variant \in Variants
  /\ version \in Versions
  /\ drawn = Skipped(variant, 0, 0)
  /\ final = ZeroBlock
  /\ folded = 0

\* The reference block of the pair that the stream yields next.
NextSelected ==
  Selected(pass, slice, lane, index,
           PairAt(mem, variant, pass, slice, lane, index, drawn))

\* One iteration of the loop of _fill_segment.
FillStep ==
  /\ pass < TimeCost
  /\ index < SegLength
  /\ mem' = [mem EXCEPT ![lane][slice * SegLength + index] =
               BlockFrom(mem, version, pass, slice, lane, index, NextSelected)]
  /\ index' = index + 1
  /\ drawn' = IF DataIndependent(variant, pass, slice) THEN drawn + 1 ELSE drawn
  /\ UNCHANGED <<pass, slice, lane, variant, version, final, folded>>

\* Mutant: the loops over slices and lanes are nested the other way around.
NextSegmentLaneOuter ==
  /\ pass < TimeCost
  /\ index = SegLength
  /\ \/ /\ slice < Slices - 1
        /\ slice' = slice + 1
        /\ UNCHANGED <<lane, pass>>
     \/ /\ slice = Slices - 1
        /\ lane < Parallelism - 1
        /\ slice' = 0
        /\ lane' = lane + 1
        /\ UNCHANGED pass
     \/ /\ slice = Slices - 1
        /\ lane = Parallelism - 1
        /\ slice' = 0
        /\ lane' = 0
        /\ pass' = pass + 1
  /\ index' = Start(pass', slice')
  /\ drawn' = Skipped(variant, pass', slice')
  /\ UNCHANGED <<mem, variant, version, final, folded>>

\* _fill_segment returns: the three outer loops advance.
NextSegment ==
  /\ pass < TimeCost
  /\ index = SegLength
  /\ \/ /\ lane < Parallelism - 1
        /\ lane' = lane + 1
        /\ UNCHANGED <<slice, pass>>
     \/ /\ lane = Parallelism - 1
        /\ slice < Slices - 1
        /\ lane' = 0
        /\ slice' = slice + 1
        /\ UNCHANGED pass
     \/ /\ lane = Parallelism - 1
        /\ slice = Slices - 1
        /\ lane' = 0
        /\ slice' = 0
        /\ pass' = pass + 1
  /\ index' = Start(pass', slice')
  /\ drawn' = Skipped(variant, pass', slice')
  /\ UNCHANGED <<mem, variant, version, final, folded>>

\* One iteration of the loop that combines the lanes (kdf.py:386-389).
FoldStep ==
  /\ pass = TimeCost
  /\ folded < Parallelism
  /\ final' = FoldLane(mem, final, folded)
  /\ folded' = folded + 1
  /\ UNCHANGED <<mem, pass, slice, lane, index, drawn, variant, version>>

Next == FillStep \/ NextSegment \/ FoldStep

Spec == Init /\ [][Next]_vars /\ WF_vars(Next)

-----------------------------------------------------------------------------
(* argon2's docstring: "lanes are computed sequentially in the             *)
(* spec-mandated slice order".  The loops implement Argon2Lanes: every lane *)
(* before the current one has filled its segment of the slice, every later  *)
(* one has still to begin it.                                               *)

laneIndex ==
  [l \in Lane |-> IF l < lane THEN SegLength
                  ELSE IF l = lane THEN index ELSE Start(pass, slice)]

Lanes == INSTANCE Argon2Lanes WITH index <- laneIndex

\* The loops take only steps that the parallel execution may take, and finish.
ImplementsLanes == Lanes!Spec

(* Every J1 selects a block of the window that RFC 9106, section 3.4.2      *)
(* (quoted at kdf.py:233) describes, whatever the lane the pair selects, and *)
(* J1 = 0 the newest block of it.                                           *)
ReferenceInWindow ==
  pass < TimeCost /\ index < SegLength =>
    \A same \in IF pass = 0 /\ slice = 0 THEN {TRUE} ELSE BOOLEAN :
      LET window == Window(pass, slice, index, same)
      IN  /\ \A j \in 0 .. Word - 1 :
               \E tick \in window :
                  IndexAlpha(pass, slice, index, j, same) = SlotOf(tick)
          /\ \A tick \in window :
               (\A older \in window : older <= tick) =>
                  IndexAlpha(pass, slice, index, 0, same) = SlotOf(tick)
=============================================================================
