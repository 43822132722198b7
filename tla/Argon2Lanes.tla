----------------------------- MODULE Argon2Lanes -----------------------------
(***************************************************************************)
(* What Argon2 promises about the order of its work: within one slice the  *)
(* lanes are independent, so any interleaving of their _fill_segment calls *)
(* is allowed; a slice begins when every lane has finished the one before. *)
(* This is the parallel execution that the docstring of argon2()           *)
(* (kdf.py:334-336) compares the sequential loops with.                    *)
(***************************************************************************)
EXTENDS Argon2Block

VARIABLES
  mem,        \* mem[lane][slot]: the block matrix
  pass,       \* the pass, TimeCost when the loops are over
  slice,      \* the slice every lane is in
  index,      \* index[lane]: the position a lane fills next in its segment
  variant,    \* argon2's variant, fixed
  version,    \* argon2's version, fixed
  final,      \* the exclusive or of the lanes' last blocks
  folded      \* the number of lanes that are in final

vars == <<mem, pass, slice, index, variant, version, final, folded>>

TypeOK ==
  /\ mem \in [Lane -> [Slot -> Block]]
  /\ pass \in 0 .. TimeCost
  /\ slice \in Slice
  /\ index \in [Lane -> 0 .. SegLength]
  /\ variant \in Variants
  /\ version \in Versions
  /\ final \in Block
  /\ folded \in 0 .. Parallelism

-----------------------------------------------------------------------------

Init ==
  /\ \E seed \in Seeds : mem = InitialMemory(seed)
  /\ pass = 0
  /\ slice = 0
  /\ index = [l \in Lane |-> Start(0, 0)]
  /\ variant \in Variants
  /\ version \in Versions
  /\ final = ZeroBlock
  /\ folded = 0

\* Lane l fills the next block of its segment.
FillStep(l) ==
  /\ pass < TimeCost
  /\ index[l] < SegLength
  /\ mem' = Fill(mem, variant, version, pass, slice, l, index[l])
  /\ index' = [index EXCEPT ![l] = @ + 1]
  /\ UNCHANGED <<pass, slice, variant, version, final, folded>>

\* Every lane has finished its segment: the next slice begins.
Barrier ==
  /\ pass < TimeCost
  /\ \A l \in Lane : index[l] = SegLength
  /\ IF slice = Slices - 1
     THEN pass' = pass + 1 /\ slice' = 0
     ELSE pass' = pass /\ slice' = slice + 1
  /\ index' = [l \in Lane |-> Start(pass', slice')]
  /\ UNCHANGED <<mem, variant, version, final, folded>>

\* The last blocks of the lanes are combined, in the order of the lanes.
FoldStep ==
  /\ pass = TimeCost
  /\ folded < Parallelism
  /\ final' = FoldLane(mem, final, folded)
  /\ folded' = folded + 1
  /\ UNCHANGED <<mem, pass, slice, index, variant, version>>

Next == (\E l \in Lane : FillStep(l)) \/ Barrier \/ FoldStep

Safety == Init /\ [][Next]_vars

Spec == Safety /\ WF_vars(Next)

-----------------------------------------------------------------------------

\* What lane l would read as its reference block.
NextReference(l) == Reference(mem, variant, pass, slice, l, index[l])

(* The reference block of a step is never in a segment another lane is      *)
(* filling at that time; in the lane's own segment it has been stored, and  *)
(* it is neither the block to store nor the one before it, which _g_compress *)
(* already gets as its first argument.  This is what makes the order of the *)
(* lanes irrelevant.                                                        *)
ReferenceSettled ==
  \A l \in Lane :
    pass < TimeCost /\ index[l] < SegLength =>
      LET ref == NextReference(l)
          cur == slice * SegLength + index[l]
      IN  /\ ref[1] \in Lane /\ ref[2] \in Slot
          /\ ref[1] # l => ref[2] \notin Segment(slice)
          /\ ref[1] = l =>
               /\ ref[2] \notin {cur, Previous(cur)}
               /\ ref[2] \in Segment(slice) => ref[2] < cur
          /\ pass = 0 => ref[2] < slice * SegLength + (IF ref[1] = l THEN index[l] ELSE 0)
=============================================================================
