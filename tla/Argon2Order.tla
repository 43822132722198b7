----------------------------- MODULE Argon2Order -----------------------------
(***************************************************************************)
(* Two executions of Argon2Lanes on the same input, each with an order of  *)
(* the lanes of its own, that meet at every barrier.  The docstring of     *)
(* argon2() says that the sequential order "yields identical output to     *)
(* parallel execution": whatever the two orders are, the two memories      *)
(* agree on every block that both have stored, and so do the final blocks.  Since  *)
(* Argon2Fill implements Argon2Lanes, its loops are one of these orders.   *)
(***************************************************************************)
EXTENDS Argon2Block

VARIABLES
  memA, indexA, finalA,   \* the first execution
  memB, indexB, finalB,   \* the second one
  sharedPass, sharedSlice, sharedFolded,   \* the slice both are in, the lanes both have folded
  sharedVariant, sharedVersion             \* their common arguments

A == INSTANCE Argon2Lanes WITH
       mem <- memA, index <- indexA, final <- finalA, pass <- sharedPass, slice <- sharedSlice,
       folded <- sharedFolded, variant <- sharedVariant, version <- sharedVersion
B == INSTANCE Argon2Lanes WITH
       mem <- memB, index <- indexB, final <- finalB, pass <- sharedPass, slice <- sharedSlice,
       folded <- sharedFolded, variant <- sharedVariant, version <- sharedVersion

varsA == <<memA, indexA, finalA>>
varsB == <<memB, indexB, finalB>>
orderVars  == <<varsA, varsB, sharedPass, sharedSlice, sharedFolded, sharedVariant, sharedVersion>>

OrderInit == A!Init /\ B!Init /\ memA = memB

StepA(l) == A!FillStep(l) /\ UNCHANGED varsB
StepB(l) == B!FillStep(l) /\ UNCHANGED varsA
Barrier  == A!Barrier /\ B!Barrier
FoldBoth == A!FoldStep /\ B!FoldStep

OrderNext == (\E l \in Lane : StepA(l) \/ StepB(l)) \/ Barrier \/ FoldBoth

OrderSpec == OrderInit /\ [][OrderNext]_orderVars

-----------------------------------------------------------------------------

\* The slots of a lane that one execution has stored in this slice and the
\* other one has not, when they have got to positions i and j.
Ahead(i, j) ==
  {s \in Segment(sharedSlice) : (s < sharedSlice * SegLength + i) # (s < sharedSlice * SegLength + j)}

(* Outside the blocks that only one of the two executions has stored so far *)
(* the memories are equal, and the final blocks are equal.                  *)
OrderIrrelevant ==
  /\ \A l \in Lane : \A s \in Slot \ Ahead(indexA[l], indexB[l]) :
        memA[l][s] = memB[l][s]
  /\ finalA = finalB

\* No lane of either execution reads a block whose content depends on the order.
ReferenceSettled == A!ReferenceSettled /\ B!ReferenceSettled
=============================================================================
