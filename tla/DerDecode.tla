------------------------------ MODULE DerDecode -------------------------------
(***************************************************************************)
(* A call of decode or decode_all of asn1.py.  The recursion of _read_tlv  *)
(* and _read_children is a stack of open elements: the constructed ones    *)
(* whose content is being read.  The code hands each level a slice of the  *)
(* octets; here positions count from the start of the input and an element *)
(* keeps the bounds of its slice.  Every failure is InvalidSerialization.  *)
(***************************************************************************)
EXTENDS Der

CONSTANTS
  MaxNesting,   \* _MAX_NESTING
  Inputs        \* the strings of octets that are decoded

ASSUME MaxNestingAssumption == MaxNesting \in Nat \ {0}
ASSUME InputsAssumption == Inputs \subseteq Seq(Octet)

VARIABLES
  input, mode,   \* the arguments; "decode" or "decode_all"
  pos,           \* the octets read so far
  open,          \* the elements whose children are being read, outermost first
  kids,          \* the siblings read so far, at the top level and in each open element
  outcome

vars == <<input, mode, pos, open, kids, outcome>>

Top   == open[Len(open)]
nodes == kids[1]

\* The end of the slice that is being read.
Limit == IF open = <<>> THEN Len(input) ELSE Top.end

Init ==
  /\ input \in Inputs /\ mode \in {"decode", "decode_all"}
  /\ pos = 0 /\ open = <<>> /\ kids = <<<<>>>> /\ outcome = "running"

\* Whether the loop over siblings goes on; decode reads a single element.
MoreToRead == IF open = <<>> /\ mode = "decode" THEN nodes = <<>> ELSE pos < Limit

Tag     == input[pos + 1]
Length  == ReadLength(input, pos + 1, Limit)
Begin   == Length[2]
End     == Length[2] + Length[1]
Content == SubSeq(input, Begin + 1, End)

\* Mutant: a child is measured against the whole input, not its parent's slice.
HeaderAllowedUnsliced ==
  /\ pos < Limit /\ TagAllowed(Tag)
  /\ Length # Malformed /\ Length[1] \in 0 .. Len(input) - Begin

HeaderAllowed ==
  /\ pos < Limit /\ TagAllowed(Tag)
  /\ Length # Malformed /\ Length[1] \in 0 .. Limit - Begin

TlvAllowed == HeaderAllowed /\ ContentAllowed(Tag, Content)

\* _read_children, on entry; the depth of an element is the number of its ancestors.
TooDeep == Len(open) >= MaxNesting

ReadPrimitive ==
  /\ outcome = "running" /\ MoreToRead /\ TlvAllowed /\ ~IsConstructed(Tag)
  /\ kids' = [kids EXCEPT ![Len(kids)] =
                Append(@, [tag |-> Tag, content |-> Content, children |-> <<>>])]
  /\ pos' = End
  /\ UNCHANGED <<input, mode, open, outcome>>

OpenConstructed ==
  /\ outcome = "running" /\ MoreToRead /\ TlvAllowed /\ IsConstructed(Tag)
  /\ ~TooDeep
  /\ open' = Append(open, [tag |-> Tag, begin |-> Begin, end |-> End])
  /\ kids' = Append(kids, <<>>)
  /\ pos' = Begin
  /\ UNCHANGED <<input, mode, outcome>>

Reject ==
  /\ outcome = "running" /\ MoreToRead
  /\ TlvAllowed => IsConstructed(Tag) /\ TooDeep
  /\ outcome' = "rejected"
  /\ UNCHANGED <<input, mode, pos, open, kids>>

CloseConstructed ==
  /\ outcome = "running" /\ open # <<>> /\ ~MoreToRead
  /\ kids' = [SubSeq(kids, 1, Len(open)) EXCEPT ![Len(open)] =
                Append(@, [tag |-> Top.tag, content |-> SubSeq(input, Top.begin + 1, Top.end),
                           children |-> kids[Len(kids)]])]
  /\ open' = SubSeq(open, 1, Len(open) - 1)
  /\ UNCHANGED <<input, mode, pos, outcome>>

\* Mutant: trailing data is ignored.
FinishAnyway ==
  /\ outcome = "running" /\ open = <<>> /\ ~MoreToRead
  /\ outcome' = "accepted"
  /\ UNCHANGED <<input, mode, pos, open, kids>>

\* decode rejects trailing data; decode_all has read to the end.
Finish ==
  /\ outcome = "running" /\ open = <<>> /\ ~MoreToRead
  /\ outcome' = IF pos = Len(input) THEN "accepted" ELSE "rejected"
  /\ UNCHANGED <<input, mode, pos, open, kids>>

Next == ReadPrimitive \/ OpenConstructed \/ Reject \/ CloseConstructed \/ Finish

Spec == Init /\ [][Next]_vars

-----------------------------------------------------------------------------

Element == [tag : Octet, begin : Nat, end : Nat]

\* The variables of the recursion; the depth of open elements is bounded.
TypeOK ==
  /\ input \in Seq(Octet) /\ mode \in {"decode", "decode_all"}
  /\ pos \in Nat
  /\ outcome \in {"running", "accepted", "rejected"}
  /\ open \in Seq(Element) /\ Len(open) <= MaxNesting

\* The slices of the open elements are nested, and what is read next lies in the
\* innermost one: no octet is read for an element that its parent does not contain,
\* and none behind the end of the input.
SlicesNest ==
  /\ pos <= Limit
  /\ \A k \in 1 .. Len(open) :
       /\ open[k].begin <= pos /\ open[k].end <= Len(input)
       /\ k > 1 => open[k - 1].begin < open[k].begin /\ open[k].end <= open[k - 1].end
=============================================================================
