------------------------------- MODULE Blake3 --------------------------------
(***************************************************************************)
(* The incremental BLAKE3 hasher (purecrypt/blake3.py): Hasher objects     *)
(* that absorb data in pieces of any length, can be copied, reset, and     *)
(* asked for any part of their output stream at any time.                  *)
(*                                                                         *)
(* The compression function is a constructor: two of its values are equal  *)
(* exactly when its arguments are.  A block is the sequence of its bytes   *)
(* (which stands for the padded words together with block_len), the block  *)
(* of a parent the pair of its children's chaining values.                 *)
(***************************************************************************)
EXTENDS Integers, Sequences, SequencesExt

CONSTANTS
  BlockLen,   \* BLOCK_LEN, 64 in the code
  ChunkLen,   \* CHUNK_LEN, 1024 in the code
  Handle,     \* the Hasher objects a program uses
  Origin,     \* the handle that new*() returns; the others are copies
  IV,         \* _IV
  UserKey,    \* the key given to new_keyed
  ContextString,  \* the context given to new_derive_key
  MaxUpdate,  \* bound: bytes per update call
  MaxInput    \* bound: bytes per hasher

ASSUME LengthAssumption ==
  /\ BlockLen \in Nat \ {0}
  /\ ChunkLen \in Nat \ {0} /\ ChunkLen % BlockLen = 0
  /\ Origin \in Handle
  /\ MaxUpdate \in Nat \ {0} /\ MaxInput \in Nat

-----------------------------------------------------------------------------
(* The compression function and the nodes of the tree.                     *)

Compress(cv, block, counter, flags) == <<cv, block, counter, flags>>

\* class _Output: the arguments of a compression that is still to be made.
Output(cv, block, counter, flags) ==
  [cv |-> cv, block |-> block, counter |-> counter, flags |-> flags]

ChainingValue(o) == Compress(o.cv, o.block, o.counter, o.flags)

\* The BlockLen output bytes of the root with output counter n.
RootBlock(o, n) ==
  LET words == Compress(o.cv, o.block, n, o.flags \cup {"ROOT"})
  IN  [k \in 1 .. BlockLen |-> <<words, k>>]

\* Mutant: the bytes are taken from the start of the first block.
RootOutputBytesNoOffset(o, seek, length) ==
  LET blocks == (length + BlockLen - 1) \div BlockLen
      out    == FlattenSeq([n \in 1 .. blocks |-> RootBlock(o, seek \div BlockLen + n - 1)])
  IN  SubSeq(out, 1, length)

\* _Output.root_output_bytes: whole blocks from the one that holds seek on,
\* until length bytes past seek are there.
RootOutputBytes(o, seek, length) ==
  LET offset == seek % BlockLen
      blocks == (length + offset + BlockLen - 1) \div BlockLen
      out    == FlattenSeq([n \in 1 .. blocks |-> RootBlock(o, seek \div BlockLen + n - 1)])
  IN  SubSeq(out, offset + 1, offset + length)

ParentOutput(mode, left, right) ==
  Output(mode.key, <<left, right>>, 0, mode.flags \cup {"PARENT"})

ParentCv(mode, left, right) == ChainingValue(ParentOutput(mode, left, right))

-----------------------------------------------------------------------------
(* class _ChunkState                                                       *)

NewChunk(mode, counter) ==
  [cv |-> mode.key, counter |-> counter, buf |-> <<>>, blocks |-> 0]

ChunkLength(chunk) == BlockLen * chunk.blocks + Len(chunk.buf)

StartFlag(chunk) == IF chunk.blocks = 0 THEN {"CHUNK_START"} ELSE {}

\* A full buffer is compressed only when more data has to go in: the last
\* block of a chunk needs CHUNK_END, and ROOT when it is the last of all.
CompressBuffer(mode, chunk) ==
  [cv      |-> Compress(chunk.cv, chunk.buf, chunk.counter, mode.flags \cup StartFlag(chunk)),
   counter |-> chunk.counter,
   buf     |-> <<>>,
   blocks  |-> chunk.blocks + 1]

Smaller(a, b) == IF a < b THEN a ELSE b

\* Mutant: the buffer is compressed as soon as it is full.
ChunkTakeEager(mode, data, s) ==
  LET take == Smaller(BlockLen - Len(s.chunk.buf), Len(data) - s.pos)
      c    == [s.chunk EXCEPT !.buf = @ \o SubSeq(data, s.pos + 1, s.pos + take)]
  IN  [chunk |-> IF Len(c.buf) = BlockLen THEN CompressBuffer(mode, c) ELSE c, pos |-> s.pos + take]

\* One iteration of update, which has got to s.pos of the data.
ChunkTake(mode, data, s) ==
  LET c    == IF Len(s.chunk.buf) = BlockLen THEN CompressBuffer(mode, s.chunk) ELSE s.chunk
      take == Smaller(BlockLen - Len(c.buf), Len(data) - s.pos)
  IN  [chunk |-> [c EXCEPT !.buf = @ \o SubSeq(data, s.pos + 1, s.pos + take)], pos |-> s.pos + take]

\* update, after i iterations or all of them; every one takes a byte at least.
ChunkSteps(mode, chunk, data) ==
  LET step[i \in 0 .. Len(data)] ==
        IF i = 0 THEN [chunk |-> chunk, pos |-> 0]
        ELSE LET s == step[i - 1] IN IF s.pos < Len(data) THEN ChunkTake(mode, data, s) ELSE s
  IN  step

ChunkUpdate(mode, chunk, data) == ChunkSteps(mode, chunk, data)[Len(data)].chunk

ChunkOutput(mode, chunk) ==
  Output(chunk.cv, chunk.buf, chunk.counter,
         mode.flags \cup StartFlag(chunk) \cup {"CHUNK_END"})

-----------------------------------------------------------------------------
(* class Hasher                                                            *)

\* Mutant: the number of chunks is not halved, one merge per push at most.
MergeOnce(mode, s) ==
  IF s.total % 2 = 0
  THEN [stack |-> Front(s.stack), cv |-> ParentCv(mode, Last(s.stack), s.cv), total |-> 1]
  ELSE s

\* One iteration of _push_cv: the subtree on the stack is complete, and so is its parent.
Merge(mode, s) ==
  IF s.total % 2 = 0
  THEN [stack |-> Front(s.stack), cv |-> ParentCv(mode, Last(s.stack), s.cv), total |-> s.total \div 2]
  ELSE s

\* _push_cv, after i iterations or all of them: one for every trailing zero bit of the
\* number of chunks.
Merges(mode, stack, cv, totalChunks) ==
  LET merge[i \in 0 .. totalChunks] ==
        IF i = 0 THEN [stack |-> stack, cv |-> cv, total |-> totalChunks]
        ELSE Merge(mode, merge[i - 1])
  IN  merge

PushCv(mode, stack, cv, totalChunks) ==
  LET s == Merges(mode, stack, cv, totalChunks)[totalChunks]
  IN  Append(s.stack, s.cv)

NewHasher(mode) == [mode |-> mode, chunk |-> NewChunk(mode, 0), stack |-> <<>>]

\* The full chunk goes to the stack and a new one begins.
CloseChunk(hs) ==
  LET total == hs.chunk.counter + 1
  IN  [mode  |-> hs.mode,
       chunk |-> NewChunk(hs.mode, total),
       stack |-> PushCv(hs.mode, hs.stack, ChainingValue(ChunkOutput(hs.mode, hs.chunk)), total)]

\* One iteration of update, which has got to s.pos of the data.
HasherTake(data, s) ==
  LET t    == IF ChunkLength(s.hs.chunk) = ChunkLen THEN CloseChunk(s.hs) ELSE s.hs
      take == Smaller(ChunkLen - ChunkLength(t.chunk), Len(data) - s.pos)
  IN  [hs |-> [t EXCEPT !.chunk = ChunkUpdate(t.mode, @, SubSeq(data, s.pos + 1, s.pos + take))],
       pos |-> s.pos + take]

\* update, after i iterations or all of them.
HasherSteps(hs, data) ==
  LET step[i \in 0 .. Len(data)] ==
        IF i = 0 THEN [hs |-> hs, pos |-> 0]
        ELSE LET s == step[i - 1] IN IF s.pos < Len(data) THEN HasherTake(data, s) ELSE s
  IN  step

HasherUpdate(hs, data) == HasherSteps(hs, data)[Len(data)].hs

\* Mutant: copy forgets the chaining value of the open chunk.
CopyOfNoCv(hs) ==
  [mode |-> hs.mode, chunk |-> [hs.chunk EXCEPT !.cv = hs.mode.key], stack |-> hs.stack]

\* copy: a new Hasher with every field of _chunk_state and _cv_stack.
CopyOf(hs) == [mode |-> hs.mode, chunk |-> hs.chunk, stack |-> hs.stack]

\* _final_output: out[i] is the node over the open chunk and all of the stack but its first
\* i entries.
FinalOutputs(hs) ==
  LET out[i \in 0 .. Len(hs.stack)] ==
        IF i = Len(hs.stack) THEN ChunkOutput(hs.mode, hs.chunk)
        ELSE ParentOutput(hs.mode, hs.stack[i + 1], ChainingValue(out[i + 1]))
  IN  out

FinalOutput(hs) == FinalOutputs(hs)[0]

Digest(hs, length, seek) == RootOutputBytes(FinalOutput(hs), seek, length)

-----------------------------------------------------------------------------
(* The three constructors: new, new_keyed and new_derive_key, which hashes   *)
(* the context string first.                                                *)

PlainMode       == [key |-> IV, flags |-> {}]
KeyedMode       == [key |-> UserKey, flags |-> {"KEYED_HASH"}]
DeriveMode(ctx) ==
  LET context == HasherUpdate(NewHasher([key |-> IV, flags |-> {"DERIVE_KEY_CONTEXT"}]), ctx)
  IN  [key |-> Digest(context, BlockLen \div 2, 0), flags |-> {"DERIVE_KEY_MATERIAL"}]

Context == [k \in 1 .. ChunkLen + 1 |-> <<ContextString, k>>]

Modes == {PlainMode, KeyedMode, DeriveMode(Context)}

-----------------------------------------------------------------------------
(* A program that uses hashers.                                             *)

VARIABLES
  hasher,   \* hasher[h]: the Hasher object, for the handles in use
  input     \* input[h]: the bytes absorbed since creation or the last reset

vars == <<hasher, input>>

InUse == DOMAIN hasher

\* Fresh bytes: no two bytes of all inputs are the same.
Fresh(h, n) == [k \in 1 .. n |-> <<h, Len(input[h]) + k>>]

Init ==
  /\ \E mode \in Modes :
       hasher = [h \in {Origin} |-> NewHasher(mode)]
  /\ input = [h \in {Origin} |-> <<>>]

\* h.update(data)
Update(h, n) ==
  /\ h \in InUse
  /\ Len(input[h]) + n <= MaxInput
  /\ hasher' = [hasher EXCEPT ![h] = HasherUpdate(@, Fresh(h, n))]
  /\ input' = [input EXCEPT ![h] = @ \o Fresh(h, n)]

\* f with one more entry: v at x.
Extend(f, x, v) == [y \in DOMAIN f \cup {x} |-> IF y = x THEN v ELSE f[y]]

\* g = h.copy()
Copy(h, g) ==
  /\ h \in InUse /\ g \notin InUse
  /\ hasher' = Extend(hasher, g, CopyOf(hasher[h]))
  /\ input' = Extend(input, g, input[h])

\* Mutant: reset keeps the chaining values of the finished chunks.
ResetKeepsStack(h) ==
  /\ h \in InUse
  /\ hasher' = [hasher EXCEPT ![h] = [@ EXCEPT !.chunk = NewChunk(hasher[h].mode, 0)]]
  /\ input' = [input EXCEPT ![h] = <<>>]

\* h.reset()
Reset(h) ==
  /\ h \in InUse
  /\ hasher' = [hasher EXCEPT ![h] = NewHasher(@.mode)]
  /\ input' = [input EXCEPT ![h] = <<>>]

Next ==
  \E h \in Handle :
    \/ \E n \in 1 .. MaxUpdate : Update(h, n)
    \/ \E g \in Handle : Copy(h, g)
    \/ Reset(h)

Spec == Init /\ [][Next]_vars
=============================================================================
