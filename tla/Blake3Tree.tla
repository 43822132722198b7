----------------------------- MODULE Blake3Tree ------------------------------
(***************************************************************************)
(* What a BLAKE3 hasher promises: its output is a function of the bytes it *)
(* has absorbed, namely the tree hash that is defined here on the whole    *)
(* input at once.  Chunks are the leaves; the left subtree of a node is    *)
(* the largest complete one that leaves something for the right.           *)
(***************************************************************************)
EXTENDS Blake3

CONSTANT MaxOutput    \* bound: bytes of output asked for

ASSUME MaxOutputAssumption == MaxOutput \in Nat

\* The number of pieces of length n that hold len bytes, one at least.
Pieces(len, n) == IF len = 0 THEN 1 ELSE (len + n - 1) \div n

\* Piece k, counted from 0, of length n.
Piece(s, n, k) == SubSeq(s, k * n + 1, Smaller((k + 1) * n, Len(s)))

LeafFlags(mode, k) == mode.flags \cup (IF k = 0 THEN {"CHUNK_START"} ELSE {})

\* The chaining value before block k of a chunk.
LeafChain(mode, chunk, counter) ==
  LET chain[k \in Nat] ==
        IF k = 0 THEN mode.key
        ELSE Compress(chain[k - 1], Piece(chunk, BlockLen, k - 1), counter, LeafFlags(mode, k - 1))
  IN  chain

\* The leaf for one chunk: its blocks are chained, the first and the last one
\* are marked.
LeafOutput(mode, chunk, counter) ==
  LET last == Pieces(Len(chunk), BlockLen) - 1
  IN  Output(LeafChain(mode, chunk, counter)[last], Piece(chunk, BlockLen, last), counter,
             LeafFlags(mode, last) \cup {"CHUNK_END"})

Power2[k \in Nat] == IF k = 0 THEN 1 ELSE 2 * Power2[k - 1]

\* The largest power of two below n, for n > 1.
LeftSize(n) == CHOOSE p \in {Power2[k] : k \in 0 .. n} : p < n /\ 2 * p >= n

\* Tree[n][first] is the node over n chunks of bytes, the first of which has number first.
Tree(mode, bytes) ==
  LET node[n \in Nat] ==
        [first \in Nat |->
           IF n <= 1 THEN LeafOutput(mode, Piece(bytes, ChunkLen, first), first)
           ELSE ParentOutput(mode, ChainingValue(node[LeftSize(n)][first]),
                                   ChainingValue(node[n - LeftSize(n)][first + LeftSize(n)]))]
  IN  node

RootOutput(mode, bytes) == Tree(mode, bytes)[Pieces(Len(bytes), ChunkLen)][0]

\* Byte p, counted from 0, of the output stream of a root.
StreamByte(o, p) ==
  <<Compress(o.cv, o.block, p \div BlockLen, o.flags \cup {"ROOT"}), (p % BlockLen) + 1>>

-----------------------------------------------------------------------------

(* The compression digest() would finish with is the root of the tree over  *)
(* the bytes absorbed: however they were cut into update calls, whatever    *)
(* happened to the object this one was copied from or to its copies, and    *)
(* whatever was absorbed before a reset (Hasher.update, copy, reset).       *)
IncrementalIsOneShot ==
  \A h \in InUse : FinalOutput(hasher[h]) = RootOutput(hasher[h].mode, input[h])

(* digest(length, seek) is the part of one output stream: every pair of     *)
(* length and seek agrees on the bytes they have in common.                 *)
DigestIsStream ==
  \A h \in InUse :
    LET o == FinalOutput(hasher[h])
    IN  \A length, seek \in 0 .. MaxOutput :
          RootOutputBytes(o, seek, length) = [k \in 1 .. length |-> StreamByte(o, seek + k - 1)]

\* Subtrees[n][j] are the chaining values of the complete subtrees that the first n subtrees
\* of 2^j chunks join to: one for every one bit of n, the largest first.
Subtrees(mode, bytes) ==
  LET roots[n \in Nat] ==
        [j \in Nat |->
           IF n = 0 THEN <<>>
           ELSE roots[n \div 2][j + 1]
                \o (IF n % 2 = 0 THEN <<>>
                    ELSE <<ChainingValue(Tree(mode, bytes)[Power2[j]][(n - 1) * Power2[j]])>>)]
  IN  roots

(* The stack is a binary counter of the finished chunks: it holds the        *)
(* largest complete subtrees, one for every one bit of their number; and the *)
(* last block of a nonempty input is still in the buffer, so that digest()   *)
(* can mark it (_push_cv, and the laziness of both update methods).          *)
StackIsBinaryCounter ==
  \A h \in InUse :
    LET hs == hasher[h]
    IN  /\ hs.stack = Subtrees(hs.mode, input[h])[hs.chunk.counter][0]
        /\ input[h] # <<>> => hs.chunk.buf # <<>>
=============================================================================
