# TLA+ models of purecrypt

purecrypt is a pure-Python library of cryptographic primitives, encodings and
X.509 validation (`src/src/purecrypt`). It has no threads, no persistent state
and no network: a call runs to its end. What is hard in it is of another kind:

- loops over several nested counters whose *order* is claimed not to matter
  (Argon2's lanes);
- objects that are driven by a *sequence of calls* of any lengths and must
  behave as if they had been called once (BLAKE3, the XOF readers);
- a *search* with backtracking over inputs of awkward shapes (path building);
- encodings that must be unique, and conversions at the edge of a range;
- retry loops that must make progress (rejection sampling, signing);
- failures that must be indistinguishable, or must not be swallowed.

The project models these as state machines, checks them with TLC on small
instances and proves the central safety properties with TLAPS for all
parameters.

## Inventory

| Component | State | Operations | Hard behaviour | Correct when |
|---|---|---|---|---|
| Argon2 (`kdf.py`) | block matrix, loop counters | `argon2`, `_fill_segment`, `_index_alpha` | order of lanes, cyclic windows, rounding | independent of the order of lanes, references in the RFC window, ends |
| BLAKE3 (`blake3.py`) | open chunk, stack of chaining values | `update`, `copy`, `reset`, `digest`, `new*` | lazy compression at block and chunk ends, stack as binary counter, copies, seeks | output is a function of the bytes absorbed |
| Path building and validation (`x509.py`) | chain and one loop per frame of the recursion | `build_chain`, `_extend_path`, `_issues`, `validate_chain` | cycles, dead ends, exceptions in the middle of the search, depth bound | sound and complete search, accepted chains obey the rules on validity, issuers and path length |
| X.509 parsing (`x509.py`) | none (builds a frozen `Certificate`) | `from_der`, `_parse_tbs`, `_parse_optional_tail`, `_parse_known_extensions` | order of the optional tail, duplicate extensions | a certificate has one reading, or is refused |
| Hostnames and bundles (`x509.py`) | scan position | `verify_hostname`, `load_pem_bundle` | one-label wildcards, block boundaries | agrees with a reference on labels and blocks |
| DER (`asn1.py`) | position, depth | `decode`, `decode_all`, encoders | minimal lengths and integers, nesting bound | encode and decode are inverse, no second encoding is accepted |
| PEM (`pem.py`) | label, body lines | `decode_pem`, `encode_pem` | order of marker lines | one block, matching labels |
| PBES2 (`_pbes2.py`) | none | `pbes2_encrypt`, `pbes2_decrypt` | failure at any of a dozen places | one exception for all |
| AES and modes (`aes.py`) | counter, chaining block | CBC, CTR, GCM, PKCS#7 | counter wrap, tag before plaintext, padding edges | inverse operations, no plaintext without tag |
| ChaCha20-Poly1305 (`chacha.py`) | counter | AEAD and XChaCha | counter wrap, padding of the MAC input | as GCM |
| HKDF, PBKDF2, scrypt (`kdf.py`) | block counter | `hkdf_expand`, `pbkdf2` | 255th block, partial last block | prefix property |
| ML-DSA (`mldsa.py`) | XOF position, kappa | keygen, sign, verify | rejection loop, hints, unique encodings | hints recover high bits, decode rejects second encodings |
| ML-KEM (`mlkem.py`) | XOF position | keygen, encaps, decaps | compression rounding, implicit rejection | decapsulation returns the shared secret or a pseudo-random one |
| RSA (`rsa.py`) | none (keys are frozen) | keygen, `_rsadp`, paddings | blinding, CRT check, uniform decryption failure | private operation is inverse, nothing unverified released |
| ECDSA, ECDH (`ec.py`) | accumulator, DRBG state | `_scalar_mult`, `sign_ecdsa`, `_rfc6979_k`, key files | exceptional points, nonce retry | encodings are exact, signatures verify, no nonce serves two equations |
| Ed25519, X25519, X448 (`eddsa.py`, `x25519.py`) | ladder registers | sign, verify, exchange | masked swaps, strict decoding | ladder computes the multiple, a point has one encoding |
| Hash front ends, utilities (`hashes.py`, `_utils.py`, `exceptions.py`, `__init__.py`) | none | wrappers | none | - |

How they interact: `x509` reads DER (`asn1`) and PEM (`pem`), and verifies with
`rsa`, `ec` and `eddsa`; the private-key classes serialise through `asn1`, `pem`
and `_pbes2`, which uses `kdf` and `aes`; everything else is leaf code. Calls
are synchronous and share no mutable state, so components compose by their
results: a model of one takes the results of another as a parameter or as a
nondeterministic choice.

## Modules

### Argon2

| Module | Role |
|---|---|
| `Argon2Block` | parameters with their assumptions, memory layout, reference selection, the block of one iteration |
| `Argon2Lanes` | the *abstract* specification: lanes fill a slice in any interleaving, a barrier ends the slice |
| `Argon2Fill` | the code's four nested loops; implements `Argon2Lanes` under `laneIndex` |
| `Argon2Order` | two executions of `Argon2Lanes` side by side, each with its own order |
| `MCArgon2Data` | toy block operations for TLC |

`mem[lane][i]` is the code's `mem[lane * lane_length + i]`. A block is an
element of the constant set `Block`; `_g_compress`, XOR, `_h_prime` and the two
halves of a block's first word are constant operators (`G`, `Xor`, `HPrime`,
`J1`, `J2`), and the address stream is the pair `AddressJ1`, `AddressJ2`, because
it depends on positions only. `Word` stands for 2^32. One `FillStep` is one
iteration of the loop of `_fill_segment`, including the exclusive or with the old
block after pass 0 for version 0x13; `NextSegment` is the return to the three
outer loops, `FoldStep` one iteration of the loop that combines the lanes. The pairs of a
data-independent segment come from a generator (`_address_stream`), which knows no positions:
`drawn` counts what `next()` has yielded, and a step takes the pair of that number, whereas
`Argon2Lanes` takes the pair of the position. The two meet only because the loop skips
(`Skipped`) as many pairs as positions.

*What is checked.* `ReferenceInWindow` compares `_index_alpha` with the window
of RFC 9106, section 3.4.2, which is stated on time stamps (`Window`) and shares
nothing with the offsets of the code. `ImplementsLanes` is the refinement, with the
liveness of `Argon2Lanes`: every block is filled and the tag is reached. `OrderIrrelevant` is the docstring's claim that
the sequential order "yields identical output to parallel execution": the two
executions of `Argon2Order` agree on every block that both have stored, at every
moment, and on the tag.

*What is proved*, for every parallelism, memory cost, time cost, word size, block
set and compression function that satisfy the assumptions of `Argon2Block`:

- `Argon2Proofs` begins with the arithmetic: the layout (`Layout`), the quadratic map
  stays in its area (`RelativeBound`), the offset lands in the window
  (`IndexInWindow`) and, for another lane, outside the current segment
  (`IndexSeparated`).
- `Argon2Proofs`, about the loops: `TypeCorrect`, `WindowCorrect`, and `Refinement`, which is
  the safety part of `ImplementsLanes` (initial states map to initial states,
  every step to a step or a stutter). The inductive invariant is `TypeOK` with
  `index >= Start(pass, slice)`, without which the first two positions of a lane
  would give empty windows, and `Aligned`, by which the generator is at the pair of the position
  (`FillIsFill`: a step of the loop then stores the block of the abstract one).
- `Argon2Proofs`, about two executions: `OrderCorrect` and `ReferenceCorrect`. `OrderIrrelevant`
  alone is not inductive: the block that one execution stores now must equal the
  block that the other one stored earlier, from memory that has changed since. The
  strengthening (`Replayable`) says that each block of the current segment that
  one execution has and the other lacks is what the other would compute there
  now; `ReferenceSettled` is what makes it survive the steps of other lanes.

### BLAKE3

`Blake3` is the class `Hasher` with `_ChunkState` and `_Output`: `Update`, `Copy`
and `Reset` on a set of handles, the constructors in `Init` (plain, keyed, and key
derivation, which first hashes the context). The compression function is a
free constructor, so two outputs are equal exactly when all inputs of the two
compressions are: chaining value, block, counter and flags. `Blake3Tree` defines
the tree hash of a whole input at once, by recursion on the number of chunks, and
compares: `IncrementalIsOneShot`, `DigestIsStream`, `StackIsBinaryCounter`.
Python objects are values here, so that sharing of a mutable buffer between a
hasher and its copy (which `copy` avoids by copying each field) is not visible.

A loop of the code is a recursive function of the number of iterations (`ChunkSteps`,
`HasherSteps`, `Merges`, `FinalOutputs`); each has as many as the loop can take at most, and the
rest of them change nothing.

*What is proved* (`Blake3Proofs`), for every block length, every chunk length that is a
multiple of it, all modes, and any sequence of updates of any length, copies and resets: `IncrementalCorrect`,
`StackCorrect` and `DigestCorrect`, which are the three properties of the component. The inductive
invariant says what a hasher is that has absorbed `x`: `HasherAt(mode, x)` has the last chunk of `x` open,
with its last block in the buffer and the blocks before it chained, and the stack of `Subtrees` of the chunks
before. The argument follows the calls:

- `ChunkUpdates`: one iteration of `_ChunkState.update` takes the chunk state of a prefix to that of a longer one
  (`ChunkTakes`), so that the loop absorbs all of its data. That a piece is never empty after the first
  (`Fits`) is the laziness of the code: a full buffer is kept until a byte follows.
- `PushCvIs`: joining a finished chunk to the subtrees of n chunks gives the subtrees of n + 1 chunks. The induction is
  over the trailing zero bits of n + 1, and a merge makes the node that `Tree` has there (`NodesJoin`).
- `HasherUpdates`: `Hasher.update` after `x` is the hasher of `x` with the data appended; `NewHasherIs` and `CopyIsSame` are
  the other two ways to get a hasher.
- `HasherFinishes`: folding the stack from its top (`_final_output`) gives the root of `Tree`. The induction over the
  entries of the stack needs `LeftSizeIs`, that the left subtree is the largest power of two that leaves something.
- `RootOutputBytesIs`: the blocks in a row, less the offset, are the bytes of the stream from `seek` on.

The trees, chains and stacks are recursive functions; each is unfolded by a lemma of its own
(`TreeUnfolded` and the like), and the inductions are about the least natural number that fails (`LeastElement`), since the
library's theorems on induction and recursion take operators as parameters.

### X.509 paths

`X509Path` is a call of `validate_chain`. A frame of the recursion `_extend_path` is
a pair of a certificate of `chain` and an entry of `cursor`, the candidate that its
loop tries next (0: the frame was just entered). `Enter` is the depth test and the
two loops over the roots; `TryCandidate` one iteration of the loop over the
intermediates, with its three ways out (skip, recurse, exception); `Exhausted` and
the first disjunct of `Enter` return None through `ReturnNone`, which continues the
caller's loop. `CheckCertificate` and `CheckAnchor` are the loop and the end of
`validate_chain`. Phases: `found` (path built, checks go on), `accepted`,
`rejected` (a check failed), `no path`, `aborted` (an exception out of the search).
All failures are the same exception to the caller.

A certificate is a record of what the code reads of it. `signer` is the key whose
signature the certificate carries; verification gives "valid", "invalid" or "error"
(InvalidCertificate: weak hash, key of another type, unsupported algorithm).
`X509PathProps` states the properties: `PathFound` (soundness), `NoPathMissed`
(completeness, against breadth-first search), `AcceptedIsValid`, `Terminates`. Two checks of the docstring are in
the actions but not in `AcceptedIsValid`, each of one certificate alone: `digitalSignature` of the leaf (`CheckLeaf`) and
the signature of a self-signed anchor (`CheckAnchor`).

*What is proved* (`X509PathProofs`), for every set of certificates, arguments and depth
bound: `TypeCorrect`, `PathCorrect`, `AcceptedCorrect` and `SearchIsComplete`. The inductive
invariant adds to `PathFound` that the chain of the search is such a path without its end
(`Climb`), that the leaf is no anchor, and that a frame whose candidate loop has begun is at
a certificate that no root has issued (`Settled`). From it follows, for instance, that the
root that ends a chain cannot already be in it. For `AcceptedIsValid` the invariant says which
certificates of the chain have been checked, and how many certificates below each one count against its path
length. For `NoPathMissed` it says that every candidate before a cursor
leads nowhere: no path without repetition that begins with the chain up to the frame and goes on with that candidate
reaches a root within the bound. When the search gives up, no such path is left; and every
certificate that breadth-first search reaches is the end of one that is not longer (`ReachedByWalk`: a walk
that would come back is cut). The induction over the levels is an argument about the least natural number
that fails (`NatSetInduction`), since the induction theorems of the library cannot be used.

*Two statements of the documentation do not hold* (`findings`): the depth bound
is nine links and not eight (`x509_depth`); and `build_chain` raises although a path
exists when a candidate has the right name and a key of another type (`x509_raises`).
Validation does not go back to the search, so that the order of the intermediates can decide
whether a leaf is accepted: the first path found is the one that is checked, and an expired certificate
on it is not replaced by another. The documentation promises nothing else.

### DER

`Der` has the pure parts of `asn1.py`: the checks of a tag, a length and the content of a
primitive value, the accessors, and the encoders, on sequences of octets. `DerDecode` is a
call of `decode` or `decode_all`; the recursion of `_read_tlv` and `_read_children` is a
stack (`open`, the elements begun; `kids`, the children read so far, one list more than
there are open elements). `ReadPrimitive` and `OpenConstructed` read one header,
`CloseConstructed` makes a node of the innermost element when its content is used up,
`Reject` is every exception, `Finish` the end with the test for trailing data. `DerGrammar` is
the reference: a string is DER when it is what the encoder of a header and a content makes, with a content that
X.690 allows, stated on the values that contents stand for (the number without its first octet is another one; the
unused bits are zero) and not with the code's tests on octets. `Series` goes over the strings by length, as a recursive function.

`AcceptsExactlyDer` compares acceptance with the grammar, `RoundTrip` says that decoding inverts the encoders and
that encoding the decoded tree gives the input back (so that no value has two encodings), with integers around 127, 255 and
32767, and object identifiers at the limits of an octet. `SlicesNest` says that no element that is open
reaches beyond the one that contains it. What the code leaves to the accessors is left
to them here: the content of NULL is looked at by `null_value` only, the order of a SET OF
by nobody.

*What is proved* (`DerDecodeProofs`), for every input, every bound on the nesting and on the octets of a
length, and all arguments of the encoders: `TypeCorrect`, `SlicesCorrect`, `AcceptsCorrect` and `RoundTripCorrect`.

- *Slices.* The invariant adds that the octets between the position and the end of an open element exist, so that every read
  is inside the input.
- *Acceptance* has two halves. The tests on octets are the rules on values: the length field that `_read_length` takes is the
  one that `encode_length` writes (`LengthFieldRead`, `LengthAccepted`: the digits of a number in base 256 are unique), a number
  of two octets or more is the shortest if and only if its first nine bits differ, and so on for bit strings, arcs and
  tags. Then the stack has to do what the grammar does by recursion. The invariant, `Verdict`, is about the future and not about
  what was read: the whole input is DER if and only if at each level of the stack the octets behind the element that is open
  (`Pending`, `Resumes`) are, at that level's depth. Reading a primitive element or opening a constructed one takes one
  element off the innermost series (`MoreIs`, which needs that no other cut of the octets makes an element: a
  header determines its end); closing one finds the series empty. So when an element is refused the whole input is not DER, and
  when nothing is left it is.
- *Round trip.* Contents first: what `encode_integer`, `encode_bit_string` and `encode_oid` write is allowed and read back
  (`IntegerWritten`, `BitsWritten`, `OidWritten`), and an allowed content is what they write for its value (`IntegerReadBack`, `FirstAndRest`,
  `OidReadBack`). For object identifiers both are inductions over the arcs and the digits of one arc, with the
  parser's state as what is known of the octets so far (`ArcsReadBack`, `ArcsWritten`), and the first two arcs are merged and split
  (`SplitMerged`, `MergedSplit`). Then the stack: `Written` says that on every level the encodings of the siblings are the
  octets from the beginning of the slice up to a header, and that from there to its end stands the encoding of the element that is open
  there; `NodesRead` says the same of each finished node and its children. A closed element therefore has the octets it was opened for
  (`CloseConstructedRead`), and at the end the encodings of the nodes are the input. That an encoding is accepted follows from `AcceptsCorrect`; that
  the first node is the encoded one, from the header, which determines tag and content (`HeadsAgree`).
- The recursive functions `Digits` and `Series` are shown to satisfy their defining equations by well-founded recursion
  (`Recursion`, `SmallerFirst`, `CountUp`), from the library's theorem that the natural numbers have least elements.
- *Assumptions.* `FirstTlvAssumption`: `_first_tlv` takes up to 8 octets of a length, and the theorem needs that to be no fewer than the decoder's
  `_MAX_LEN_OCTETS` (8). `SizesAssumption`: no string is so long that the length of a part of it does not fit into
  that many octets; the code does not test this in `encode_length`, and with 8 octets no object of Python is that long.

### PEM

`Pem` is a call of `decode_pem`, `Certificate.from_pem` or `load_pem_bundle`. A text is a sequence of
tokens: BEGIN and END markers with a label, chunks of base64 (some of which end in padding),
line ends of the kinds that matter ("\n", the others in ASCII that `splitlines` knows, and those
that are not ASCII), and anything else, in ASCII or not (`Foreign`). The argument is a str or bytes (`form`).
`decode_pem` converts bytes to a str, `load_pem_bundle` a str to bytes, and either raises "PEM is not ASCII"
before it reads anything (`Converts`, in `PemInit`); the slices of a bundle are bytes, which `decode_pem` converts
again (`ForeignBlock`). So text that is not ASCII passes in the str of one block, and in a bundle of bytes between
the slices only. `FindBlock`, `ForeignBlock` and `EndOfBundle` are the searches of the bundle in
the text; `BeginLine`, `SkipLine`, `BodyLine`, `EndLine`, `BadLine` and `EndOfBlock` are the
iterations of `decode_pem` over lines. The whole text of a token is present or absent: markers cut in
two are "anything else".

The properties compare a result with the blocks of the text (`LoadsEveryBlock`), allow an exception only for
a text with a defect or a conversion that fails (`RejectsOnlyMalformed`), and say what a single decoding returns
and when it raises (`DecodesFirstBlock`). Of bundles, the first two are about texts whose lines end in "\n" alone (`LineFeedsOnly`); the third finding says what
happens to others.

*Three statements of the documentation do not hold* (`findings`). "Free text before the BEGIN line or after the END line is
ignored": not if it is converted and is not ASCII (`pem_text`). "Blocks with other labels are ignored": only if
their body is base64 and not empty (`pem_other`). "Load every CERTIFICATE block": `load_pem_bundle`
searches "\n" where `decode_pem` splits with `splitlines`, so that of blocks whose lines end in "\r" it loads
the first one and returns without the others (`pem_ends`); if that one has another label, it raises although a certificate follows.

*What is proved* (`PemProofs`), for texts of any length, all labels and all bodies: `BlocksLoaded`,
`RejectionsAreDue` and `FirstBlockDecoded`, which are the three properties. The readers see the lines of a slice, the
properties speak of positions in the whole text; the inductive invariant (`PemIInv`) joins the two. `Scan` is
what the reader knows after each line: no line before it opens a block of the slice, or one does, everything behind it is base64
and line ends, and `body` is the chunks so far (`ScanSkips`, `ScanOpens`, `ScanFills`, `ScanEnds` are the four kinds of
lines). `IsCut` is what the searches of a bundle say of a slice; `CutHasOneBlock` shows that the slice holds one block, which
ends where the search found its END, so that a bundle has returned the certificate blocks before `searchFrom` and no others (`Before`).
A slice with a good block is ASCII when the text is (`ForeignBlockKeeps`); of a line, an exception is excluded by `GoodIsTaken`: when the first opening is that of a good block, each line of it is one that
the reader takes. `RejectsOnlyMalformed` needed the restriction to line feeds for the proof of `CutHasOneBlock`, and
the text with "\r" that refutes it without the restriction is now among those of the run.

### Authenticated ciphers

`Aead` is one thread that makes calls of AES-GCM, ChaCha20-Poly1305, XChaCha20-Poly1305, AES-CTR and
`chacha20_xor`. `Call*` chooses the arguments, bad ones included; `RejectArguments` is the argument
checks, with the exception of each; `Begin*` takes the block that hides or keys the tag and, in a decryption,
compares the tag; `Stream` is one iteration of the loop over the data, `RejectCounter` the
range check of `chacha20_block`, `Return` the end. `drawn` and `sent` record the blocks of key stream
that the call has used and what has been encrypted; the code keeps neither.

The block functions are a free operator of key, fixed part and counter, and an authenticator
is the term of its inputs: two tags are equal when the hash, its key block and the authenticated octets are.
Collisions, which exist with a probability that depends on the tag length, are left out.
The properties are `BlocksOnce` (the data and the tag never share a block, although the counter
starts anywhere and wraps), `FailsEarly` (an exception means that nothing was
written), `Authentic` and `DecryptInverts`. That a nonce is used for one message only is
the caller's obligation, as the documentation says, and none of the properties needs it.
`BlocksOnce` is limited to as many blocks as there are counters: the code does not limit the
data, and beyond that number (256 GiB for ChaCha20) the key stream repeats.

*What is proved* (`StreamProofs`), for all block functions, sizes, messages and first counters: `TypeCorrect`,
`BlocksOnceCorrect`, `FailsEarlyCorrect`, `AuthenticCorrect`, `DecryptCorrect`. The inductive invariant says that the
block number i of a call has the counter `Base + i - 1` modulo the number of counters, and
that every tag that is known belongs to the associated data and the ciphertext it is kept with. `DecryptCorrect`
needs a second invariant on top (`Reversible`): what a finished encryption has left is the plaintext under the octets of its
key stream, from the same key, nonce and first counter that a later decryption with the same tag uses, so that the
octets cancel one by one. A tag of Poly1305 does not say which of the two ChaCha schemes it comes from; they share
the block and counter sizes (`XChaChaAssumption`), which is all that matters. Two lemmas carry
the other theorems: a counter that wraps does not come back in fewer steps than its size
(`ModuloDistinct`), and the padded concatenation with both lengths determines its parts
(`MacDataInjective`).

### Password-encrypted keys

`Pbes2` is one `pbes2_encrypt` and a `pbes2_decrypt` of what it returned, under any password, or
a `pbes2_decrypt` of another envelope. An envelope is the record of the fields that `pbes2_decrypt` reads;
their encoding is the DER component's. `EnvelopeOK` is the checks that come before the key
derivation, with the loop over the optional parameters (`ReadExtras`: the last of a kind wins, no PRF
means SHA-1); `EncryptStep` and `DecryptStep` are one iteration of the CBC loops; `PaddingOK` is the mask
computation of `pkcs7_unpad`; the `Reject*` actions are what the `except` clause turns into one `InvalidKey`.
PBKDF2, the block cipher and the shape check of the plaintext are free operators.

`Pbes2Props` states what an envelope holds without the loops (`IsEncryption`: block i of the
ciphertext is the cipher of block i of the padded message on block i - 1), and compares:
`ReturnsOnlyWhatIsHeld` in one direction, `FailsOnlyWhenNothingIsHeld` in the other for the envelopes that
RFC 8018 allows, which is fewer than the code accepts (it takes the two optional parameters in any
order, and twice). `RoundTrip` covers the fact that `pbes2_encrypt` takes any octets but `pbes2_decrypt` returns
only those with the shape of a PrivateKeyInfo. A wrong password may give another PrivateKeyInfo by chance, as the module's
docstring says: there is no authenticator, and the properties do not exclude it.

*What is proved* (`Pbes2Proofs`): all three properties, for every block size, every cipher
that permutes blocks under each key and every key derivation (`CipherAssumption`, `KeyAssumption`), messages and envelopes
of every length (`InputAssumption`). The inductive invariant `IInv` says, per phase, what is held: the arguments (`Arguments`),
the blocks already encrypted (`Sealing`) or decrypted (`Opening`), and the finished results (`Sealed`, `Opened`).
The lemmas under it: encryption and decryption of a chain of blocks are inverse
(`CbcInverse`), so are padding and unpadding (`PadUnpad`, `UnpadPad`, with the test of the mask read as a
test on the octets), and the loop over optional parameters keeps the last of each kind (`ReadExtrasCorrect`). `OpensSound`
and `OpensComplete` turn the loops into `IsEncryption`, in one direction each.

### Public-key cryptography and the small algorithms

These modules are checked together, by `MCCrypto`: a behaviour is one call of one of them. The loops that
draw until what they have drawn can be used are machines, with an action for every outcome of a draw; of
the algorithms, the machine holds the arguments in `call`, and a property compares what they compute with a
definition that shares nothing with the code. Numbers are small and real: curves over primes of 7 to
29, rings of 2 or 4 coefficients, RSA moduli of 7 to 10 bits, so that every special case of the arithmetic occurs,
and often.

| Module | Code | What it has | Property |
|---|---|---|---|
| `Octets` | `_utils.py`, `mldsa.py`, `mlkem.py` | strings of octets as numbers and as streams of bits | `PolynomialsExact` |
| `ModArith` | - | `pow`, inverses, `bit_length`, selection by a mask | |
| `Ec` | `ec.py` | affine and Jacobian formulas with their masks, point encodings, key files in SEC1 and PKCS#8, ECDH | `EcKeysExact` |
| `Ecdsa` | `ec.py` | the RFC 6979 generator, the retries of `sign_ecdsa`, `verify_ecdsa` | `SignatureVerifies`, `NonceFresh` |
| `Ring` | `mldsa.py`, `mlkem.py` | layers, zetas and products of both transforms, packed vectors | `PolynomialsExact` |
| `MlDsa` | `mldsa.py` | rounding, hints, every encoding of keys and signatures, key generation, the rejection loop, verification | `MlDsaSound`, `MasksFresh` |
| `Xof` | `mldsa.py`, `mlkem.py` | the readers of a SHAKE stream and the four samplers over them | `SamplesTheStream` |
| `MlKem` | `mlkem.py` | compression, K-PKE, implicit rejection, checks of keys, all on octets; the binomial sampler | `KemExact`, `PolynomialsExact` |
| `Rsa` | `rsa.py` | generation, checks of loaded numbers, the blinded private operation with its release check | `RsaKeysUsable`, `RsaReleases` |
| `RsaPad` | `rsa.py` | the paddings, both encryption and both signature schemes around them, the files of keys | `PaddingsExact` |
| `Curve25519` | `x25519.py`, `eddsa.py` | the Montgomery ladder with its delayed swaps, strict decoding and signatures of Ed25519 | `ExchangesExact`, `EdwardsExact` |
| `X509Fields` | `x509.py` | fields of a certificate, times, optional tail, extension table, basic constraints, key usage, key identifiers, PSS parameters, host names | `FieldsExact`, `HostnamesExact` |
| `Kdf` | `kdf.py` | the block loops of HKDF-Expand, PBKDF2 and `_h_prime` | `KdfOutputsFit` |

*ECDSA.* HMAC is a free constructor, so that the generator's K and V are terms and equal only if all that
went into them is. Which number the octets of a candidate are is chosen when they are used; `EcdsaRetry`
is every candidate that is out of range or gives r = 0 or s = 0, `EcdsaReturn` any that can be used.
`NonceFresh` says that no call uses octets of the generator twice, and that two calls start from the same octets only if
key and signature equation are the same: the digest enters the seed after its reduction, and signatures
with equal reduced digests are equal. On the curves chosen, r = 0 and s = 0 happen, the order is above and below the prime,
and digests are longer, shorter and not below the order. `verify_ecdsa` is asked about both values of s.

*What is proved* (`SignatureProofs`): `NonceFreshCorrect`, for every curve, every set of digests and keys, and every number of
retries; of the constants only that digests are numbers and orders positive ones (`DigestAssumption`). A term of HMAC is written in
postfix notation, a sequence that has its arguments' sequences in front of what tells it apart, so that a term is longer
than those inside of it. The invariant says that every candidate used is shorter than the value the generator
has reached (K is before V in the next term), so that no candidate comes back; and that two generators of one call have the same start only
if they were given the same key and reduced digest, which are what the equation of the signature is made of.

`SignatureCorrect` is `SignatureVerifies`: every signature that is returned verifies, and so does the one with the other s, for every key, digest and
usable nonce, with fields and orders of any size. `CurvesAssumption` says what is needed of a curve (`IsCurve`): field and order are primes, the prime above 3; the multiples of G
are points of the curve, and `_point_add` adds them as their scalars add modulo the order. That they form a group is the mathematics of
elliptic curves and not of this code; TLC evaluates the assumption on the curves of `MCCrypto`. It also says that the powers of 2 up to the
length of the order double, which the provers do not know. Everything that the code does on top of `_point_add` is proved. (1) The
Jacobian formulas are those of the group: `JDoubleIs` and `AddIs` compare the polynomials of `_jdouble` and `_jadd_mixed` with tangent
and chord modulo p, with the point at infinity, two equal points (where `_scalar_mult` substitutes the double) and opposite points (where the
formula itself gives z = 0) as cases of their own. (2) `ScalarMultIs`: after i iterations the accumulator represents the multiple by the first i bits of the scalar, so the loop with its masks computes
`m[(k * j) % n]` from `m[j]`. (3) `VerifyIndex` and `SignsBoth` are the algebra of the two equations modulo the order: the two multiples that `verify_ecdsa` adds are the
nonce's point, or for n - s the opposite one, which has the same abscissa (`OppositeAbscissa`).

*ML-DSA.* `MlDsaReject` and `MlDsaReturn` are one attempt of `_sign_mu`: mask and challenge are any of the sets given.
`nonces` records what `_expand_mask` was called with; the code keeps `kappa` only. `MlDsaDecode` is the part of
`_sig_decode` that reads hints, on every encoding, good or bad. `MlDsaSound` is the central correctness argument of the scheme: what
the loop lets out verifies although the public key lacks `t0`, at the corner of `_decompose` and with norms at their
bounds.

*What is proved* (`SignatureProofs`), for every parameter set, key, challenge and number of attempts: `MasksFreshCorrect`, that
no mask is drawn from a nonce that was used before. The invariant says that all nonces used lie
below the counter; `AttemptIsFresh` is the step, where the counter advances by the `ell` polynomials of a mask.
`HintsRecover` is the rounding lemma for one coefficient. The zones of `_decompose` (`InZone`) are m intervals around the multiples of 2 gamma2, on
a circle of q = 2 gamma2 m + 1 residues; the corner makes the zone of 0 one longer. A step of at most gamma2 leads into the zone itself or a neighbour (`ZoneStep`),
and the sign of the low bits says which; the norm tests keep the other step, by the challenge times s2, inside. `HintsCorrect`, with `Decoded` as its invariant, is the second conjunct of `MlDsaSound`:
behind the tests of `_sig_decode` the positions of a row rise, so that their number is the row's weight (`RunSize`, `WeightIs`) and the j-th one is the one with j - 1 below
it. Assumed is that 2 gamma2 divides q - 1 (`RoundingAssumption`), and that encodings have the length that `_verify_mu` asks for and positions below n, as octets have for n = 256 (`HintsAssumption`).

*Samplers.* The reader asks the XOF for a longer prefix whenever it has less than the next read needs (`XofGrow`),
so that a read may begin in one prefix and end in the next. `SamplesTheStream` filters the candidates of the
whole stream at once (`Kept`). The numbers (moduli, masks, bounds of the half octets) are those of the code.

*What is proved* (`StreamProofs`), for streams of any length, any step by which the prefix grows, any number of coefficients and
every parameter that the parameter sets use (eta of 2 or 4, tau of 64 at most): `SamplersCorrect`, which is
`SamplesTheStream`. The invariant (`XofIInv`) has four parts: the buffer is a beginning of the stream, read up to
`off` (`Held`); after `r` reads the coefficients are what is kept of the first `r` or `2 r` candidates, or the first
`SampleSize` of that (`Sampled`, `IsFirst`); after some signs were placed, as many positions are nonzero, all below the one that
comes next (`Challenge`, `Filled`), which is why `c[i] = c[j]` loses nothing; and a loop ends only when it is complete.
`KeptBelow` and `KeptGrows` are inductions over the number of candidates; `Low23` and `Twelve` are the arithmetic of the
masks and shifts; `BallFills` is one step of the loop of a challenge.

*RSA.* `MayBePrime` takes a number for prime if some base passes, so that pseudoprimes (25) become factors; files hold
any numbers. `RsaPrivate` lets a fault change one half of the CRT, which is what the check before the
release is there for (`rsa.py:483`). `CheckPrivate` also shows that a file with p = 1 or q = 1 ends in `ZeroDivisionError`
where other bad numbers give `InvalidKey`: the documentation says nothing of it, so it is no finding.

*What is proved* (`SignatureProofs`), for every size and public exponent that the code accepts, every file, every blinding and every fault:
`RsaReleasesCorrect` and `RsaKeysUsableCorrect`. The number theory they need is proved from the definitions of the modules: congruences; the recursive
definition of `Pow`, which squares, and its laws (`PowersExist`, `PowAdd`, `PowTimes`, `PowProduct`); the inverse by Bezout's identity, as the least element of
an ideal (`CoprimeInvertible`); Euclid's lemma; Fermat's little theorem (`Fermat`: the orbits of multiplication by `a` all have as many elements as the order
of `a`, so that it divides p - 1); that `Recombined` is Garner's formula, and that the product with the blinding undone is the power by `d` modulo both
primes, so modulo n (`HalfRoot`, `PrivateRoot`). The invariant `RsaIInv` says that the key in the state is one that `CheckPrivate` has accepted; that
the factors are odd follows from n, not from a check of theirs. A generated key is accepted because gcd(p - 1, e) = 1 for both primes gives e an inverse modulo
the least common multiple (`ExponentInvertible`), and p # q gives q one modulo p. Two assumptions on the constants: the arguments are those
that `generate_private_key` lets through (`RequestsAssumption`: from its limit of 32 bits on e only that e is below the product of the least primes, as the provers know nothing of powers
of two), and the numbers of a file are not negative (`FilesAssumption`).

The schemes (`EncryptV15` to `VerifyPss`) run the operation of `Rsa` between the octets and the paddings, for moduli of 8 to 11
bits with octets of two: of whole octets, of one bit more, where the PSS block is an octet shorter, and between. `SchemesTakeOnlyMade`
asks about every string of octets: what is decrypted was encrypted, and what verifies is a signature modulo n. It is so
modulo n only: `verify_v15` and `verify_pss` do not ask for a representative below n, so that a signature with n added
verifies as well when the octets leave room. RFC 8017, which the module claims to
implement (`rsa.py:2`), refuses such a signature (RSAVP1), and `InRange` refuses such a ciphertext: `rsa_range` is the finding.
A file of a key is the tree of its DER (`ToPkcs1`, `PrivateKeyInfo`, `Encrypted`, `Spki`); `RsaLoadsOwn` reads each as every kind.

*ML-KEM.* Keys and ciphertexts are octets, in which a seed, a hash or the matrix is one element. `KemAgrees` changes every octet of
a ciphertext to every value: no two give the same secret; and every octet of the key within the key, which its check must see.
The noise is a function of seed and nonce, and `CbdCentered` counts what `SampleCbd` makes of all strings of octets. *Curves.* `EcDecodesExactly` and `EdDecodesExactly` quantify
over all encodings of all points of the field, on and off the curve, in and out of the subgroup, and compare the scalar
multiplications with repeated addition; `ExchangeAgrees` includes the points of the twist and of small order.
*Fields.* `CertificateExact` says which sequences of fields are a certificate: the order, the version, the
positive serial number, one algorithm in both places with the parameters of its family. `TimeExact` relates times to one another instead of
computing them again: two digits of a year against four, a day and the next, an offset and its opposite. (The regular expressions also let
a newline through behind the time.) The octets that a signature is over are cut out by `_first_tlv` (`FirstTlv` in
`DerGrammar`), which reads the length for itself: `RoundTrip` has it agree with the decoder. Parsing refuses what would have two readings: a repeated extension (path validation takes the last
of an OID, a caller gets the first), optional fields out of order, parameters of PSS that
disagree. `HostnameExact` matches by whole labels where the code cuts strings.

## Runs and bounds

Components that share nothing are checked in one run, each in behaviours of its own (`machine` in `MCHashing` and `MCFormats`,
the idle machines of `MCCrypto`).

| Run | Instance | Why it is enough |
|---|---|---|
| `argon2_fill` | 2 lanes, 16 blocks per lane (segments of 4, so that a data-independent segment yields several pairs), memory cost 37 so that rounding matters, 3 passes, `Word` 4, 2 seeds, all variants and versions | every case of `_index_alpha` (first slice, first pass, later passes; own and other lane; first and later positions; last slice) occurs, with two wrap-arounds |
| `hashing` | BLAKE3: blocks of 2 and chunks of 4 bytes, 2 handles, 1 to 9 bytes per update, 25 bytes per hasher, outputs and seeks up to 5. Argon2's orders: 3 lanes, 8 blocks per lane (segments of 2), 2 passes. PBES2: octets 0 to 3, blocks of 3 octets, two passwords, salts and IVs, iteration counts around both limits; all 88 messages of up to 4 octets that are a PrivateKeyInfo or nearly; all ciphertexts of up to 2 blocks; every combination of up to two optional parameters with good and bad algorithms | BLAKE3: seven chunks: up to two merges per push, stacks of two; an update crosses up to two chunk ends and every block boundary; seeks inside the third block. Argon2: any two interleavings, references to two other lanes, the first pass and one that overwrites. PBES2: padding of 1, 2 and a full block, every wrong padding of one and two blocks, every rejection |
| `x509_path` | `MCX509Path`: a root with renewed, bare, forged and restricted versions, a root of the same name with an EC key, intermediates A and B that sign each other, versions of A with one defect each; bags of up to four; depth bound 2 | cycles, dead ends, the depth bound, every rejection and both kinds of anchors occur |
| `x509_depth` | the real bound 8, lines of up to ten links | |
| `x509_raises` | as `x509_path` | |
| `formats` | DER: lengths of up to two octets, nesting up to 3; the strings of `MCFormats`. PEM: texts of up to three pieces out of 24 (lines, fragments of lines, whole blocks), or four blocks, with two labels; and blocks among text that is not ASCII | DER: every class of tag, every form of length, definite and not, and every rule on content, alone and inside up to three constructed values. PEM: two blocks with text before, between and after them, and every order of markers; text that is not ASCII before, between, in and behind blocks |
| `pem_text`, `pem_ends` | the texts of `formats` | |
| `pem_other` | the texts of `formats` | |
| `rsa_range` | as `crypto` | every string of the length of a signature under every key |
| `aead` | blocks of 2 octets, 4 counters, tags of 1 and 2 octets, messages of up to 9 octets (five blocks, one more than there are counters), a nonce whose hash is the last counter, two calls | every argument check, partial and empty data, the wrap, and any decryption after any encryption |
| `crypto` | three curves of order 7 and 13 for ECDSA, up to three rejected candidates; four curves for points and keys, two Montgomery curves and one Edwards curve; rings of 2 and 4 coefficients; up to three rejected attempts of ML-DSA; streams of four triples with a prefix that grows by 4 octets; RSA keys of 7, 8 and 10 bits and files of any factors up to 15; octets of 2 bits in paddings of 5 and 6, schemes with moduli of 8 to 11 bits and every string of 4 and more octets of theirs; certificates with each field missing or exchanged with another; times around 1950 and 2049, leap days and the ends of the years 1 and 9999; host names of up to five characters against patterns of up to four; outputs of 0 to 300 octets | every retry, every special case of an addition, every position of a separator, every order of up to three optional fields, the 255th block, the corner of rounding |

Bounds by name: `MaxUpdate`, `MaxInput` and `MaxOutput` (BLAKE3), `Links` (depth
run), `MaxLenOctets` (DER), `MaxCalls` (authenticated ciphers),
`MaxCandidates` (ECDSA), `MaxAttempts` (ML-DSA), `RsaBlindings` (RSA), one
encryption and one decryption (PBES2); the other constants are parameters of
the code. CHECK_DEADLOCK is off where the call ends (Argon2, X.509, DER, PEM) or
where a bound stops the caller (BLAKE3, authenticated ciphers, PBES2, the machines of `MCCrypto`).

Fairness: weak fairness of the whole next-state relation, for Argon2 and the path search, whose ends are
checked. The code is one thread that nothing suspends, so a step that can be taken is taken. The other runs check
safety and state none: calls have no fairness, since nothing obliges a program to call `update` or to
encrypt, and the loops of the retries end with a probability only.

Every property of a passing run has a mutant of a mapped definition that violates it
(operators with the comment "Mutant").

## Only model-checked

- Liveness (`Terminates` of the path search, and the liveness half of `ImplementsLanes`): fairness and ENABLED are beyond
  the prover.
- The properties of the six runs that show a violation, which do not hold.
- The first conjunct of `MlDsaSound` (`DoneVerifies`): from coefficients to whole signatures it takes the algebra of the transform and the packing. And the exhaustive comparisons of `MCCrypto` (transforms, encodings of points, fields, paddings): the algebra of polynomial
  rings, or what recursive definitions compute over data. Of RSA, everything but the paddings and files is proved.
- Collisions of hashes and tags are left out everywhere by free constructors; the theorems say no more than the model.

## Not modelled

- Argon2's `G` and the content of address blocks, the AES and ChaCha20 block functions, GHASH, Poly1305, the hashes
  and SHAKE, `scrypt`: fixed permutations and calls of `hashlib`, which test vectors cover and a model checker
  adds nothing to. They are parameters or free constructors.
- X.509: names, keys and general names are decoded one DER value each, without state; attributes of a `Certificate` that
  only return what was parsed, fingerprints.
- RSA: which hash has which OID, and the strings of `DigestInfo`; the octets of a file are the DER component's.
- ML-DSA: message prefixes, pre-hashing, and the choice of the parameter set by the size of a key. SHAKE itself, there and in ML-KEM.
- ECB, CBC calls outside of PBES2, block sizes out of range for PKCS#7.
- HMAC's key normalisation and the hash front ends, `exceptions.py`, `__init__.py`: no state and
  no control flow to speak of.
- Timing; the sharing of mutable buffers between Python objects.

## What is left to do

`DoneVerifies` needs, on top of `HintsRecover`, that the transform of `Ring` is inverted and multiplies, and that packing round-trips. It is no invariant of a loop but algebra on
one result, and the run checks it on every key of small rings.
