------------------------------ MODULE MCFormats -------------------------------
(* The two readers of files, one of them in a behaviour: DER and PEM, the    *)
(* texts of which are those of MCPem.                                        *)
(*                                                                           *)
(* Of DER every string of at most four of the octets at the edges of the    *)
(* rules, and longer ones of the shapes that need length: nested elements    *)
(* around the nesting bound, and contents around the end of the short form.  *)
EXTENDS DerGrammar, MCPem

VARIABLE machine   \* "der" or "pem"

Edges == {0, 1, 2, 3, 6, 16, 31, 34, 48, 127, 128, 129, 160, 255}

Strings(S, n) == UNION {[1 .. k -> S] : k \in 0 .. n}

Zeros(n) == [k \in 1 .. n |-> 0]

\* One element with a content of two or three octets.
Typed == {<<tag, Len(c)>> \o c : tag \in {2, 3, 4, 6},
                                 c \in [1 .. 3 -> {0, 1, 6, 39, 40, 80, 127, 128, 129, 255}]}

\* Sequences and context tags nested by hand, with lengths that may lie.
Nested == {<<48, a, 160, b>> \o rest : a \in 0 .. 6, b \in 0 .. 4,
             rest \in Strings({0, 2, 5, 48}, 4)}

Chains == {<<48, 8 + d, 49, 6, 48, 4 + d, 160, 2, 48, 0>> : d \in {-1, 0}}
          \cup {<<48, 6, 49, 4, 160, 2, 5, 0>>, <<48, 6, 49, 4, 160, 2, 48, 0>>,
                <<48, 4, 160, 2, 49, 0>>, <<48, 6, 160, 2, 49, 0, 5, 0>>,
                <<48, 7, 48, 2, 5, 0, 2, 1, 5>>}

Headers == {<<127>>, <<128>>, <<129, 127>>, <<129, 128>>, <<129, 129>>, <<130, 0, 128>>,
            <<130, 1, 0>>, <<130, 1, 1>>, <<131, 0, 1, 0>>}
Long == {<<tag>> \o h \o Zeros(n) : tag \in {4, 128}, h \in Headers, n \in {127, 128, 129, 256}}
        \cup {<<48, 129, 131, 4, 129, 128>> \o Zeros(n) : n \in {127, 128, 129}}
        \cup {<<48, 129, 130, 4, 129, 128>> \o Zeros(128)}

MCNumbers == {0, 1, 127, 128, 129, 255, 256, 32767, 32768, 65535}
MCOids == {<<a, b>> : a \in 0 .. 2, b \in {0, 1, 39, 40, 47, 48, 127, 128, 999}}
          \cup {<<2, 5, 29, b>> : b \in {0, 127, 128, 16383, 16384}}
MCBitStrings == Strings({0, 8, 127, 128}, 2) \X (0 .. 8)

Encoded == {e[1] : e \in IntegerEncodings \cup OidEncodings \cup BitStringEncodings}
           \cup {EncodeContextPrimitive(1, <<7>>)}
           \cup {EncodeContext(0, <<EncodeInteger(n), EncodeOid(<<1, 3>>)>>) : n \in MCNumbers}
           \cup {EncodeSequence(<<EncodeInteger(n), EncodeTlv(TAG_NULL, <<>>)>>) : n \in MCNumbers}

MCInputs == Strings(Edges, 4) \cup Typed \cup Nested \cup Chains \cup Long \cup Encoded

-----------------------------------------------------------------------------

\* The machine that does not run stays in one of its initial states.
FormatsInit ==
  \/ machine = "der" /\ text = <<>> /\ form = "str" /\ call = "decode_pem" /\ PemInit /\ Init
  \/ machine = "pem" /\ input = <<>> /\ mode = "decode" /\ Init /\ PemInit

FormatsNext ==
  \/ machine = "der" /\ Next /\ UNCHANGED <<pemVars, machine>>
  \/ machine = "pem" /\ PemNext /\ UNCHANGED <<vars, machine>>

FormatsSpec == FormatsInit /\ [][FormatsNext]_<<vars, pemVars, machine>>
=============================================================================
