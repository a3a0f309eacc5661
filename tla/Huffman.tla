------------------------------ MODULE Huffman ------------------------------
(***************************************************************************)
(* The HPACK string code of src/h2/huffman.rs.  A byte is a number, a code *)
(* word a sequence of bits.  The code table is data: the model works with  *)
(* any complete prefix code, as that of RFC 7541 is.                       *)
(***************************************************************************)
EXTENDS Naturals, Sequences, SequencesExt

CONSTANTS
    HuffmanTable,   \* the code word of each byte
    Eos             \* the code word of the end-of-string symbol: ones only

Bytes == 0..255
Alphabet == DOMAIN HuffmanTable
CodeWords == {HuffmanTable[b] : b \in Alphabet} \cup {Eos}

\* Sum of f[i] over a sequence of numbers.
Total(f) ==
    LET sum[i \in 0..Len(f)] == IF i = 0 THEN 0 ELSE sum[i - 1] + f[i]
    IN  sum[Len(f)]

\* Complete: no two symbols share a code word, none starts another, and every long enough run of bits
\* starts with one (the tree has no missing child).
ASSUME CodeAssumption ==
    /\ Alphabet \subseteq Bytes
    /\ \A w \in CodeWords : w \in Seq({0, 1}) /\ Len(w) \in 1..30
    /\ Len(Eos) > 7 /\ \A i \in 1..Len(Eos) : Eos[i] = 1
    /\ \A a, b \in Alphabet : HuffmanTable[a] = HuffmanTable[b] => a = b
    /\ \A b \in Alphabet : HuffmanTable[b] # Eos
    /\ \A v, w \in CodeWords : v # w => ~IsPrefix(v, w)
    /\ \A w \in CodeWords : \A i \in 1..Len(w) :
         \E v \in CodeWords :
            IsPrefix(Append(SubSeq(w, 1, i - 1), 1 - w[i]), v)

Ones(n) == [i \in 1..n |-> 1]

\* The bits of a byte, most significant first, and back.
BitsOf(b) == [i \in 1..8 |-> (b \div 2 ^ (8 - i)) % 2]
ByteOf(bits) == Total([i \in 1..8 |-> bits[i] * 2 ^ (8 - i)])

Concat(s) ==
    LET upto[i \in 0..Len(s)] == IF i = 0 THEN << >> ELSE upto[i - 1] \o s[i]
    IN  upto[Len(s)]

-----------------------------------------------------------------------------
CodeBits(input) == Concat([i \in 1..Len(input) |-> HuffmanTable[input[i]]])

\* encoded_len: whole bytes.
EncodedLen(input) == (Total([i \in 1..Len(input) |-> Len(HuffmanTable[input[i]])]) + 7) \div 8

\* encode: the code words one after the other, padded with ones to a byte.
HuffmanEncode(input) ==
    LET bits == CodeBits(input) \o Ones(8 * EncodedLen(input) - Len(CodeBits(input)))
    IN  [i \in 1..EncodedLen(input) |-> ByteOf(SubSeq(bits, 8 * i - 7, 8 * i))]

\* The node insert_symbol put at the end of a path: a leaf with its symbol, or
\* an internal node with the ones that lead to it.
IsLeaf(path) == path \in CodeWords
Symbol(path) == CHOOSE b \in Alphabet : HuffmanTable[b] = path
AllOnesDepth(path) ==
    LET depth[i \in 0..Len(path)] ==
            IF i = 0 THEN 0 ELSE IF path[i] = 1 THEN depth[i - 1] + 1 ELSE 0
    IN  depth[Len(path)]
PrefixOfEos(path) == \A i \in 1..Len(path) : path[i] = 1

\* Mutant: a whole byte of padding passes.
GoodPaddingByte(path) == path = << >> \/ (AllOnesDepth(path) <= 8 /\ PrefixOfEos(path))

\* What may be left over at the end: nothing, or fewer than eight ones.
GoodPadding(path) == path = << >> \/ (AllOnesDepth(path) <= 7 /\ PrefixOfEos(path))

\* One bit of the walk: to a child, and back to the root from a leaf.
Walk(w, path) ==
    CASE w.eos -> w
      [] ~w.eos /\ path = Eos -> [w EXCEPT !.eos = TRUE]
      [] ~w.eos /\ path # Eos /\ IsLeaf(path) ->
           [w EXCEPT !.path = << >>, !.out = Append(@, Symbol(path))]
      [] ~w.eos /\ ~IsLeaf(path) -> [w EXCEPT !.path = path]

\* The end of the walk: the padding is looked at last.
WalkEnds(w) ==
    CASE w.eos -> [error |-> "eos_in_stream", out |-> << >>]
      [] ~w.eos /\ ~GoodPadding(w.path) -> [error |-> "bad_padding", out |-> << >>]
      [] ~w.eos /\ GoodPadding(w.path) -> [error |-> "none", out |-> w.out]

\* decode: walk the tree bit by bit.
HuffmanDecode(input) ==
    LET bits == Concat([i \in 1..Len(input) |-> BitsOf(input[i])])
        walk[i \in 0..Len(bits)] ==
            IF i = 0 THEN [path |-> << >>, out |-> << >>, eos |-> FALSE]
            ELSE LET w == walk[i - 1] IN Walk(w, Append(w.path, bits[i]))
    IN  WalkEnds(walk[Len(bits)])
=============================================================================
