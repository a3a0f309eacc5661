------------------------------- MODULE Hpack -------------------------------
(***************************************************************************)
(* The permissive HPACK encoder and the decoder of src/h2/hpack.rs, on     *)
(* bytes.  The encoder is stateless; the decoder keeps a dynamic table for *)
(* its connection.  Beside it stands the peer of that connection, whose    *)
(* table is kept by the rule of RFC 7541 and not by the code's loops.      *)
(***************************************************************************)
EXTENDS Huffman

CONSTANTS
    StaticTable,    \* STATIC_TABLE: records [name, value]
    Width,          \* bits of the decoder's integers (u32: 32)
    Announced,      \* the table size the decoder was made with
    Overhead,       \* what an entry costs beside its bytes (32)
    None            \* an absent option

\* A header as the decoder hands it out.
Entries == [name : Seq(Bytes), value : Seq(Bytes)]

ASSUME SizesAssumption == Width \in Nat /\ Width >= 8 /\ Announced \in Nat /\ Overhead \in Nat
ASSUME StaticAssumption == StaticTable \in Seq(Entries)

VARIABLES
    dynamic_table,        \* most recent entry first
    dynamic_table_size,
    max_table_size,
    peer                  \* the peer's table and its limit

decoderVars == <<dynamic_table, dynamic_table_size, max_table_size>>

-----------------------------------------------------------------------------
(* The encoder.                                                            *)

\* What remains of r when i groups of seven bits are written, and how many are
\* written before it is less than 128.
Remaining(r, i) == r \div 2 ^ (7 * i)
Flagged(r) ==
    CHOOSE k \in 0..r : Remaining(r, k) < 128 /\ \A j \in 0..(k - 1) : Remaining(r, j) >= 128

\* The groups, least significant first, all but the last flagged.
Groups(r) ==
    [i \in 1..Flagged(r) |-> 128 + (Remaining(r, i - 1) % 128)] \o <<Remaining(r, Flagged(r))>>

\* Mutant: a value that just fills the prefix is written without a continuation.
WriteIntegerFull(value, n, pattern, bloat) ==
    IF value <= 2 ^ n - 1
    THEN <<pattern + value>>
    ELSE <<pattern + 2 ^ n - 1>> \o Groups(value - (2 ^ n - 1))

\* write_integer: bloat bytes go in front of the last group.
WriteInteger(value, n, pattern, bloat) ==
    LET full == 2 ^ n - 1
        groups == Groups(value - full)
    IN  IF value < full
        THEN <<pattern + value>>
        ELSE <<pattern + full>> \o Front(groups)
                 \o [i \in 1..bloat |-> 128] \o <<Last(groups)>>

UsesHuffman(data, choice) == IF choice = None THEN EncodedLen(data) < Len(data) ELSE choice

StringLiteral(encoded, huffman, bloat) ==
    WriteInteger(Len(encoded), 7, IF huffman THEN 128 ELSE 0, bloat) \o encoded
WriteString(data, choice, bloat) ==
    IF UsesHuffman(data, choice) THEN StringLiteral(HuffmanEncode(data), TRUE, bloat)
    ELSE StringLiteral(data, FALSE, bloat)

\* is_lowercase_token_char: a-z 0-9 ! # $ % & ' * + - . ^ _ ` | ~
IsLowercaseTokenChar(b) ==
    b \in (97..122) \cup (48..57)
          \cup {33, 35, 36, 37, 38, 39, 42, 43, 45, 46, 94, 95, 96, 124, 126}

\* A leading ":" marks a pseudo-header.
IsNameValid(name) ==
    /\ name # << >>
    /\ IsLowercaseTokenChar(name[1]) \/ (name[1] = 58 /\ Len(name) > 1)
    /\ \A i \in 2..Len(name) : IsLowercaseTokenChar(name[i])

IsValueValid(value) == \A i \in 1..Len(value) : value[i] \notin {0, 10, 13}

\* The checks of encode_one in their order; the first that fails is reported.
EncodeError(h) ==
    LET named == h.force_static_index = None
        checks == << <<"empty_name", named /\ h.name = << >> >>,
                     <<"bloat_out_of_range", h.length_bloat_name > 3>>,
                     <<"bloat_out_of_range", h.length_bloat_value > 3>>,
                     <<"invalid_name", named /\ ~h.allow_invalid_name /\ ~IsNameValid(h.name)>>,
                     <<"invalid_value", ~h.allow_invalid_value /\ ~IsValueValid(h.value)>>,
                     <<"static_index_out_of_range",
                       ~named /\ h.force_static_index \notin 1..Len(StaticTable)>> >>
        first == SelectInSeq(checks, LAMBDA c : c[2])
    IN  IF first = 0 THEN "none" ELSE checks[first][1]

\* The pattern of a representation and the bits it leaves for the index.
Prefix(indexing) ==
    CASE indexing = "with" -> [pattern |-> 64, bits |-> 6]
      [] indexing = "without" -> [pattern |-> 0, bits |-> 4]
      [] indexing = "never" -> [pattern |-> 16, bits |-> 4]

\* encode_one for a header that passes the checks.
EncodeOne(h) ==
    LET prefix == Prefix(h.indexing)
        index == IF h.force_static_index = None THEN 0 ELSE h.force_static_index
        name == IF index = 0 THEN WriteString(h.name, h.huffman_name, h.length_bloat_name)
                ELSE << >>
    IN  WriteInteger(index, prefix.bits, prefix.pattern, 0)
            \o name \o WriteString(h.value, h.huffman_value, h.length_bloat_value)

\* encode_headers: the first bad header spoils the block.
EncodeHeaders(headers) ==
    LET bad == SelectInSeq(headers, LAMBDA h : EncodeError(h) # "none")
    IN  IF bad # 0
        THEN [error |-> EncodeError(headers[bad]), block |-> << >>]
        ELSE [error |-> "none", block |-> Concat([i \in 1..Len(headers) |-> EncodeOne(headers[i])])]

-----------------------------------------------------------------------------
(* Reading.  A position is that of the next byte.                          *)

Stuck(e, pos) == [error |-> e, v |-> 0, pos |-> pos]

\* Mutant: a group that reaches past the width is refused, whatever its bits.
ShiftRefusedEarly(shift) == shift + 7 > Width

\* checked_shl refuses a shift past the width, not the bits it pushes out.
ShiftRefused(shift) == shift >= Width

\* read_integer past a full prefix: checked_add refuses a sum past the width.
\* final is the place of the last group, 0 if the input ends before it.
Settled(total, final, pos) ==
    IF ~total.ok THEN Stuck("integer_overflow", pos)
    ELSE IF final = 0 THEN Stuck("unexpected_eof", pos)
    ELSE [error |-> "none", v |-> total.v, pos |-> final + 1]

Continued(buf, pos, full, final) ==
    LET Plus(total, b, shift) ==
            IF ~total.ok \/ ShiftRefused(shift) THEN [ok |-> FALSE, v |-> 0]
            ELSE LET sum == total.v + (((b % 128) * 2 ^ shift) % 2 ^ Width)
                 IN  [ok |-> sum < 2 ^ Width, v |-> sum]
        value[k \in 0..(Len(buf) - pos)] ==   \* after k continuation bytes
            IF k = 0 THEN [ok |-> TRUE, v |-> full]
            ELSE Plus(value[k - 1], buf[pos + k], 7 * (k - 1))
    IN  Settled(value[IF final = 0 THEN Len(buf) - pos ELSE final - pos], final, pos)

ReadInteger(buf, pos, n) ==
    IF pos > Len(buf) THEN Stuck("unexpected_eof", pos)
    ELSE IF buf[pos] % 2 ^ n < 2 ^ n - 1 THEN [error |-> "none", v |-> buf[pos] % 2 ^ n, pos |-> pos + 1]
    ELSE Continued(buf, pos, 2 ^ n - 1, SelectInSubSeq(buf, pos + 1, Len(buf), LAMBDA b : b < 128))

\* read_string: a length, and so many bytes, perhaps Huffman-coded.
Contents(bytes, huffman) ==
    IF huffman THEN HuffmanDecode(bytes) ELSE [error |-> "none", out |-> bytes]
StringOf(contents, end) == [error |-> contents.error, v |-> contents.out, pos |-> end]
StringAfter(buf, huffman, length) ==
    IF length.error # "none" THEN length
    ELSE IF length.pos + length.v - 1 > Len(buf) THEN Stuck("unexpected_eof", length.pos)
    ELSE StringOf(Contents(SubSeq(buf, length.pos, length.pos + length.v - 1), huffman),
                  length.pos + length.v)
ReadString(buf, pos) ==
    StringAfter(buf, pos <= Len(buf) /\ buf[pos] >= 128, ReadInteger(buf, pos, 7))

-----------------------------------------------------------------------------
(* The decoder's table.  d is [table, size, max].                          *)

EntrySize(e) == Len(e.name) + Len(e.value) + Overhead
TableSize(t) == Total([i \in 1..Len(t) |-> EntrySize(t[i])])

\* lookup_index: the static table first, then the dynamic one.
Lookup(d, index) ==
    LET i == index - Len(StaticTable)
    IN  IF index \in 1..Len(StaticTable)
        THEN [error |-> "none", entry |-> StaticTable[index]]
        ELSE IF i \in 1..Len(d.table)
        THEN [error |-> "none", entry |-> d.table[i]]
        ELSE [error |-> "invalid_index", entry |-> [name |-> << >>, value |-> << >>]]

\* Pop from the back, keeping the books, until the size is at most room.
Evict(d, room) ==
    LET n == Len(d.table)
        size[k \in 0..n] ==   \* after k pops
            IF k = 0 THEN d.size ELSE size[k - 1] - EntrySize(d.table[n - k + 1])
        pops == CHOOSE k \in 0..n :
                   /\ k = n \/ size[k] <= room
                   /\ \A j \in 0..(k - 1) : size[j] > room
    IN  [d EXCEPT !.table = SubSeq(d.table, 1, n - pops), !.size = size[pops]]

\* Mutant: the books are not reset when an oversized entry clears the table.
AddKeepsSize(d, e) ==
    IF EntrySize(e) > d.max
    THEN [d EXCEPT !.table = << >>]
    ELSE LET room == Evict(d, d.max - EntrySize(e))
         IN  [room EXCEPT !.table = <<e>> \o @, !.size = @ + EntrySize(e)]

\* add_to_dynamic_table
Add(d, e) ==
    IF EntrySize(e) > d.max
    THEN [d EXCEPT !.table = << >>, !.size = 0]
    ELSE LET room == Evict(d, d.max - EntrySize(e))
         IN  [room EXCEPT !.table = <<e>> \o @, !.size = @ + EntrySize(e)]

\* resize_table
Resize(d, new_size) == Evict([d EXCEPT !.max = new_size], new_size)

-----------------------------------------------------------------------------
(* decode_headers.  s is [d, pos, out, error].                             *)

Failed(s, e) == [s EXCEPT !.error = e]

\* A literal: an index or a name in full, then the value.
WithValue(s, name, value) ==
    IF value.error # "none" THEN Failed(s, value.error)
    ELSE [s EXCEPT !.pos = value.pos, !.out = Append(@, [name |-> name.v, value |-> value.v])]
WithName(s, block, name) ==
    IF name.error # "none" THEN Failed(s, name.error)
    ELSE WithValue(s, name, ReadString(block, name.pos))
NameAt(looked, pos) == [error |-> looked.error, v |-> looked.entry.name, pos |-> pos]
WithIndex(s, block, index) ==
    IF index.error # "none" THEN Failed(s, index.error)
    ELSE WithName(s, block, IF index.v = 0 THEN ReadString(block, index.pos)
                            ELSE NameAt(Lookup(s.d, index.v), index.pos))
Literal(s, block, n) == WithIndex(s, block, ReadInteger(block, s.pos, n))

\* What incremental indexing adds.
Remembered(s) == IF s.error # "none" THEN s ELSE [s EXCEPT !.d = Add(@, Last(s.out))]

Referred(s, index, looked) ==
    IF index.error # "none" THEN Failed(s, index.error)
    ELSE IF looked.error # "none" THEN Failed(s, looked.error)
    ELSE [s EXCEPT !.pos = index.pos, !.out = Append(@, looked.entry)]
ReferredTo(s, index) == Referred(s, index, Lookup(s.d, index.v))
Indexed(s, block) == ReferredTo(s, ReadInteger(block, s.pos, 7))

Resized(s, size) ==
    IF size.error # "none" THEN Failed(s, size.error)
    ELSE IF size.v > s.d.max THEN Failed(s, "table_size_too_large")
    ELSE [s EXCEPT !.pos = size.pos, !.d = Resize(@, size.v)]
SizeUpdate(s, block) == Resized(s, ReadInteger(block, s.pos, 5))

\* One round of the loop, by the representation the first byte names.
Field(s, block) ==
    LET b == block[s.pos]
    IN  CASE b >= 128 -> Indexed(s, block)
          [] b \in 64..127 -> Remembered(Literal(s, block, 6))
          [] b \in 32..63 -> SizeUpdate(s, block)
          [] b < 32 -> Literal(s, block, 4)

\* The loop ends at an error or at the end of the block, and what went into
\* the table before an error stays there.
Over(s, block) == s.error # "none" \/ s.pos > Len(block)
Round(s, block) == IF Over(s, block) THEN s ELSE Field(s, block)

\* A round takes a byte at least, so there are no more rounds than bytes.
DecodeHeaders(d, block) ==
    LET after[k \in 0..Len(block)] ==
            IF k = 0 THEN [d |-> d, pos |-> 1, out |-> << >>, error |-> "none"]
            ELSE Round(after[k - 1], block)
    IN  after[CHOOSE k \in 0..Len(block) : Over(after[k], block)]

Decoder == [table |-> dynamic_table, size |-> dynamic_table_size, max |-> max_table_size]

\* The decoder after decode(block) has come to read.
Decode(read) ==
    /\ dynamic_table' = read.d.table
    /\ dynamic_table_size' = read.d.size
    /\ max_table_size' = read.d.max

DecoderInit ==
    /\ dynamic_table = << >>
    /\ dynamic_table_size = 0
    /\ max_table_size = Announced

-----------------------------------------------------------------------------
(* The peer.  An operation is what it does to one field of a block:        *)
(* [op, index, name, value], or a size update [op, size].                  *)

\* Numbers of the width, and strings whose length is one even when each byte
\* takes the four of a long code word.
Numbers == 0..(2 ^ Width - 1)
IsString(s) == s \in Seq(Alphabet) /\ 4 * Len(s) \in Numbers

IsOperation(o) ==
    \/ o.op = "indexed" /\ o.index \in Numbers
    \/ o.op = "update" /\ o.size \in Numbers
    \/ /\ o.op \in {"with", "without", "never"} /\ o.index \in Numbers
       /\ IsString(o.name) /\ IsString(o.value)

\* RFC 7541, 4.4: the most recent entries that fit.
Fitting(t, max) ==
    CHOOSE p \in {SubSeq(t, 1, k) : k \in 0..Len(t)} :
        /\ TableSize(p) <= max
        /\ \A k \in (Len(p) + 1)..Len(t) : TableSize(SubSeq(t, 1, k)) > max

PeerEntry(p, index) ==
    IF index <= Len(StaticTable) THEN StaticTable[index] ELSE p.table[index - Len(StaticTable)]
PeerKnows(p, index) == index \in 1..(Len(StaticTable) + Len(p.table))

\* A conforming peer only names entries it knows, and sets its table to any size
\* up to the announced one, back up after a smaller one included.
PeerMay(p, o) ==
    CASE o.op = "indexed" -> PeerKnows(p, o.index)
      [] o.op = "update" -> o.size <= Announced
      [] OTHER -> o.index = 0 \/ PeerKnows(p, o.index)

\* The size update this decoder refuses: its limit is the last size it was given.
Raises(p, o) == o.op = "update" /\ o.size > p.max

PeerField(p, o) ==
    [name |-> IF o.index = 0 THEN o.name ELSE PeerEntry(p, o.index).name,
     value |-> IF o.op = "indexed" THEN PeerEntry(p, o.index).value ELSE o.value]

PeerAfter(p, o) ==
    CASE o.op = "update" -> [table |-> Fitting(p.table, o.size), max |-> o.size]
      [] o.op = "with" -> [p EXCEPT !.table = Fitting(<<PeerField(p, o)>> \o @, p.max)]
      [] OTHER -> p

PeerBytes(o) ==
    CASE o.op = "indexed" -> WriteInteger(o.index, 7, 128, 0)
      [] o.op = "update" -> WriteInteger(o.size, 5, 32, 0)
      [] OTHER -> LET prefix == Prefix(o.op)
                  IN  WriteInteger(o.index, prefix.bits, prefix.pattern, 0)
                        \o (IF o.index = 0 THEN WriteString(o.name, None, 0) ELSE << >>)
                        \o WriteString(o.value, None, 0)
=============================================================================
