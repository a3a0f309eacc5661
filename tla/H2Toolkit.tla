----------------------------- MODULE H2Toolkit -----------------------------
(***************************************************************************)
(* The HTTP/2 toolkit as Python uses it (the h2 bindings of src/python.rs): *)
(* header blocks, probes and single frames are built by calls without      *)
(* state, and one Decoder reads the blocks of one connection.  What stands *)
(* on the other side of that connection is either a caller of the same     *)
(* encoder or any peer that keeps to RFC 7541; a block may also be cut     *)
(* short, after which the two sides no longer know the same table.         *)
(***************************************************************************)
EXTENDS H2Frames

CONSTANTS
    HeaderLists,    \* lists of headers a caller encodes
    PeerBlocks,     \* blocks of a peer: sequences of its operations
    Inputs,         \* bytes that reach the Huffman decoder
    Integers7,      \* bytes that reach read_integer
    Probes,         \* arguments of h2_build_probe: [headers, args]
    Frame,          \* single frames: [kind, ...]
    MaxBlocks,      \* bound on the blocks of the connection
    MaxMissing      \* bound on the bytes a block may lack

ASSUME BlocksAssumption ==
    /\ MaxBlocks \in Nat \ {0} /\ MaxMissing \in Nat
    /\ \A ops \in PeerBlocks : Len(ops) \in Nat /\ DOMAIN ops = 1..Len(ops)
                               /\ \A i \in 1..Len(ops) : IsOperation(ops[i])

\* The arguments of a header: huffman_* and force_static_index are options.
IsHeader(h) ==
    /\ IsString(h.name) /\ IsString(h.value)
    /\ h.indexing \in {"with", "without", "never"}
    /\ h.huffman_name \in {TRUE, FALSE, None} /\ h.huffman_value \in {TRUE, FALSE, None}
    /\ h.length_bloat_name \in Nat /\ h.length_bloat_value \in Nat
    /\ h.force_static_index = None \/ h.force_static_index \in Numbers

ASSUME HeadersAssumption ==
    \A headers \in HeaderLists :
        /\ Len(headers) \in Nat /\ DOMAIN headers = 1..Len(headers)
        /\ \A i \in 1..Len(headers) : IsHeader(headers[i])

\* An integer from its first byte to the group that ends it.
IsWholeInteger(bytes) ==
    /\ bytes \in Seq(Bytes) /\ bytes # << >>
    /\ IF bytes[1] % 128 < 127 THEN Len(bytes) = 1
       ELSE Len(bytes) > 1 /\ Last(bytes) < 128 /\ \A i \in 2..(Len(bytes) - 1) : bytes[i] >= 128

ASSUME BytesAssumption ==
    /\ \A input \in Inputs : input \in Seq(Bytes)
    /\ \A bytes \in Integers7 : IsWholeInteger(bytes)

VARIABLES
    blocks,    \* blocks decoded so far
    synced,    \* no block was cut, unreadable or raised the table size so far
    last       \* the last call and its result

vars == <<dynamic_table, dynamic_table_size, max_table_size, peer, blocks, synced, last>>

Nothing == [call |-> "none"]

Init ==
    /\ DecoderInit
    /\ peer = [table |-> << >>, max |-> Announced]
    /\ blocks = 0
    /\ synced = TRUE
    /\ last = Nothing

\* The peer after its first i operations, and what the operations mean.
PeerThrough(ops, i) ==
    LET after[k \in 0..i] == IF k = 0 THEN peer ELSE PeerAfter(after[k - 1], ops[k])
    IN  after[i]
Legal(ops) == \A i \in 1..Len(ops) : PeerMay(PeerThrough(ops, i - 1), ops[i])
Fields(ops) ==
    Concat([i \in 1..Len(ops) |->
              IF ops[i].op = "update" THEN << >> ELSE <<PeerField(PeerThrough(ops, i - 1), ops[i])>>])

RaisesIn(ops) == \E i \in 1..Len(ops) : Raises(PeerThrough(ops, i - 1), ops[i])

\* The operation a header of the encoder stands for.
AsOperation(h) ==
    [op |-> h.indexing, index |-> IF h.force_static_index = None THEN 0 ELSE h.force_static_index,
     name |-> h.name, value |-> h.value]

\* The bytes write_string puts behind their length.
Coded(data, choice) == IF UsesHuffman(data, choice) THEN HuffmanEncode(data) ELSE data

\* write_integer puts the filler of a bloated length in front of its last group,
\* which moves that group up and keeps the number only when there is nothing to
\* move: the length fits the prefix and has no filler, or just fills the prefix
\* and its last group is 0, still in reach of read_integer's shift.
LengthFits(length, bloat) ==
    bloat = 0 \/ length < 127 \/ (length = 127 /\ 7 * bloat < Width)

\* The headers whose lengths stay what they are.
Readable(h) ==
    /\ LengthFits(Len(Coded(h.value, h.huffman_value)), h.length_bloat_value)
    /\ \/ h.force_static_index # None
       \/ LengthFits(Len(Coded(h.name, h.huffman_name)), h.length_bloat_name)

\* The connection may have another block.
Ready == last = Nothing /\ blocks < MaxBlocks

\* decode(block) on the connection's Decoder comes to read.
DecodeBlock(read, count) ==
    /\ blocks' = count
    /\ Decode(read)

\* h2.encode_headers, read by a Decoder.  The encoder has no state, so one
\* block on a connection of its own shows all it does.
Loopback(headers, ops, read) ==
    /\ DecodeBlock(read, MaxBlocks)
    /\ peer' = PeerThrough(ops, Len(ops))
    /\ synced' = (synced /\ \A i \in 1..Len(headers) : Readable(headers[i]))
    /\ last' = [call |-> "encode_headers", headers |-> headers, read |-> read.out,
                refused |-> read.error]

Encoded(headers, encoded) ==
    /\ encoded.error = "none"
    /\ Loopback(headers, [i \in 1..Len(headers) |-> AsOperation(headers[i])],
                DecodeHeaders(Decoder, encoded.block))

EncodeOwn(headers) ==
    /\ Ready /\ blocks = 0
    /\ Encoded(headers, EncodeHeaders(headers))

\* A peer's block, with some bytes at its end missing.
Received(ops, missing, read) ==
    /\ DecodeBlock(read, blocks + 1)
    /\ peer' = PeerThrough(ops, Len(ops))
    /\ synced' = (synced /\ missing = 0 /\ ~RaisesIn(ops))
    /\ last' = [call |-> "decode", fields |-> Fields(ops), read |-> read.out,
                refused |-> read.error, cut |-> synced /\ missing > 0,
                raised |-> synced /\ missing = 0 /\ RaisesIn(ops)]

Cut(block, missing) == SubSeq(block, 1, Len(block) - missing)

PeerSends(ops, missing) ==
    /\ Ready
    /\ Legal(ops)
    /\ Received(ops, missing,
                DecodeHeaders(Decoder, Cut(Concat([i \in 1..Len(ops) |-> PeerBytes(ops[i])]), missing)))

\* The calls below keep no state: they are made before the first block.
Stateless == last = Nothing /\ blocks = 0 /\ UNCHANGED <<decoderVars, peer, blocks, synced>>

\* A bad header raises ValueError, and nothing is encoded.
RefuseHeaders(headers) ==
    /\ Stateless
    /\ EncodeHeaders(headers).error # "none"
    /\ last' = [call |-> "refused", headers |-> headers]

DecodeString(input) ==
    /\ Stateless
    /\ last' = [call |-> "huffman", input |-> input, result |-> HuffmanDecode(input)]

DecodeInteger(bytes) ==
    /\ Stateless
    /\ last' = [call |-> "integer", input |-> bytes, result |-> ReadInteger(bytes, 1, 7)]

\* h2_build_probe
ProbeResult(p, encoded) ==
    [call |-> "probe", headers |-> p.headers, args |-> p.args, error |-> encoded.error,
     bytes |-> IF encoded.error = "none" THEN BuildProbe(encoded.block, p.args) ELSE << >>]

Probe(p) ==
    /\ Stateless
    /\ last' = ProbeResult(p, EncodeHeaders(p.headers))

\* The builders of single frames.
Built(f) ==
    CASE f.kind = "raw" -> BuildRawFrame(f.type, f.flags, f.stream_id, f.payload)
      [] f.kind = "settings" -> BuildSettingsFrame(f.settings, f.ack)
      [] f.kind = "headers" -> BuildHeadersFrame(f)
      [] f.kind = "continuation" -> BuildContinuationFrame(f.header_block, f.stream_id, f.end_headers)
      [] f.kind = "data" -> BuildDataFrame(f.payload, f.stream_id, f.end_stream, f.padding)
      [] f.kind = "window_update" -> BuildWindowUpdateFrame(f.word, f.stream_id)
      [] f.kind = "ping" -> BuildPingFrame(f.payload, f.ack)
      [] f.kind = "rst_stream" -> BuildRstStreamFrame(f.stream_id, f.word)
      [] f.kind = "goaway" -> BuildGoawayFrame(f.stream_id, f.word, f.payload)
      [] f.kind = "priority" -> BuildPriorityFrame(f.stream_id, f.priority)

BuildFrame(f) ==
    /\ Stateless
    /\ last' = [call |-> "frame", frame |-> f, bytes |-> Built(f)]

\* The caller takes the result of its last call.
Return ==
    /\ last # Nothing
    /\ last' = Nothing
    /\ UNCHANGED <<decoderVars, peer, blocks, synced>>

\* On a fresh connection, any call; then the blocks of the peer.
Next ==
    \/ Return
    \/ Ready /\ \E ops \in PeerBlocks : \E missing \in 0..MaxMissing : PeerSends(ops, missing)
    \/ Ready /\ blocks = 0 /\ \E headers \in HeaderLists : EncodeOwn(headers) \/ RefuseHeaders(headers)
    \/ Ready /\ blocks = 0 /\ \E input \in Inputs : DecodeString(input)
    \/ Ready /\ blocks = 0 /\ \E bytes \in Integers7 : DecodeInteger(bytes)
    \/ Ready /\ blocks = 0 /\ \E p \in Probes : Probe(p)
    \/ Ready /\ blocks = 0 /\ \E f \in Frame : BuildFrame(f)

Spec == Init /\ [][Next]_vars

-----------------------------------------------------------------------------
(* Properties.                                                             *)

NameOf(h) == IF h.force_static_index = None THEN h.name ELSE StaticTable[h.force_static_index].name

Given(headers) ==
    [i \in 1..Len(headers) |-> [name |-> NameOf(headers[i]), value |-> headers[i].value]]

\* Whatever the knobs of a header (representation, Huffman or not, invalid bytes
\* let through, a name by static index), the bytes of encode_headers decode to
\* the names and values the caller gave, with one exception that is exact: a
\* header with a length that its length_bloat moves (LengthFits) never reads back.
\* hpack.rs promises "extra continuation bytes of value zero" there, an overlong
\* form of the same number; the filler of write_integer changes the number.
EncodedReadsBack ==
    last.call = "encode_headers" =>
        ((\A i \in 1..Len(last.headers) : Readable(last.headers[i]))
           <=> (last.refused = "none" /\ last.read = Given(last.headers)))

\* The decoder keeps in step with any conforming peer until the peer makes its
\* table larger again: it reads the fields the peer meant and has the peer's
\* table.  A size update that goes back up, still within the announced size, is
\* refused aloud, never misread, since resize_table has overwritten the announced
\* size with the smaller one.  Whatever the decoder was sent, cut blocks included,
\* its books are the true size and within the limit, and what it returns of
\* a cut block without complaint is a beginning of it.
PeerInSync ==
    /\ dynamic_table_size = TableSize(dynamic_table)
    /\ dynamic_table_size <= max_table_size /\ max_table_size <= Announced
    /\ synced => dynamic_table = peer.table /\ max_table_size = peer.max
    /\ (synced /\ last.call = "decode") => last.refused = "none" /\ last.read = last.fields
    /\ (last.call = "decode" /\ last.raised) => last.refused = "table_size_too_large"
    /\ (last.call = "decode" /\ last.cut /\ last.refused = "none") => IsPrefix(last.read, last.fields)

\* The decoder of strings accepts one encoding only: what it accepts is what
\* encode gives for the string it read, padding included.
HuffmanCanonical ==
    (last.call = "huffman" /\ last.result.error = "none")
    => HuffmanEncode(last.result.out) = last.input

\* The number the bytes denote: 127 and the groups of seven bits after it.
Denoted(bytes) ==
    IF bytes[1] % 128 < 127 THEN bytes[1] % 128
    ELSE 127 + Total([i \in 1..(Len(bytes) - 1) |-> (bytes[i + 1] % 128) * 2 ^ (7 * (i - 1))])

\* A number that fits the width is read as it is, up to the last group that
\* has a bit within the width; one that does not is refused or loses bits
\* above the width and no others.
IntegerExact ==
    last.call = "integer" =>
        LET value == Denoted(last.input)
            short == 7 * (Len(last.input) - 2) < Width
        IN  /\ (short /\ value < 2 ^ Width) => last.result.error = "none" /\ last.result.v = value
            /\ last.result.error = "none" => last.result.v = value % 2 ^ Width
            /\ last.result.error \in {"none", "integer_overflow"}

MeansHeaders(read, headers) ==
    /\ read.error = "none"
    /\ read.out = Given(headers)

\* The frames of a probe and what a receiver makes of them.
ReceivedAs(frames, args, headers) ==
    LET hs == SelectSeq(frames, LAMBDA f : f.type = FrameType.headers)
        cs == SelectSeq(frames, LAMBDA f : f.type = FrameType.continuation)
        ds == SelectSeq(frames, LAMBDA f : f.type = FrameType.data)
        block == FlattenSeq([i \in 1..Len(hs \o cs) |-> Fragment((hs \o cs)[i])])
        fresh == [table |-> << >>, size |-> 0, max |-> Announced]
        Closes(f) == f.type \in {FrameType.headers, FrameType.data} /\ Has(f, EndStream)
    IN  /\ \A i \in 1..Len(frames) : frames[i] # Broken
        /\ args.omit_settings \/ frames[1].type = FrameType.settings
        /\ Len(hs) = 1 /\ Len(cs) <= 1
        /\ \A i \in 1..Len(frames) :   \* END_HEADERS closes the block, and nothing comes between
              frames[i].type \in {FrameType.headers, FrameType.continuation} =>
                 (Has(frames[i], EndHeaders)
                    <=> ~(i < Len(frames) /\ frames[i + 1].type = FrameType.continuation))
        /\ \A i \in 1..Len(hs \o cs \o ds) :
              (hs \o cs \o ds)[i].stream_id = Masked(args.stream_id)
        /\ MeansHeaders(DecodeHeaders(fresh, block), headers)
        /\ IF args.priority = None THEN ~Has(hs[1], Priority)
           ELSE /\ Has(hs[1], Priority)
                /\ PriorityOf(hs[1]) = [args.priority EXCEPT !.dep = Masked(@)]
        /\ IF args.body = None THEN ds = << >> ELSE Len(ds) = 1 /\ Unpadded(ds[1]) = args.body
        /\ Len(SelectSeq(frames, Closes)) =
              IF args.body = None /\ args.force_no_end_stream_on_headers THEN 0 ELSE 1

\* A probe that starts with the preface, read by a receiver, is the request it
\* was built from: whole frames, the header block put together again from
\* its fragments without padding and priority, the body without padding, the
\* stream closed once, at its end.
ProbeAsMeant ==
    (last.call = "probe" /\ last.error = "none" /\ last.args.send_preface
       /\ last.args.preface_override = None)
    => /\ IsPrefix(Preface, last.bytes)
       /\ ReceivedAs(Frames(SubSeq(last.bytes, Len(Preface) + 1, Len(last.bytes))),
                     last.args, last.headers)

\* A single frame is read back as one whole frame with the reserved bit clear,
\* its stream and its fields those of the call.
FrameAsMeant ==
    last.call = "frame" =>
        LET f == last.frame
            frames == Frames(last.bytes)
            got == frames[1]
            Word(i) == SubSeq(got.payload, i, i + 3)
        IN  /\ Len(frames) = 1 /\ got # Broken /\ got.reserved = 0
            /\ got.type = IF f.kind = "raw" THEN f.type ELSE FrameType[f.kind]
            /\ got.stream_id = IF f.kind \in {"settings", "ping", "goaway"} THEN Zeros(4)
                               ELSE Masked(f.stream_id)
            /\ f.kind \in {"settings", "ping"} => (Has(got, Ack) <=> f.ack)
            /\ f.kind \in {"headers", "data"} => (Has(got, EndStream) <=> f.end_stream)
            /\ f.kind \in {"headers", "continuation"} =>
                 (Has(got, EndHeaders) <=> f.end_headers) /\ Fragment(got) = f.header_block
            /\ (f.kind = "headers" /\ f.priority # None) =>
                 PriorityOf(got) = [f.priority EXCEPT !.dep = Masked(@)]
            /\ CASE f.kind = "raw" -> got.payload = f.payload /\ got.flags = f.flags
                 [] f.kind = "settings" ->
                      /\ Len(got.payload) = 6 * Len(f.settings)
                      /\ \A i \in 1..Len(f.settings) :
                           /\ got.payload[6 * i - 5] * 256 + got.payload[6 * i - 4] = f.settings[i].id
                           /\ Word(6 * i - 3) = f.settings[i].value
                 [] f.kind \in {"headers", "continuation"} -> Has(got, Priority) <=>
                      (f.kind = "headers" /\ f.priority # None)
                 [] f.kind = "data" -> Unpadded(got) = f.payload
                 [] f.kind \in {"window_update", "rst_stream"} -> got.payload = f.word
                 [] f.kind = "ping" -> Len(got.payload) = 8
                                       /\ (Len(f.payload) <= 8 => IsPrefix(f.payload, got.payload))
                 [] f.kind = "goaway" -> /\ Word(1) = Masked(f.stream_id) /\ Word(5) = f.word
                                         /\ SubSeq(got.payload, 9, Len(got.payload)) = f.payload
                 [] f.kind = "priority" -> /\ Len(got.payload) = 5
                                           /\ PriorityOf(got) = [f.priority EXCEPT !.dep = Masked(@)]

\* Both, for every combination of padding, priority, split, extra frames and
\* flags that h2_build_probe and the builders of single frames take.
FramesReadBack == ProbeAsMeant /\ FrameAsMeant
=============================================================================
