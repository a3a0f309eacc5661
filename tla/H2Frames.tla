------------------------------ MODULE H2Frames ------------------------------
(***************************************************************************)
(* The HTTP/2 frame builders of src/h2/frame.rs and the probe of           *)
(* src/h2/probe.rs, on bytes.  A 32-bit number is its four bytes, most     *)
(* significant first.  At the end stands a reader of frames written from   *)
(* RFC 9113, which the code does not have.                                 *)
(***************************************************************************)
EXTENDS Hpack

\* PRI * HTTP/2.0 CRLF CRLF SM CRLF CRLF
Preface == <<80, 82, 73, 32, 42, 32, 72, 84, 84, 80, 47, 50, 46, 48,
             13, 10, 13, 10, 83, 77, 13, 10, 13, 10>>

FrameType == [data |-> 0, headers |-> 1, priority |-> 2, rst_stream |-> 3, settings |-> 4,
              ping |-> 6, goaway |-> 7, window_update |-> 8, continuation |-> 9]

EndStream == 1
Ack == 1
EndHeaders == 4
Padded == 8
Priority == 32

Zeros(n) == [i \in 1..n |-> 0]
Flag(on, flag) == IF on THEN flag ELSE 0

\* word & 0x7FFF_FFFF
Masked(word) == <<word[1] % 128>> \o Tail(word)

\* dep & 0x7FFF_FFFF, with the top bit set when exclusive
DepWord(dep, exclusive) == <<(dep[1] % 128) + Flag(exclusive, 128)>> \o Tail(dep)

-----------------------------------------------------------------------------
(* The builders.                                                           *)

\* The assertion that a payload is shorter than 2^24 is the caller's duty.
BuildRawFrame(type, flags, stream_id, payload) ==
    LET n == Len(payload)
    IN  <<n \div 65536, (n \div 256) % 256, n % 256, type, flags>> \o Masked(stream_id) \o payload

BuildSettingsFrame(settings, ack) ==
    LET Entry(s) == <<s.id \div 256, s.id % 256>> \o s.value
    IN  BuildRawFrame(FrameType.settings, Flag(ack, Ack), Zeros(4),
                      FlattenSeq([i \in 1..Len(settings) |-> Entry(settings[i])]))

PriorityFields(priority) == DepWord(priority.dep, priority.exclusive) \o <<priority.weight>>

\* Mutant: the priority fields go in front of the pad length.
BuildHeadersFrameSwapped(o) ==
    LET flags == Flag(o.end_stream, EndStream) + Flag(o.end_headers, EndHeaders)
                   + Flag(o.padding > 0, Padded) + Flag(o.priority # None, Priority)
        payload == (IF o.priority # None THEN PriorityFields(o.priority) ELSE << >>)
                     \o (IF o.padding > 0 THEN <<o.padding>> ELSE << >>)
                     \o o.header_block \o Zeros(o.padding)
    IN  BuildRawFrame(FrameType.headers, flags, o.stream_id, payload)

BuildHeadersFrame(o) ==
    LET flags == Flag(o.end_stream, EndStream) + Flag(o.end_headers, EndHeaders)
                   + Flag(o.padding > 0, Padded) + Flag(o.priority # None, Priority)
        payload == (IF o.padding > 0 THEN <<o.padding>> ELSE << >>)
                     \o (IF o.priority # None THEN PriorityFields(o.priority) ELSE << >>)
                     \o o.header_block \o Zeros(o.padding)
    IN  BuildRawFrame(FrameType.headers, flags, o.stream_id, payload)

BuildContinuationFrame(header_block, stream_id, end_headers) ==
    BuildRawFrame(FrameType.continuation, Flag(end_headers, EndHeaders), stream_id, header_block)

BuildDataFrame(data, stream_id, end_stream, padding) ==
    BuildRawFrame(FrameType.data, Flag(end_stream, EndStream) + Flag(padding > 0, Padded), stream_id,
                  (IF padding > 0 THEN <<padding>> ELSE << >>) \o data \o Zeros(padding))

BuildWindowUpdateFrame(increment, stream_id) ==
    BuildRawFrame(FrameType.window_update, 0, stream_id, increment)

\* The Python binding cuts or pads the data to eight bytes.
BuildPingFrame(data, ack) ==
    BuildRawFrame(FrameType.ping, Flag(ack, Ack), Zeros(4),
                  [i \in 1..8 |-> IF i <= Len(data) THEN data[i] ELSE 0])

BuildRstStreamFrame(stream_id, error_code) ==
    BuildRawFrame(FrameType.rst_stream, 0, stream_id, error_code)

BuildGoawayFrame(last_stream_id, error_code, debug_data) ==
    BuildRawFrame(FrameType.goaway, 0, Zeros(4), Masked(last_stream_id) \o error_code \o debug_data)

BuildPriorityFrame(stream_id, priority) ==
    BuildRawFrame(FrameType.priority, 0, stream_id, PriorityFields(priority))

-----------------------------------------------------------------------------
(* The probe.                                                              *)

\* The arguments of the Python binding: omit_settings wins over settings,
\* and no settings are an empty list.
ProbeSettings(args) ==
    IF args.omit_settings THEN None ELSE IF args.settings = None THEN << >> ELSE args.settings

\* HEADERS, and a CONTINUATION for what a split leaves over.
HeaderFrames(block, args) ==
    LET split == IF args.split_headers_after = None \/ args.split_headers_after > Len(block)
                 THEN Len(block) ELSE args.split_headers_after
        rest == SubSeq(block, split + 1, Len(block))
    IN  BuildHeadersFrame([header_block |-> SubSeq(block, 1, split), stream_id |-> args.stream_id,
                           end_stream |-> args.body = None /\ ~args.force_no_end_stream_on_headers,
                           end_headers |-> rest = << >>,
                           padding |-> args.pad_headers, priority |-> args.priority])
          \o (IF rest = << >> THEN << >> ELSE BuildContinuationFrame(rest, args.stream_id, TRUE))

\* build_probe after the headers have been encoded to a block.
BuildProbe(block, args) ==
    LET settings == ProbeSettings(args)
    IN  (IF ~args.send_preface THEN << >>
         ELSE IF args.preface_override = None THEN Preface ELSE args.preface_override)
        \o (IF settings = None THEN << >> ELSE BuildSettingsFrame(settings, FALSE))
        \o args.extra_frames_before_headers
        \o HeaderFrames(block, args)
        \o (IF args.body = None THEN << >>
            ELSE BuildDataFrame(args.body, args.stream_id, TRUE, args.pad_data))
        \o args.extra_frames_after

-----------------------------------------------------------------------------
(* A reader of frames, by RFC 9113, section 4.1 and section 6.             *)

FrameAt(bytes, pos) ==
    LET n == bytes[pos] * 65536 + bytes[pos + 1] * 256 + bytes[pos + 2]
    IN  [type |-> bytes[pos + 3], flags |-> bytes[pos + 4],
         stream_id |-> Masked(SubSeq(bytes, pos + 5, pos + 8)), reserved |-> bytes[pos + 5] \div 128,
         payload |-> SubSeq(bytes, pos + 9, pos + 8 + n), next |-> pos + 9 + n]

Broken == [type |-> 256, flags |-> 0, stream_id |-> Zeros(4), reserved |-> 0,
           payload |-> << >>, next |-> 0]

\* All the frames of bytes; a last one that is not whole is Broken.
Frames(bytes) ==
    LET from[pos \in 1..(Len(bytes) + 1)] ==
            IF pos = Len(bytes) + 1 THEN << >>
            ELSE IF pos + 8 > Len(bytes) THEN <<Broken>>
            ELSE LET f == FrameAt(bytes, pos)
                 IN  IF f.next > Len(bytes) + 1 THEN <<Broken>> ELSE <<f>> \o from[f.next]
    IN  from[1]

Has(f, flag) == (f.flags \div flag) % 2 = 1

\* What a DATA or HEADERS payload holds between its pad length and padding.
Unpadded(f) ==
    IF Has(f, Padded) THEN SubSeq(f.payload, 2, Len(f.payload) - f.payload[1]) ELSE f.payload

\* The header block of a HEADERS or CONTINUATION frame, and its priority.
Fragment(f) ==
    IF f.type = FrameType.continuation THEN f.payload
    ELSE IF Has(f, Priority) THEN SubSeq(Unpadded(f), 6, Len(Unpadded(f))) ELSE Unpadded(f)
PriorityOf(f) ==
    LET p == IF f.type = FrameType.priority THEN f.payload ELSE SubSeq(Unpadded(f), 1, 5)
    IN  [dep |-> Masked(SubSeq(p, 1, 4)), exclusive |-> p[1] >= 128, weight |-> p[5]]
=============================================================================
