----------------------------- MODULE BodyDecode -----------------------------
(***************************************************************************)
(* From the frames of a response body to the bytes a caller gets:          *)
(* parse_response, read_body and decompress of src/client/hyper.rs.        *)
(*                                                                         *)
(* A body is a sequence of units.  A coding of some flavour (gzip, zlib,   *)
(* raw deflate or brotli) turns a body into a head unit, blocks around so  *)
(* many units each as its ratio says, and an end unit.  The decoders are   *)
(* external: they read units until the end, some damage or the cap.        *)
(***************************************************************************)
EXTENDS Naturals, Sequences, SequencesExt

CONSTANT MaxBody    \* config.max_body()

ASSUME MaxBodyAssumption == MaxBody \in Nat

-----------------------------------------------------------------------------
(* External: what servers send.                                            *)

Unit(kind, of, inner) == [kind |-> kind, of |-> of, inner |-> inner]
Plain(symbol) == Unit("plain", symbol, << >>)
Damage == Unit("damage", "none", << >>)

Clipped(s, n) == SubSeq(s, 1, IF Len(s) < n THEN Len(s) ELSE n)

\* One coding: lucky is a raw stream that reads as a zlib header by
\* coincidence, bad_sum a checksum that does not match.
Coded(body, coding) ==
    LET blocks == (Len(body) + coding.ratio - 1) \div coding.ratio
        Inner(i) == Clipped(SubSeq(body, (i - 1) * coding.ratio + 1, Len(body)), coding.ratio)
    IN  <<Unit(IF coding.lucky THEN "lucky_head" ELSE "head", coding.flavour, << >>)>>
          \o [i \in 1..blocks |-> Unit("block", coding.flavour, Inner(i))]
          \o <<Unit(IF coding.bad_sum THEN "bad_end" ELSE "end", coding.flavour, << >>)>>

\* The content, and what each coding makes of the layer below.
Layers(b) ==
    LET layer[i \in 0..Len(b.codings)] ==
            IF i = 0 THEN b.content ELSE Coded(layer[i - 1], b.codings[i])
    IN  layer

\* A body: its content, its codings, what befalls it on the way, how it is framed.
IsRow(s) == s \in Seq({s[i] : i \in 1..Len(s)})
IsCoding(c) ==
    /\ c.flavour \in {"gzip", "zlib", "raw", "br"} /\ c.ratio \in Nat \ {0}
    /\ c.lucky \in BOOLEAN /\ c.bad_sum \in BOOLEAN
IsBody(b) ==
    /\ IsRow(b.content) /\ IsRow(b.codings) /\ \A k \in 1..Len(b.codings) : IsCoding(b.codings[k])
    /\ b.fault \in {"none", "cut", "damage"} /\ b.at \in Nat /\ b.split \in Nat /\ b.lag \in Nat
    /\ b.between \in {[kind |-> "data", units |-> << >>], [kind |-> "trailers"]}
    /\ b.last \in {[kind |-> "trailers"], [kind |-> "error"]}

\* What the server sends of it: cut short, or with one unit damaged.
OnTheWire(b) ==
    LET whole == Layers(b)[Len(b.codings)]
    IN  CASE b.fault = "none" -> whole
          [] b.fault = "cut" -> SubSeq(whole, 1, Len(whole) - b.at)
          [] b.fault = "damage" -> [i \in 1..Len(whole) |-> IF i = b.at THEN Damage ELSE whole[i]]

-----------------------------------------------------------------------------
(* read_body: frames up to the end, an error, or more than the cap holds.  *)

\* External (hyper): the wire in two chunks with a frame without bytes between
\* them, and trailers or an error at the end.
FramesOf(b, wire) ==
    LET Data(units) == [kind |-> "data", units |-> units]
    IN  <<Data(Clipped(wire, b.split)), b.between, Data(SubSeq(wire, b.split + 1, Len(wire))), b.last>>

Take(r, frame) ==
    CASE r.state # "reading" -> r
      [] r.state = "reading" /\ frame.kind = "error" -> [r EXCEPT !.state = "error"]
      [] r.state = "reading" /\ frame.kind = "trailers" -> r
      [] r.state = "reading" /\ frame.kind = "data" ->
           [units |-> Clipped(r.units \o frame.units, MaxBody),
            state |-> IF Len(r.units) + Len(frame.units) > MaxBody THEN "cut" ELSE "reading"]

ReadBody(frames) ==
    LET after[k \in 0..Len(frames)] ==
            IF k = 0 THEN [units |-> << >>, state |-> "reading"] ELSE Take(after[k - 1], frames[k])
    IN  after[Len(frames)]

-----------------------------------------------------------------------------
(* decompress                                                              *)

\* External: a decoder of one flavour reads blocks behind its head, and ends
\* cleanly at its end unit.
IsHead(u) == u.kind \in {"head", "lucky_head"}
Starts(flavour, data) == data # << >> /\ IsHead(data[1]) /\ data[1].of = flavour
Blocks(flavour, data) ==
    LET stop == SelectInSubSeq(data, 2, Len(data), LAMBDA u : u.kind # "block" \/ u.of # flavour)
    IN  IF ~Starts(flavour, data) THEN << >>
        ELSE SubSeq(data, 2, IF stop = 0 THEN Len(data) ELSE stop - 1)
EndsCleanly(flavour, data, blocks) ==
    /\ Starts(flavour, data)
    /\ Len(blocks) + 2 <= Len(data)
    /\ data[Len(blocks) + 2] = Unit("end", flavour, << >>)

Whole(out) == [tag |-> "whole", out |-> out]
Partial(out) == [tag |-> "partial", out |-> out]
Failed == [tag |-> "failed", out |-> << >>]

\* Mutant: output before an error passes as a whole body.
BoundedForgiving(out, clean, lag) ==
    IF clean \/ Len(out) > lag THEN Whole(Clipped(out, MaxBody)) ELSE Failed

\* Output that fills the cap ends the reading before the decoder sees what
\* comes next.  lag: units a decoder that fails keeps to itself.
Bounded(out, clean, lag) ==
    IF Len(out) >= MaxBody \/ clean THEN Whole(Clipped(out, MaxBody))
    ELSE IF Len(out) <= lag THEN Failed
    ELSE Partial(Clipped(out, Len(out) - lag))

\* read_bounded
InflatedFrom(flavour, data, lag, blocks) ==
    Bounded(FlattenSeq([i \in 1..Len(blocks) |-> blocks[i].inner]),
            EndsCleanly(flavour, data, blocks), lag)
ReadBounded(flavour, data, lag) == InflatedFrom(flavour, data, lag, Blocks(flavour, data))

HasZlibHeader(data) ==
    Starts("zlib", data) \/ (Starts("raw", data) /\ data[1].kind = "lucky_head")

\* Mutant: the flavour the header points at is the only one tried.
DecodeDeflateTrusting(data, lag) ==
    ReadBounded(IF HasZlibHeader(data) THEN "zlib" ELSE "raw", data, lag)

\* decode_deflate: the flavour the header points at, then the other.
OrElse(first, second) == IF first.tag = "failed" THEN second ELSE first
DecodeDeflate(data, lag) ==
    IF HasZlibHeader(data)
    THEN OrElse(ReadBounded("zlib", data, lag), ReadBounded("raw", data, lag))
    ELSE OrElse(ReadBounded("raw", data, lag), ReadBounded("zlib", data, lag))

\* Codec::from_token knows these; decode_one undoes one.
Known == {"gzip", "x-gzip", "deflate", "br", "identity"}
DecodeOne(token, data, lag) ==
    CASE token \in {"gzip", "x-gzip"} -> ReadBounded("gzip", data, lag)
      [] token = "deflate" -> DecodeDeflate(data, lag)
      [] token = "br" -> ReadBounded("br", data, lag)

\* A layer: nothing off the first leaves the bytes as they arrived, nothing off
\* a later one the deepest peel.
Peel(d, inflated) ==
    CASE inflated.tag = "whole" -> [d EXCEPT !.body = inflated.out]
      [] inflated.tag = "partial" -> [d EXCEPT !.body = inflated.out, !.decode_error = TRUE]
      [] inflated.tag = "failed" -> [d EXCEPT !.decode_error = TRUE, !.stuck = TRUE]

\* The codings that have to be undone, in the order they were applied.
Codecs(encoding) == SelectSeq(encoding, LAMBDA token : token \notin {"", "identity"})

\* The walk over them, from the last one applied.
Unwrap(codecs, data, lag) ==
    LET n == Len(codecs)
        layer[k \in 0..n] ==
            IF k = 0 THEN [body |-> data, decode_error |-> FALSE, stuck |-> FALSE]
            ELSE LET d == layer[k - 1]
                 IN  IF d.stuck THEN d ELSE Peel(d, DecodeOne(codecs[n + 1 - k], d.body, lag))
    IN  layer[n]

Decompress(encoding, data, lag) ==
    IF data = << >> THEN [body |-> << >>, decode_error |-> FALSE, stuck |-> FALSE]
    ELSE IF \E i \in 1..Len(Codecs(encoding)) : Codecs(encoding)[i] \notin Known
    THEN [body |-> data, decode_error |-> TRUE, stuck |-> TRUE]
    ELSE Unwrap(Codecs(encoding), data, lag)

-----------------------------------------------------------------------------
\* parse_response: a failed read is an error, and anything else a response.
Response(b, read) ==
    IF read.state = "error" THEN [error |-> TRUE, body |-> << >>, decode_error |-> FALSE]
    ELSE LET d == Decompress(b.declared, read.units, b.lag)
         IN  [error |-> FALSE, body |-> d.body, decode_error |-> d.decode_error]
ParseResponse(b) == Response(b, ReadBody(FramesOf(b, OnTheWire(b))))
=============================================================================
