------------------------------- MODULE MCH2 -------------------------------
(***************************************************************************)
(* H2Toolkit on a small alphabet with a unary code (complete, as RFC 7541's *)
(* is) and a table with room for three short entries.                      *)
(***************************************************************************)
EXTENDS H2Toolkit

\* a b 0 - : A space LF NUL
Letters == <<97, 98, 48, 45, 58, 65, 32, 10, 0>>
Unary(i) == Append(Ones(i - 1), 0)
MCHuffmanTable == [b \in ToSet(Letters) |-> Unary(CHOOSE i \in 1..9 : Letters[i] = b)]
MCEos == Ones(9)
MCStaticTable == [i \in 1..61 |-> [name |-> <<97, 45>>, value |-> IF i % 2 = 0 THEN <<48>> ELSE << >>]]

A(n) == [i \in 1..n |-> 97]

Plain == [name |-> <<97>>, value |-> <<98>>, indexing |-> "with",
          huffman_name |-> None, huffman_value |-> None,
          allow_invalid_value |-> FALSE, allow_invalid_name |-> FALSE,
          length_bloat_name |-> 0, length_bloat_value |-> 0, force_static_index |-> None]

Indexings == {"with", "without", "never"}
HuffmanChoices == {None, TRUE, FALSE}

\* A length above 127, written with or without filler.
Long(v, bloat) == [Plain EXCEPT !.value = A(v), !.huffman_value = FALSE, !.length_bloat_value = bloat]

\* One family of headers per knob, the other knobs at rest.
MCHeaders ==
    {[Plain EXCEPT !.name = n, !.indexing = x, !.allow_invalid_name = a, !.huffman_name = c] :
        n \in {<< >>, <<58>>, <<58, 97>>, <<97, 58>>, <<65>>, <<98, 45, 48>>}, x \in {"with", "never"},
        a \in BOOLEAN, c \in HuffmanChoices}
    \cup {[Plain EXCEPT !.value = v, !.allow_invalid_value = a, !.huffman_value = c] :
        v \in {<< >>, <<10>>, <<97, 0>>, <<32, 65>>, A(20)}, a \in BOOLEAN, c \in HuffmanChoices}
    \cup {[Plain EXCEPT !.force_static_index = i, !.indexing = x, !.name = n] :
        i \in {0, 1, 14, 15, 61, 62}, x \in Indexings, n \in {<< >>, <<65>>}}
    \cup {[Plain EXCEPT !.name = A(n), !.value = A(v), !.huffman_name = FALSE, !.huffman_value = FALSE,
                        !.length_bloat_name = bn, !.length_bloat_value = bv, !.indexing = x] :
        n \in {1, 126, 127}, v \in {2, 127, 128, 255}, bn \in {0, 3}, bv \in {0, 1, 4}, x \in {"with", "without"}}

MCHeaderLists ==
    {<<h>> : h \in MCHeaders}
    \cup {<<Plain, h>> : h \in {Plain, [Plain EXCEPT !.force_static_index = 61],
                                [Plain EXCEPT !.name = <<65>>], Long(127, 0)}}
    \cup {<<Long(200, bloat), Plain>> : bloat \in {0, 1}}

-----------------------------------------------------------------------------
Literals ==
    [op : {"with"}, index : {0, 2, 62, 64}, name : {<<97>>}, value : {<<98>>, <<48, 48, 48>>}]
      \cup [op : {"without", "never"}, index : {0, 15, 61, 63}, name : {<<97>>}, value : {<<98>>}]
      \cup [op : {"with"}, index : {0}, name : {<<97>>}, value : {Zeros(77), Zeros(78)}]
References == [op : {"indexed"}, index : {1, 61, 62, 63, 64}]
\* 110 is the announced size: legal, and refused once a smaller one was set.
Updates == [op : {"update"}, size : {0, 35, 70, 110}]

MCPeerBlocks ==
    {<<o>> : o \in Literals \cup References \cup Updates}
      \cup {<<u, o>> : u \in Updates \cup [op : {"with"}, index : {0}, name : {<<98>>}, value : {<< >>}],
                       o \in References \cup [op : {"with"}, index : {62}, name : {<<97>>}, value : {<<45>>}]}

-----------------------------------------------------------------------------
MCInputs == {<< >>} \cup {<<b>> : b \in Bytes}
              \cup {<<a, b>> : a \in {0, 127, 254, 255, 170}, b \in Bytes}
              \cup {<<a, 255, b>> : a \in {0, 127}, b \in {0, 1, 127, 128, 255}}

MCIntegers7 ==
    {<<f>> : f \in {0, 126, 128, 254}}
      \cup {<<f>> \o middle \o <<l>> :
              f \in {127, 255},
              middle \in UNION {[1..k -> {128, 129, 131, 255}] : k \in 0..3},
              l \in {0, 1, 3, 4, 127}}

-----------------------------------------------------------------------------
Args == [send_preface |-> TRUE, preface_override |-> None, settings |-> None, omit_settings |-> FALSE,
         stream_id |-> <<0, 0, 0, 1>>, body |-> None, split_headers_after |-> None,
         pad_headers |-> 0, pad_data |-> 0, priority |-> None,
         force_no_end_stream_on_headers |-> FALSE,
         extra_frames_before_headers |-> << >>, extra_frames_after |-> << >>]

APriority == [dep |-> <<255, 0, 0, 3>>, weight |-> 15, exclusive |-> FALSE]
Setting == [id |-> 4, value |-> <<255, 255, 0, 1>>]

MCProbes ==
    [headers : {<<Plain>>, <<Plain, [Plain EXCEPT !.value = A(20)]>>, <<[Plain EXCEPT !.name = <<65>>]>>},
     args : {[Args EXCEPT !.split_headers_after = s, !.pad_headers = p, !.priority = r, !.body = b,
                          !.pad_data = d, !.force_no_end_stream_on_headers = f] :
                s \in {None, 0, 1, 4, 100}, p \in {0, 2}, r \in {None, APriority},
                b \in {None, << >>, <<97, 98>>}, d \in {0, 1}, f \in BOOLEAN}
            \cup {[Args EXCEPT !.send_preface = sp, !.preface_override = po, !.settings = s,
                               !.omit_settings = o, !.stream_id = i,
                               !.extra_frames_before_headers = x, !.extra_frames_after = x] :
                sp \in BOOLEAN, po \in {None, <<80>>}, s \in {None, <<Setting>>, <<Setting, Setting>>},
                o \in BOOLEAN, i \in {<<0, 0, 0, 2>>, <<128, 0, 0, 1>>},
                x \in {<< >>, <<0, 0, 4, 8, 0, 0, 0, 0, 0, 0, 0, 0, 1>>}}]

Words == {<<0, 0, 0, 1>>, <<255, 1, 2, 3>>}
MCFrame ==
    [kind : {"raw"}, type : {0, 5, 200}, flags : {0, 255}, stream_id : Words, payload : {<< >>, A(255), A(256)}]
      \cup [kind : {"settings"}, settings : {<< >>, <<Setting>>, <<Setting, [id |-> 258, value |-> <<0, 0, 0, 0>>]>>},
            ack : BOOLEAN]
      \cup [kind : {"headers"}, header_block : {<< >>, A(3)}, stream_id : Words, end_stream : BOOLEAN,
            end_headers : BOOLEAN, padding : {0, 2}, priority : {None, APriority}]
      \cup [kind : {"continuation"}, header_block : {A(3)}, stream_id : Words, end_headers : BOOLEAN]
      \cup [kind : {"data"}, payload : {<< >>, A(3)}, stream_id : Words, end_stream : BOOLEAN,
            padding : {0, 2}]
      \cup [kind : {"window_update", "rst_stream"}, word : Words, stream_id : Words]
      \cup [kind : {"ping"}, payload : {Zeros(8), <<1, 2>>, A(9)}, ack : BOOLEAN]
      \cup [kind : {"goaway"}, stream_id : Words, word : Words, payload : {<< >>, A(3)}]
      \cup [kind : {"priority"}, stream_id : Words,
            priority : [dep : Words, weight : {0, 255}, exclusive : BOOLEAN]]
=============================================================================
