----------------------------- MODULE MCVisitors -----------------------------
(* A small instance of IconPictures for TLC, with small files. *)
EXTENDS IconPictures, SequencesExt

Interchangeable == Permutations(Procs) \cup Permutations(ShortIDs)

-----------------------------------------------------------------------------
(* Files of tiny pictures.  Bytes of the lines are 0 or Base - 1.          *)

Ihdr(w, h, color) == [width |-> w, height |-> h, color |-> color, depth |-> 8]

Lines(h, filters, px) ==
    [i \in 1 .. Stride(h) * h.height |->
        LET y == (i - 1) \div Stride(h)
            col == (i - 1) % Stride(h)
        IN  IF col = 0 THEN filters[y + 1] ELSE px[y * h.width * Bpp(h) + col]]

AppleFile(h, parts) ==
    [signature |-> TRUE, cut |-> FALSE,
     chunks |-> <<[typ |-> "CgBI", data |-> <<>>], [typ |-> "IHDR", data |-> h]>>
                \o [i \in DOMAIN parts |-> [typ |-> "IDAT", data |-> parts[i]]]
                \o <<[typ |-> "IEND", data |-> <<>>]>>]

(* Two lines of two RGB pixels, for the filters that look at three bytes,  *)
(* and two lines of one RGBA pixel, for every pair of filters.  The second *)
(* line is the first from its end.                                         *)
Square == Ihdr(2, 2, 2)
Column == Ihdr(1, 2, 6)

Mirrored(n) == {px \o Reverse(px) : px \in [1 .. n -> {0, Base - 1}]}

Squares ==
    {Lines(Square, f, px) : f \in {<<0, 3>>, <<1, 4>>, <<4, 3>>}, px \in Mirrored(6)}
Columns ==
    {Lines(Column, f, px) : f \in (0 .. 4) \X (0 .. 4), px \in Mirrored(4)}

Pictures ==
    {AppleFile(Square, <<Deflate(raw)>>) : raw \in Squares}
    \cup {AppleFile(Column, <<Deflate(raw)>>) : raw \in Columns}

(* One picture with its data in two chunks, short of a byte, with bytes    *)
(* after its last line, of a size, colour or depth that is not the data's, *)
(* with more bytes than an int counts, without a CgBI chunk or with one    *)
(* further on, cut off, not a PNG at all                                   *)
Variants ==
    LET raw == Lines(Column, <<1, 3>>, [i \in 1 .. 8 |-> i % Base])
        s == Deflate(raw)
        f == AppleFile(Column, <<s>>)
    IN  {AppleFile(Column, <<SubSeq(s, 1, k), SubSeq(s, k + 1, Len(s))>>) : k \in 1 .. Len(s) - 1}
        \cup {AppleFile(h, <<d>>) :
                h \in {Column, Ihdr(1, 3, 6), Ihdr(2, 1, 2), Ihdr(1, 2, 2), Ihdr(0, 2, 6),
                       Ihdr(1, 2, 3), [Column EXCEPT !.depth = 16]},
                d \in {s, Deflate(Front(raw)), Deflate(raw \o <<0, 1>>), Front(s), Zlib(raw), <<>>}}
        \cup {AppleFile([Column EXCEPT !.height = 52], <<s>>),
              [f EXCEPT !.chunks = Tail(@)],
              [f EXCEPT !.chunks = Tail(@) \o <<Head(@)>>],
              [f EXCEPT !.chunks = <<Head(@)>> \o @],
              [f EXCEPT !.chunks = <<>>], [f EXCEPT !.cut = TRUE], [f EXCEPT !.signature = FALSE]}

Samples == Pictures \cup Variants

=============================================================================
