-------------------------------- MODULE CgBI --------------------------------
(***************************************************************************)
(* NormalizeAppleCgBI, which turns the PNG variant of Apple's tools into a *)
(* PNG any browser shows, and what a decoder of either makes of a file.    *)
(*                                                                         *)
(* A file is a signature and a sequence of chunks.  Bytes are 0 .. Base-1. *)
(* Deflate keeps its input between two marks, and zlib adds a header and a *)
(* checksum: compression itself is the library's.                          *)
(***************************************************************************)
EXTENDS Integers, Sequences, FiniteSetsExt

CONSTANTS Base,      \* values of a byte
          MaxInt,    \* the largest int
          Files      \* what is given to the conversion

IHDRData == [width : Nat, height : Nat, depth : Nat, color : Nat]
Chunk ==
    [typ : {"IHDR"}, data : IHDRData] \cup [typ : STRING \ {"IHDR"}, data : Seq(Int)]

(* cut: a chunk reaches past the end of the file, or an IHDR is too short. *)
File == [signature : BOOLEAN, cut : BOOLEAN, chunks : Seq(Chunk)]

ASSUME BaseAssumption == Base \in Nat \ {0}
ASSUME MaxIntAssumption == MaxInt \in Nat
ASSUME FilesAssumption == Files \subseteq File

-----------------------------------------------------------------------------
(* Compressed streams *)

Begin == -1
End == -2
Header == -3
Checksum == -4

Deflate(s) == <<Begin>> \o s \o <<End>>

Zlib(s) == <<Header>> \o Deflate(s) \o <<Checksum>>

(* What io.ReadAll gets from a raw DEFLATE stream: it stops at the end of  *)
(* the stream whatever follows, and fails without one.                     *)
Ends(s) == {i \in DOMAIN s : s[i] = End}
CanInflate(s) == s # <<>> /\ s[1] = Begin /\ Ends(s) # {}
Inflate(s) == SubSeq(s, 2, Min(Ends(s)) - 1)

-----------------------------------------------------------------------------
(* The conversion *)

(* Without an IHDR the image has no size and no depth.  The last one counts. *)
NothingRead ==
    [hasCgBI |-> FALSE, idat |-> <<>>,
     ihdr |-> [width |-> 0, height |-> 0, depth |-> 0, color |-> 0]]

Scan(read, c) ==
    CASE c.typ = "CgBI" -> [read EXCEPT !.hasCgBI = TRUE]
      [] c.typ = "IHDR" -> [read EXCEPT !.ihdr = c.data]
      [] c.typ = "IDAT" -> [read EXCEPT !.idat = read.idat \o c.data]
      [] OTHER -> read

(* What the first pass has read after each chunk *)
FirstPass(chunks) ==
    LET after[n \in 0 .. Len(chunks)] ==
            IF n = 0 THEN NothingRead ELSE Scan(after[n - 1], chunks[n])
    IN  after

AllRead(f) == FirstPass(f.chunks)[Len(f.chunks)]
HasCgBI(f) == AllRead(f).hasCgBI
IHDR(f) == AllRead(f).ihdr
IDAT(f) == AllRead(f).idat

Bpp(h) == IF h.color = 2 THEN 3 ELSE 4

(* Lines without their filter byte *)
ScanLenNoFilter(h) == h.width * Bpp(h)

ScanLen(h) == 1 + h.width * Bpp(h)

(* What an int holds of the product of two of them *)
AsInt(n) == ((n + MaxInt + 1) % (2 * (MaxInt + 1))) - (MaxInt + 1)

(* It goes through to the end of a file that can be converted. *)
Convertible(f) ==
    /\ f.signature /\ ~f.cut /\ HasCgBI(f)
    /\ IHDR(f).depth = 8 /\ IHDR(f).color \in {2, 6}
    /\ CanInflate(IDAT(f))
    /\ Len(Inflate(IDAT(f))) >= AsInt(ScanLen(IHDR(f)) * IHDR(f).height)

(* Byte i is byte k of one of the pixels whose bytes are swapped. *)
OfPixel(h, i, k) ==
    \E y \in 1 .. h.height, x \in 1 .. h.width :
        i = (y - 1) * ScanLen(h) + 1 + (x - 1) * Bpp(h) + k

(* raw[off], raw[off+2] = raw[off+2], raw[off] at every pixel *)
Swapped(h, raw) ==
    [i \in DOMAIN raw |->
        CASE OfPixel(h, i, 1) -> raw[i + 2]
          [] OfPixel(h, i, 3) -> raw[i - 2]
          [] OTHER -> raw[i]]

IsFirstIDAT(chunks, n) ==
    chunks[n].typ = "IDAT" /\ \A m \in 1 .. n - 1 : chunks[m].typ # "IDAT"

(* The second pass: CgBI dropped, one IDAT in the place of the first *)
Emit(out, chunks, n, data) ==
    CASE IsFirstIDAT(chunks, n) -> Append(out, [chunks[n] EXCEPT !.data = data])
      [] chunks[n].typ \in {"CgBI", "IDAT"} /\ ~IsFirstIDAT(chunks, n) -> out
      [] OTHER -> Append(out, chunks[n])

SecondPass(chunks, data) ==
    LET after[n \in 0 .. Len(chunks)] ==
            IF n = 0 THEN <<>> ELSE Emit(after[n - 1], chunks, n, data)
    IN  after

Rebuilt(f, data) == SecondPass(f.chunks, data)[Len(f.chunks)]

NormalizeAppleCgBI(f) ==
    IF Convertible(f)
    THEN [f EXCEPT !.chunks =
            Rebuilt(f, Zlib(Swapped(IHDR(f), Inflate(IDAT(f)))))]
    ELSE f

(* Only the first chunk is looked at. *)
IsAppleCgBIPNG(f) == f.signature /\ f.chunks # <<>> /\ f.chunks[1].typ = "CgBI"

-----------------------------------------------------------------------------
(* What a decoder makes of the scanlines: PNG's filters undone, line by    *)
(* line, from the pixel to the left, the one above and the one to the left *)
(* of that.                                                                *)

Abs(n) == IF n < 0 THEN -n ELSE n

Paeth(a, b, c) ==
    LET p == a + b - c
    IN  IF Abs(p - a) <= Abs(p - b) /\ Abs(p - a) <= Abs(p - c) THEN a
        ELSE IF Abs(p - b) <= Abs(p - c) THEN b ELSE c

Predict(filter, a, b, c) ==
    CASE filter = 0 -> 0
      [] filter = 1 -> a
      [] filter = 2 -> b
      [] filter = 3 -> (a + b) \div 2
      [] filter = 4 -> Paeth(a, b, c)

(* Bytes of a line: one for the filter, then the pixels *)
Stride(h) == h.width * Bpp(h) + 1

Undo(h, raw, y, x, left, up, upleft) ==
    LET start == (y - 1) * Stride(h) + 1
        filter == raw[start]
    IN  [k \in 1 .. Bpp(h) |->
            (raw[start + (x - 1) * Bpp(h) + k] + Predict(filter, left[k], up[k], upleft[k])) % Base]

(* What is left of a line, and above the first *)
Black(h) == [k \in 1 .. Bpp(h) |-> 0]
BlackLine(h) == [x \in 0 .. h.width |-> Black(h)]

Line(h, raw, y, above) ==
    LET pixel[x \in 0 .. h.width] ==
            IF x = 0 THEN Black(h)
                     ELSE Undo(h, raw, y, x, pixel[x - 1], above[x], above[x - 1])
    IN  pixel

Pixels(h, raw) ==
    LET line[y \in 0 .. h.height] ==
            IF y = 0 THEN BlackLine(h) ELSE Line(h, raw, y, line[y - 1])
    IN  line

(* UIKit: no zlib wrapper, blue first.  That Apple's tools have multiplied *)
(* the colours by their alpha, the code leaves as it is; colours are       *)
(* compared as they are stored.                                            *)
BlueFirst(pixel) == [pixel EXCEPT ![1] = pixel[3], ![3] = pixel[1]]

ShownByApple(f) ==
    LET h == IHDR(f)
        lines == Pixels(h, Inflate(IDAT(f)))
    IN  [y \in 1 .. h.height |-> [x \in 1 .. h.width |-> BlueFirst(lines[y][x])]]

(* libpng: refuses a CgBI chunk and wants the wrapper *)
ShowsAnywhere(f) ==
    f.signature /\ ~HasCgBI(f) /\ IDAT(f) # <<>> /\ IDAT(f)[1] = Header
ShownAnywhere(f) ==
    LET h == IHDR(f)
        lines == Pixels(h, Inflate(Tail(IDAT(f))))
    IN  [y \in 1 .. h.height |-> [x \in 1 .. h.width |-> lines[y][x]]]

-----------------------------------------------------------------------------
(* An int can hold the number of bytes. *)
SizeFits(h) == ScanLen(h) * h.height <= MaxInt

(* Converting keeps the picture and changes nothing that was converted or  *)
(* can be shown already; what still looks like Apple's was given back.     *)
KeepsPicture(f) ==
    LET fixed == NormalizeAppleCgBI(f)
    IN  SizeFits(IHDR(f)) =>
          /\ NormalizeAppleCgBI(fixed) = fixed
          /\ IsAppleCgBIPNG(fixed) => fixed = f
          /\ Convertible(f) => ShowsAnywhere(fixed) /\ ShownAnywhere(fixed) = ShownByApple(f)
          /\ ShowsAnywhere(f) => fixed = f

=============================================================================
