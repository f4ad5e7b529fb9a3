----------------------------- MODULE CgBIProofs -----------------------------
(* The conversion of an icon keeps its picture, for every file and every   *)
(* number of values a byte may have: what its loops compute is shown by    *)
(* induction on the chunks, the lines and the pixels.                      *)
EXTENDS IconPictures, SequenceTheorems, WellFoundedInduction, TLAPS

-----------------------------------------------------------------------------
(* Induction *)

(* A set of numbers has a least one. *)
LEMMA LeastOf ==
    ASSUME NEW T \in SUBSET Nat, T # {}
    PROVE  \E x \in T : \A y \in T : x <= y
<1>1. PICK R : R = OpToRel(<, Nat)
  OBVIOUS
<1>2. IsWellFoundedOn(R, Nat)
  BY <1>1, NatLessThanWellFounded
<1>3. \A x, y \in Nat : y < x => <<y, x>> \in R
  BY <1>1 DEF OpToRel
<1>4. PICK x \in T : \A y \in T : ~ (<<y, x>> \in R)
  BY <1>2, WFMin
<1>5. \A y \in T : ~ (y < x)
  BY <1>3, <1>4
<1>6. QED
  BY <1>5

(* Induction over the members of a set, which the provers can instantiate. *)
LEMMA Induction ==
    ASSUME NEW S, 0 \in S, \A n \in Nat : n \in S => n + 1 \in S
    PROVE  Nat \subseteq S
<1> SUFFICES ASSUME Nat \ S # {} PROVE FALSE
  OBVIOUS
<1>1. PICK x \in Nat \ S : \A y \in Nat \ S : x <= y
  BY LeastOf
<1>2. x # 0 /\ x - 1 \in Nat /\ x - 1 \in S
  BY <1>1
<1>3. QED
  BY <1>1, <1>2

-----------------------------------------------------------------------------
(* The loops: each has a result after every step, the one it says. *)

(* The first pass: nothing is read before the first chunk, and every chunk *)
(* adds to what the ones before it gave.                                   *)
LEMMA FirstPassLoop ==
    ASSUME NEW chunks, Len(chunks) \in Nat
    PROVE  FirstPass(chunks) =
             [n \in 0 .. Len(chunks) |->
                IF n = 0 THEN NothingRead ELSE Scan(FirstPass(chunks)[n - 1], chunks[n])]
<1> DEFINE Loop(g, n) ==
             g = [m \in 0 .. n |-> IF m = 0 THEN NothingRead ELSE Scan(g[m - 1], chunks[m])]
           S == {n \in Nat : \E g : Loop(g, n)}
<1>1. 0 \in S
  <2>1. Loop([m \in 0 .. 0 |-> NothingRead], 0)
    OBVIOUS
  <2>2. QED
    BY <2>1
<1>2. ASSUME NEW n \in Nat, n \in S PROVE n + 1 \in S
  <2>1. PICK g : Loop(g, n)
    BY <1>2
  <2> DEFINE k == [m \in 0 .. n + 1 |-> IF m <= n THEN g[m] ELSE Scan(g[n], chunks[m])]
  <2>2. \A m \in 0 .. n + 1 : k[m] = IF m = 0 THEN NothingRead ELSE Scan(k[m - 1], chunks[m])
    BY <2>1
  <2>3. Loop(k, n + 1)
    BY <2>2
  <2> HIDE DEF Loop, k
  <2>4. QED
    BY <2>3
<1>3. Len(chunks) \in S
  <2> HIDE DEF S
  <2>1. QED
    BY <1>1, <1>2, Induction
<1>4. \E g : Loop(g, Len(chunks))
  BY <1>3
<1>5. FirstPass(chunks) = CHOOSE g : Loop(g, Len(chunks))
  BY DEF FirstPass
<1> HIDE DEF Loop
<1>6. Loop(FirstPass(chunks), Len(chunks))
  BY <1>4, <1>5
<1>7. QED
  BY <1>6 DEF Loop

(* The second pass: nothing is written before the first chunk, and every   *)
(* chunk is written behind the ones before it, or dropped.                 *)
LEMMA SecondPassLoop ==
    ASSUME NEW chunks, NEW data, Len(chunks) \in Nat
    PROVE  SecondPass(chunks, data) =
             [n \in 0 .. Len(chunks) |->
                IF n = 0 THEN <<>> ELSE Emit(SecondPass(chunks, data)[n - 1], chunks, n, data)]
<1> DEFINE Loop(g, n) ==
             g = [m \in 0 .. n |-> IF m = 0 THEN <<>> ELSE Emit(g[m - 1], chunks, m, data)]
           S == {n \in Nat : \E g : Loop(g, n)}
<1>1. 0 \in S
  <2>1. Loop([m \in 0 .. 0 |-> <<>>], 0)
    OBVIOUS
  <2>2. QED
    BY <2>1
<1>2. ASSUME NEW n \in Nat, n \in S PROVE n + 1 \in S
  <2>1. PICK g : Loop(g, n)
    BY <1>2
  <2> DEFINE k == [m \in 0 .. n + 1 |-> IF m <= n THEN g[m] ELSE Emit(g[n], chunks, m, data)]
  <2>2. \A m \in 0 .. n + 1 : k[m] = IF m = 0 THEN <<>> ELSE Emit(k[m - 1], chunks, m, data)
    BY <2>1
  <2>3. Loop(k, n + 1)
    BY <2>2
  <2> HIDE DEF Loop, k
  <2>4. QED
    BY <2>3
<1>3. Len(chunks) \in S
  <2> HIDE DEF S
  <2>1. QED
    BY <1>1, <1>2, Induction
<1>4. \E g : Loop(g, Len(chunks))
  BY <1>3
<1>5. SecondPass(chunks, data) = CHOOSE g : Loop(g, Len(chunks))
  BY DEF SecondPass
<1> HIDE DEF Loop
<1>6. Loop(SecondPass(chunks, data), Len(chunks))
  BY <1>4, <1>5
<1>7. QED
  BY <1>6 DEF Loop

(* A decoder's line: every pixel comes from the one to its left and two of *)
(* the line above.                                                         *)
LEMMA LineLoop ==
    ASSUME NEW h, NEW raw, NEW y, NEW above, h.width \in Nat
    PROVE  Line(h, raw, y, above) =
             [x \in 0 .. h.width |->
                IF x = 0 THEN Black(h) ELSE Undo(h, raw, y, x, Line(h, raw, y, above)[x - 1], above[x], above[x - 1])]
<1> DEFINE Loop(g, n) ==
             g = [m \in 0 .. n |-> IF m = 0 THEN Black(h) ELSE Undo(h, raw, y, m, g[m - 1], above[m], above[m - 1])]
           S == {n \in Nat : \E g : Loop(g, n)}
<1>1. 0 \in S
  <2>1. Loop([m \in 0 .. 0 |-> Black(h)], 0)
    OBVIOUS
  <2>2. QED
    BY <2>1
<1>2. ASSUME NEW n \in Nat, n \in S PROVE n + 1 \in S
  <2>1. PICK g : Loop(g, n)
    BY <1>2
  <2> DEFINE k == [m \in 0 .. n + 1 |-> IF m <= n THEN g[m] ELSE Undo(h, raw, y, m, g[n], above[m], above[m - 1])]
  <2>2. \A m \in 0 .. n + 1 : k[m] = IF m = 0 THEN Black(h) ELSE Undo(h, raw, y, m, k[m - 1], above[m], above[m - 1])
    BY <2>1
  <2>3. Loop(k, n + 1)
    BY <2>2
  <2> HIDE DEF Loop, k
  <2>4. QED
    BY <2>3
<1>3. h.width \in S
  <2> HIDE DEF S
  <2>1. QED
    BY <1>1, <1>2, Induction
<1>4. \E g : Loop(g, h.width)
  BY <1>3
<1>5. Line(h, raw, y, above) = CHOOSE g : Loop(g, h.width)
  BY DEF Line
<1> HIDE DEF Loop
<1>6. Loop(Line(h, raw, y, above), h.width)
  BY <1>4, <1>5
<1>7. QED
  BY <1>6 DEF Loop

(* A decoder's picture: every line comes from the one above it.            *)
LEMMA PixelsLoop ==
    ASSUME NEW h, NEW raw, h.height \in Nat
    PROVE  Pixels(h, raw) =
             [y \in 0 .. h.height |->
                IF y = 0 THEN BlackLine(h) ELSE Line(h, raw, y, Pixels(h, raw)[y - 1])]
<1> DEFINE Loop(g, n) ==
             g = [m \in 0 .. n |-> IF m = 0 THEN BlackLine(h) ELSE Line(h, raw, m, g[m - 1])]
           S == {n \in Nat : \E g : Loop(g, n)}
<1>1. 0 \in S
  <2>1. Loop([m \in 0 .. 0 |-> BlackLine(h)], 0)
    OBVIOUS
  <2>2. QED
    BY <2>1
<1>2. ASSUME NEW n \in Nat, n \in S PROVE n + 1 \in S
  <2>1. PICK g : Loop(g, n)
    BY <1>2
  <2> DEFINE k == [m \in 0 .. n + 1 |-> IF m <= n THEN g[m] ELSE Line(h, raw, m, g[n])]
  <2>2. \A m \in 0 .. n + 1 : k[m] = IF m = 0 THEN BlackLine(h) ELSE Line(h, raw, m, k[m - 1])
    BY <2>1
  <2>3. Loop(k, n + 1)
    BY <2>2
  <2> HIDE DEF Loop, k
  <2>4. QED
    BY <2>3
<1>3. h.height \in S
  <2> HIDE DEF S
  <2>1. QED
    BY <1>1, <1>2, Induction
<1>4. \E g : Loop(g, h.height)
  BY <1>3
<1>5. Pixels(h, raw) = CHOOSE g : Loop(g, h.height)
  BY DEF Pixels
<1> HIDE DEF Loop
<1>6. Loop(Pixels(h, raw), h.height)
  BY <1>4, <1>5
<1>7. QED
  BY <1>6 DEF Loop

-----------------------------------------------------------------------------
(* Where the bytes of a picture are *)

(* The lines before another end before it begins. *)
LEMMA LinesInOrder ==
    ASSUME NEW s \in Nat, NEW y \in Nat, NEW z \in Nat, y < z
    PROVE  (y - 1) * s + s <= (z - 1) * s
<1>1. PICK d \in Nat : z = y + 1 + d
  <2>1. z - y - 1 \in Nat /\ z = y + 1 + (z - y - 1)
    OBVIOUS
  <2>2. QED
    BY <2>1
<1>2. (z - 1) * s = (y - 1) * s + s + d * s
  BY <1>1
<1>3. d * s \in Nat /\ (y - 1) * s \in Int
  OBVIOUS
<1>4. QED
  BY <1>2, <1>3

(* A pixel has three bytes, or four with alpha.                            *)
LEMMA Depth == \A h : Bpp(h) \in {3, 4}
BY DEF Bpp

(* A pixel lies in its line, behind the filter. *)
LEMMA InLine ==
    ASSUME NEW h, h.width \in Nat, NEW x \in 1 .. h.width, NEW k \in 1 .. Bpp(h)
    PROVE  /\ 1 <= (x - 1) * Bpp(h) + k
           /\ 1 + (x - 1) * Bpp(h) + k <= ScanLen(h)
           /\ ScanLen(h) \in Nat /\ (x - 1) * Bpp(h) \in Nat
<1>1. CASE Bpp(h) = 3
  BY <1>1 DEF ScanLen
<1>2. CASE Bpp(h) = 4
  BY <1>2 DEF ScanLen
<1>3. QED
  BY <1>1, <1>2, Depth

(* Bytes of one line belong to no other. *)
LEMMA SameLine ==
    ASSUME NEW s \in Nat, NEW y \in Nat, NEW z \in Nat, NEW i \in 1 .. s, NEW j \in 1 .. s,
           (y - 1) * s + i = (z - 1) * s + j
    PROVE  y = z /\ i = j
<1>1. (y - 1) * s \in Int /\ (z - 1) * s \in Int
  OBVIOUS
<1>2. ~ (y < z)
  <2>1. SUFFICES ASSUME y < z PROVE FALSE
    OBVIOUS
  <2>2. (y - 1) * s + s <= (z - 1) * s
    BY <2>1, LinesInOrder
  <2>3. QED
    BY <1>1, <2>2
<1>3. ~ (z < y)
  <2>1. SUFFICES ASSUME z < y PROVE FALSE
    OBVIOUS
  <2>2. (z - 1) * s + s <= (y - 1) * s
    BY <2>1, LinesInOrder
  <2>3. QED
    BY <1>1, <2>2
<1>4. QED
  BY <1>1, <1>2, <1>3

(* A byte of a pixel is the same byte of every pixel it belongs to.        *)
LEMMA OnePixel ==
    ASSUME NEW h, h.width \in Nat, h.height \in Nat,
           NEW y \in 1 .. h.height, NEW x \in 1 .. h.width, NEW k \in 1 .. Bpp(h), NEW l \in {1, 3},
           OfPixel(h, (y - 1) * ScanLen(h) + 1 + (x - 1) * Bpp(h) + k, l)
    PROVE  k = l
<1>1. PICK z \in 1 .. h.height, v \in 1 .. h.width :
        (y - 1) * ScanLen(h) + 1 + (x - 1) * Bpp(h) + k
          = (z - 1) * ScanLen(h) + 1 + (v - 1) * Bpp(h) + l
  BY DEF OfPixel
<1>2. l \in 1 .. Bpp(h)
  BY Depth
<1>3. /\ 1 + (x - 1) * Bpp(h) + k \in 1 .. ScanLen(h)
      /\ 1 + (v - 1) * Bpp(h) + l \in 1 .. ScanLen(h)
      /\ ScanLen(h) \in Nat
  BY <1>2, InLine, Depth
<1>4. 1 + (x - 1) * Bpp(h) + k = 1 + (v - 1) * Bpp(h) + l
  <2> DEFINE i == 1 + (x - 1) * Bpp(h) + k
             j == 1 + (v - 1) * Bpp(h) + l
  <2>1. (y - 1) * ScanLen(h) \in Int /\ (z - 1) * ScanLen(h) \in Int
    BY <1>3
  <2>2. (y - 1) * ScanLen(h) + i = (z - 1) * ScanLen(h) + j
    BY <1>1, <1>2, <1>3, <2>1, InLine
  <2>3. i \in 1 .. ScanLen(h) /\ j \in 1 .. ScanLen(h)
    BY <1>3
  <2> HIDE DEF i, j
  <2>4. i = j
    BY <1>3, <2>2, <2>3, SameLine
  <2>5. QED
    BY <2>4 DEF i, j
<1>5. CASE Bpp(h) = 3
  BY <1>4, <1>5
<1>6. CASE Bpp(h) = 4
  BY <1>4, <1>6
<1>7. QED
  BY <1>5, <1>6, Depth

(* The filter of a line is no byte of a pixel.                             *)
LEMMA NoFilterOfPixel ==
    ASSUME NEW h, h.width \in Nat, h.height \in Nat, NEW y \in 1 .. h.height, NEW l \in {1, 3}
    PROVE  ~OfPixel(h, (y - 1) * ScanLen(h) + 1, l)
<1>1. SUFFICES ASSUME NEW z \in 1 .. h.height, NEW v \in 1 .. h.width,
                      (y - 1) * ScanLen(h) + 1
                        = (z - 1) * ScanLen(h) + 1 + (v - 1) * Bpp(h) + l
               PROVE  FALSE
  BY DEF OfPixel
<1>2. l \in 1 .. Bpp(h)
  BY Depth
<1>3. /\ 1 + (v - 1) * Bpp(h) + l \in 2 .. ScanLen(h)
      /\ 1 \in 1 .. ScanLen(h) /\ ScanLen(h) \in Nat
  BY <1>2, InLine, Depth
<1>4. (y - 1) * ScanLen(h) \in Int /\ (z - 1) * ScanLen(h) \in Int
  BY <1>3
<1>5. (y - 1) * ScanLen(h) + 1 = (z - 1) * ScanLen(h) + (1 + (v - 1) * Bpp(h) + l)
  BY <1>1, <1>2, <1>3, <1>4, InLine
<1>6. 1 = 1 + (v - 1) * Bpp(h) + l
  BY <1>3, <1>5, SameLine
<1>7. QED
  BY <1>3, <1>6

-----------------------------------------------------------------------------
(* Swapping the bytes swaps the colours. *)

(* The data the header promises: Swapped stays within them. *)
Promised(h, raw) ==
    /\ h.width \in Nat /\ h.height \in Nat
    /\ Len(raw) \in Nat /\ DOMAIN raw = 1 .. Len(raw)
    /\ Len(raw) >= ScanLen(h) * h.height

(* Where byte k of pixel x in line y is *)
Byte(h, y, x, k) == (y - 1) * ScanLen(h) + 1 + (x - 1) * Bpp(h) + k

(* A number of bytes that fits an int is not changed. *)
LEMMA AsIntFits ==
    ASSUME NEW n \in Nat, n <= MaxInt
    PROVE  AsInt(n) = n
<1>1. PICK half \in Nat : half = MaxInt + 1
  BY MaxIntAssumption
<1>2. n + half \in Nat /\ n + half < 2 * half /\ 2 * half \in Nat \ {0}
  BY <1>1, MaxIntAssumption
<1>3. (n + half) % (2 * half) = n + half
  BY <1>2
<1>4. QED
  BY <1>1, <1>3, MaxIntAssumption DEF AsInt

(* The bytes of every pixel and the filter of every line are among the     *)
(* data.                                                                   *)
LEMMA InData ==
    ASSUME NEW h, NEW raw, Promised(h, raw),
           NEW y \in 1 .. h.height, NEW x \in 1 .. h.width, NEW k \in 1 .. Bpp(h)
    PROVE  Byte(h, y, x, k) \in DOMAIN raw /\ (y - 1) * ScanLen(h) + 1 \in DOMAIN raw
<1>1. /\ 1 <= (x - 1) * Bpp(h) + k
      /\ 1 + (x - 1) * Bpp(h) + k <= ScanLen(h)
      /\ ScanLen(h) \in Nat /\ (x - 1) * Bpp(h) \in Nat
  BY InLine DEF Promised
<1>2. (y - 1) * ScanLen(h) + ScanLen(h) <= h.height * ScanLen(h)
  <2>1. h.height + 1 \in Nat /\ y \in Nat /\ y < h.height + 1 /\ (h.height + 1) - 1 = h.height
    BY DEF Promised
  <2>2. (y - 1) * ScanLen(h) + ScanLen(h) <= ((h.height + 1) - 1) * ScanLen(h)
    BY <1>1, <2>1, LinesInOrder
  <2>3. QED
    BY <2>1, <2>2
<1>3. (y - 1) * ScanLen(h) \in Nat /\ h.height * ScanLen(h) = ScanLen(h) * h.height
  BY <1>1 DEF Promised
<1>4. PICK line \in Nat, pixel \in Nat, all \in Nat, len \in Nat :
        /\ line = (y - 1) * ScanLen(h) /\ pixel = (x - 1) * Bpp(h)
        /\ all = ScanLen(h) * h.height /\ len = ScanLen(h)
  BY <1>1, <1>3 DEF Promised
<1>5. line + len <= all
  BY <1>2, <1>3, <1>4
<1>6. 1 <= pixel + k /\ 1 + pixel + k <= len /\ all <= Len(raw)
  BY <1>1, <1>4 DEF Promised
<1>7. k \in Int /\ Len(raw) \in Int
  BY Depth DEF Promised
<1>8. line + 1 + pixel + k \in 1 .. Len(raw) /\ line + 1 \in 1 .. Len(raw)
  BY <1>5, <1>6, <1>7
<1>9. QED
  BY <1>4, <1>8 DEF Promised, Byte

(* The conversion puts byte 3 of a pixel where its byte 1 was and byte 1   *)
(* where its byte 3 was; the others stay.                                  *)
LEMMA SwappedBytes ==
    ASSUME NEW h, NEW raw, Promised(h, raw),
           NEW y \in 1 .. h.height, NEW x \in 1 .. h.width, NEW k \in 1 .. Bpp(h)
    PROVE  Swapped(h, raw)[Byte(h, y, x, k)] =
             raw[Byte(h, y, x, IF k = 1 THEN 3 ELSE IF k = 3 THEN 1 ELSE k)]
<1> DEFINE i == Byte(h, y, x, k)
<1>1. i \in DOMAIN raw
  BY InData
<1>2. \A l \in {1, 3} : OfPixel(h, i, l) => k = l
  BY OnePixel DEF Byte, Promised
<1>3. \A l \in {1, 3} : k = l => OfPixel(h, i, l)
  BY DEF OfPixel, Byte
<1>4. /\ k = 1 => i + 2 = Byte(h, y, x, 3)
      /\ k = 3 => i - 2 = Byte(h, y, x, 1)
  <2>1. (y - 1) * ScanLen(h) \in Int /\ (x - 1) * Bpp(h) \in Int
    BY InLine, Depth DEF Promised
  <2>2. QED
    BY <2>1 DEF Byte
<1> HIDE DEF i
<1>5. Swapped(h, raw)[i] = CASE k = 1 -> raw[i + 2] [] k = 3 -> raw[i - 2] [] OTHER -> raw[i]
  BY <1>1, <1>2, <1>3 DEF Swapped
<1>6. CASE k = 1
  BY <1>4, <1>5, <1>6 DEF i
<1>7. CASE k = 3
  BY <1>4, <1>5, <1>7 DEF i
<1>8. CASE k # 1 /\ k # 3
  BY <1>5, <1>8 DEF i
<1>9. QED
  BY <1>6, <1>7, <1>8

(* It leaves the filter of every line.                                     *)
LEMMA FiltersStay ==
    ASSUME NEW h, NEW raw, Promised(h, raw), NEW y \in 1 .. h.height,
           (y - 1) * ScanLen(h) + 1 \in DOMAIN raw
    PROVE  Swapped(h, raw)[(y - 1) * ScanLen(h) + 1] = raw[(y - 1) * ScanLen(h) + 1]
<1>1. ~OfPixel(h, (y - 1) * ScanLen(h) + 1, 1) /\ ~OfPixel(h, (y - 1) * ScanLen(h) + 1, 3)
  BY NoFilterOfPixel DEF Promised
<1>2. QED
  BY <1>1 DEF Swapped

(* As many bytes as the header says *)
IsPixel(h, p) == p = [k \in 1 .. Bpp(h) |-> p[k]]

(* A pixel whose colours are swapped is a pixel, and its bytes are         *)
(* swapped.                                                                *)
LEMMA BlueFirstBytes ==
    ASSUME NEW h, NEW p, IsPixel(h, p)
    PROVE  /\ IsPixel(h, BlueFirst(p))
           /\ \A k \in 1 .. Bpp(h) :
                BlueFirst(p)[k] = p[IF k = 1 THEN 3 ELSE IF k = 3 THEN 1 ELSE k]
BY Depth DEF IsPixel, BlueFirst

(* One byte of a pixel with its filter undone *)
Undone(h, raw, y, x, a, b, c, k) ==
    (raw[Byte(h, y, x, k)] + Predict(raw[(y - 1) * ScanLen(h) + 1], a[k], b[k], c[k])) % Base

(* A decoder looks for the bytes where the conversion does.                *)
LEMMA UndoBytes ==
    ASSUME NEW h, h.width \in Nat, NEW raw, NEW y, NEW x, NEW a, NEW b, NEW c
    PROVE  Undo(h, raw, y, x, a, b, c) = [k \in 1 .. Bpp(h) |-> Undone(h, raw, y, x, a, b, c, k)]
<1>1. Stride(h) = ScanLen(h)
  BY Depth DEF Stride, ScanLen
<1>2. QED
  BY <1>1 DEF Undo, Undone, Byte

(* Pixels with the same bytes are the same.                                *)
LEMMA SamePixel ==
    ASSUME NEW h, NEW p, IsPixel(h, p), NEW q, IsPixel(h, q), \A k \in 1 .. Bpp(h) : p[k] = q[k]
    PROVE  p = q
BY DEF IsPixel

(* Filters look at one channel of three pixels. *)
LEMMA UndoSwapped ==
    ASSUME NEW h, NEW raw, Promised(h, raw), NEW y \in 1 .. h.height, NEW x \in 1 .. h.width,
           NEW a, IsPixel(h, a), NEW b, IsPixel(h, b), NEW c, IsPixel(h, c)
    PROVE  /\ IsPixel(h, Undo(h, raw, y, x, a, b, c))
           /\ Undo(h, Swapped(h, raw), y, x, BlueFirst(a), BlueFirst(b), BlueFirst(c))
                = BlueFirst(Undo(h, raw, y, x, a, b, c))
<1> DEFINE before == Undo(h, raw, y, x, a, b, c)
           after == Undo(h, Swapped(h, raw), y, x, BlueFirst(a), BlueFirst(b), BlueFirst(c))
<1>1. /\ before = [k \in 1 .. Bpp(h) |-> Undone(h, raw, y, x, a, b, c, k)]
      /\ after = [k \in 1 .. Bpp(h) |->
                    Undone(h, Swapped(h, raw), y, x, BlueFirst(a), BlueFirst(b), BlueFirst(c), k)]
  BY UndoBytes DEF Promised
<1>2. Swapped(h, raw)[(y - 1) * ScanLen(h) + 1] = raw[(y - 1) * ScanLen(h) + 1]
  <2>1. 1 \in 1 .. Bpp(h)
    BY Depth
  <2>2. QED
    BY <2>1, InData, FiltersStay
<1> HIDE DEF before, after
<1>3. IsPixel(h, before) /\ IsPixel(h, after)
  BY <1>1 DEF IsPixel
<1>4. ASSUME NEW k \in 1 .. Bpp(h) PROVE after[k] = BlueFirst(before)[k]
  <2> DEFINE l == IF k = 1 THEN 3 ELSE IF k = 3 THEN 1 ELSE k
  <2>1. l \in 1 .. Bpp(h)
    BY Depth
  <2>2. /\ BlueFirst(a)[k] = a[l] /\ BlueFirst(b)[k] = b[l] /\ BlueFirst(c)[k] = c[l]
        /\ BlueFirst(before)[k] = before[l]
    <3>1. \A p : IsPixel(h, p) => BlueFirst(p)[k] = p[l]
      BY BlueFirstBytes
    <3> HIDE DEF l
    <3>2. QED
      BY <1>3, <3>1
  <2>3. Swapped(h, raw)[Byte(h, y, x, k)] = raw[Byte(h, y, x, l)]
    BY SwappedBytes
  <2> HIDE DEF l
  <2>4. Undone(h, Swapped(h, raw), y, x, BlueFirst(a), BlueFirst(b), BlueFirst(c), k)
          = Undone(h, raw, y, x, a, b, c, l)
    BY <1>2, <2>2, <2>3 DEF Undone
  <2>5. QED
    BY <1>1, <2>1, <2>2, <2>4
<1>5. after = BlueFirst(before)
  BY <1>3, <1>4, BlueFirstBytes, SamePixel
<1>6. QED
  BY <1>3, <1>5 DEF before, after

(* So does a decoder's line, if the line above was swapped. *)
LEMMA LineSwapped ==
    ASSUME NEW h, NEW raw, Promised(h, raw), NEW y \in 1 .. h.height, NEW above, NEW blue,
           \A x \in 0 .. h.width : IsPixel(h, above[x]) /\ blue[x] = BlueFirst(above[x])
    PROVE  \A x \in 0 .. h.width :
             /\ IsPixel(h, Line(h, raw, y, above)[x])
             /\ Line(h, Swapped(h, raw), y, blue)[x] = BlueFirst(Line(h, raw, y, above)[x])
<1> DEFINE before == Line(h, raw, y, above)
           after == Line(h, Swapped(h, raw), y, blue)
           S == {x \in Nat : x <= h.width => IsPixel(h, before[x]) /\ after[x] = BlueFirst(before[x])}
<1>1. h.width \in Nat
  BY DEF Promised
<1>2. /\ before[0] = Black(h) /\ after[0] = Black(h)
      /\ \A x \in 1 .. h.width :
           /\ before[x] = Undo(h, raw, y, x, before[x - 1], above[x], above[x - 1])
           /\ after[x] = Undo(h, Swapped(h, raw), y, x, after[x - 1], blue[x], blue[x - 1])
  BY <1>1, LineLoop
<1> HIDE DEF before, after
<1>3. IsPixel(h, Black(h)) /\ BlueFirst(Black(h)) = Black(h)
  BY Depth DEF IsPixel, Black, BlueFirst
<1>4. 0 \in S
  BY <1>2, <1>3
<1>5. ASSUME NEW n \in Nat, n \in S PROVE n + 1 \in S
  <2>1. SUFFICES ASSUME n + 1 <= h.width
                 PROVE  /\ IsPixel(h, before[n + 1])
                        /\ after[n + 1] = BlueFirst(before[n + 1])
    OBVIOUS
  <2>2. n + 1 \in 1 .. h.width /\ n \in 0 .. h.width /\ n + 1 \in 0 .. h.width /\ (n + 1) - 1 = n
    BY <1>1, <2>1
  <2>3. IsPixel(h, before[n]) /\ after[n] = BlueFirst(before[n])
    BY <1>5, <2>2
  <2>4. /\ before[n + 1] = Undo(h, raw, y, n + 1, before[n], above[n + 1], above[n])
        /\ after[n + 1] = Undo(h, Swapped(h, raw), y, n + 1, after[n], blue[n + 1], blue[n])
    BY <1>2, <2>2
  <2>5. QED
    BY <2>2, <2>3, <2>4, UndoSwapped
<1>6. Nat \subseteq S
  <2> HIDE DEF S
  <2>1. QED
    BY <1>4, <1>5, Induction
<1>7. QED
  BY <1>1, <1>6 DEF before, after

(* And the picture: what it shows of the swapped bytes are swapped pixels. *)
LEMMA PictureSwapped ==
    ASSUME NEW h, NEW raw, Promised(h, raw)
    PROVE  \A y \in 0 .. h.height, x \in 0 .. h.width :
             Pixels(h, Swapped(h, raw))[y][x] = BlueFirst(Pixels(h, raw)[y][x])
<1> DEFINE before == Pixels(h, raw)
           after == Pixels(h, Swapped(h, raw))
           Same(y) == \A x \in 0 .. h.width :
                        IsPixel(h, before[y][x]) /\ after[y][x] = BlueFirst(before[y][x])
           S == {y \in Nat : y <= h.height => Same(y)}
<1>1. h.width \in Nat /\ h.height \in Nat
  BY DEF Promised
<1>2. /\ before[0] = BlackLine(h) /\ after[0] = BlackLine(h)
      /\ \A y \in 1 .. h.height : /\ before[y] = Line(h, raw, y, before[y - 1])
                                   /\ after[y] = Line(h, Swapped(h, raw), y, after[y - 1])
  BY <1>1, PixelsLoop
<1> HIDE DEF before, after
<1>3. IsPixel(h, Black(h)) /\ BlueFirst(Black(h)) = Black(h)
  BY Depth DEF IsPixel, Black, BlueFirst
<1>4. 0 \in S
  BY <1>1, <1>2, <1>3 DEF BlackLine
<1>5. ASSUME NEW n \in Nat, n \in S PROVE n + 1 \in S
  <2>1. SUFFICES ASSUME n + 1 <= h.height PROVE Same(n + 1)
    OBVIOUS
  <2>2. n + 1 \in 1 .. h.height /\ (n + 1) - 1 = n
    BY <1>1, <2>1
  <2>3. Same(n)
    BY <1>1, <1>5, <2>1
  <2>4. /\ before[n + 1] = Line(h, raw, n + 1, before[n])
        /\ after[n + 1] = Line(h, Swapped(h, raw), n + 1, after[n])
    BY <1>2, <2>2
  <2>5. QED
    BY <2>2, <2>3, <2>4, LineSwapped
<1>6. Nat \subseteq S
  <2> HIDE DEF S
  <2>1. QED
    BY <1>4, <1>5, Induction
<1>7. \A y \in 0 .. h.height : Same(y)
  BY <1>1, <1>6
<1>8. QED
  BY <1>7 DEF before, after

-----------------------------------------------------------------------------
(* Compressed streams *)

(* Data, with no end of a stream among them *)
Unmarked(s) == s \in Seq(Int) /\ \A i \in 1 .. Len(s) : s[i] # End

(* The first mark is one, and nothing before it is.                        *)
LEMMA FirstEnd ==
    ASSUME NEW s \in Seq(Int), Ends(s) # {}
    PROVE  /\ Min(Ends(s)) \in 1 .. Len(s) /\ s[Min(Ends(s))] = End
           /\ \A i \in 1 .. Min(Ends(s)) - 1 : s[i] # End
<1>1. Ends(s) \in SUBSET Nat
  BY DEF Ends
<1>2. \E m \in Ends(s) : \A i \in Ends(s) : m <= i
  BY <1>1, LeastOf
<1>3. Min(Ends(s)) \in Ends(s) /\ \A i \in Ends(s) : Min(Ends(s)) <= i
  BY <1>2 DEF Min
<1> DEFINE m == Min(Ends(s))
<1> HIDE DEF m
<1>4. m \in Ends(s) /\ \A i \in Ends(s) : m <= i
  BY <1>3 DEF m
<1>5. m \in 1 .. Len(s) /\ s[m] = End /\ \A i \in 1 .. m - 1 : s[i] # End
  BY <1>4 DEF Ends
<1>6. QED
  BY <1>5 DEF m

(* What is read stops at the first mark. *)
LEMMA InflateReads ==
    ASSUME NEW s \in Seq(Int), CanInflate(s)
    PROVE  Unmarked(Inflate(s))
<1> DEFINE m == Min(Ends(s)) - 1
<1>1. m \in 0 .. Len(s) - 1 /\ \A i \in 1 .. m : s[i] # End
  BY FirstEnd DEF CanInflate
<1>2. Inflate(s) = SubSeq(s, 2, m)
  BY DEF Inflate
<1> HIDE DEF m
<1>3. /\ SubSeq(s, 2, m) \in Seq(Int)
      /\ Len(SubSeq(s, 2, m)) = IF 2 <= m THEN m - 1 ELSE 0
      /\ \A i \in 1 .. m - 1 : SubSeq(s, 2, m)[i] = s[i + 1]
  BY <1>1
<1>4. QED
  BY <1>1, <1>2, <1>3 DEF Unmarked

(* What was compressed is read again, whatever follows. *)
LEMMA InflateDeflate ==
    ASSUME NEW raw, Unmarked(raw), NEW rest \in Seq(Int)
    PROVE  Inflate(Deflate(raw) \o rest) = raw
<1> DEFINE s == Deflate(raw) \o rest
<1>1. /\ s \in Seq(Int) /\ Len(s) = Len(raw) + 2 + Len(rest)
      /\ s[1] = Begin /\ s[Len(raw) + 2] = End
      /\ \A i \in 1 .. Len(raw) : s[i + 1] = raw[i]
  BY DEF Deflate, Unmarked, Begin, End
<1>2. Len(raw) \in Nat /\ Len(rest) \in Nat /\ raw \in Seq(Int)
  BY DEF Unmarked
<1>3. \A i \in 1 .. Len(raw) + 1 : s[i] # End
  <2>1. ASSUME NEW i \in 2 .. Len(raw) + 1 PROVE s[i] # End
    <3>1. i - 1 \in 1 .. Len(raw) /\ (i - 1) + 1 = i
      BY <1>2
    <3>2. QED
      BY <1>1, <3>1 DEF Unmarked
  <2>2. s[1] # End
    BY <1>1 DEF Begin, End
  <2> HIDE DEF s
  <2>3. \A i \in 1 .. Len(raw) + 1 : i = 1 \/ i \in 2 .. Len(raw) + 1
    BY <1>2
  <2>4. QED
    BY <2>1, <2>2, <2>3
<1> HIDE DEF s
<1>4. Ends(s) # {}
  BY <1>1, <1>2 DEF Ends
<1>5. Min(Ends(s)) = Len(raw) + 2
  <2> DEFINE m == Min(Ends(s))
  <2>1. m \in 1 .. Len(s) /\ s[m] = End /\ \A i \in 1 .. m - 1 : s[i] # End
    BY <1>1, <1>4, FirstEnd
  <2> HIDE DEF m
  <2>2. ~ (m < Len(raw) + 2)
    BY <1>2, <1>3, <2>1
  <2>3. ~ (Len(raw) + 2 < m)
    BY <1>1, <1>2, <2>1
  <2>4. m = Len(raw) + 2
    BY <1>1, <1>2, <2>1, <2>2, <2>3
  <2>5. QED
    BY <2>4 DEF m
<1>6. SubSeq(s, 2, Len(raw) + 1) = raw
  <2>1. /\ SubSeq(s, 2, Len(raw) + 1) \in Seq(Int)
        /\ Len(SubSeq(s, 2, Len(raw) + 1)) = Len(raw)
        /\ \A i \in 1 .. Len(raw) : SubSeq(s, 2, Len(raw) + 1)[i] = s[i + 1]
    BY <1>1, <1>2
  <2>2. QED
    BY <1>1, <1>2, <2>1, SeqEqual
<1>7. Inflate(s) = raw
  BY <1>2, <1>5, <1>6 DEF Inflate
<1>8. QED
  BY <1>7 DEF s

(* A compressed stream begins with zlib's header, and behind it lies what  *)
(* was compressed.                                                         *)
LEMMA ZlibStream ==
    ASSUME NEW raw, Unmarked(raw)
    PROVE  /\ Zlib(raw) \in Seq(Int) /\ Zlib(raw) # <<>> /\ Zlib(raw)[1] = Header
           /\ Inflate(Tail(Zlib(raw))) = raw
<1>1. Deflate(raw) \in Seq(Int) /\ <<Header>> \in Seq(Int) /\ <<Checksum>> \in Seq(Int)
  BY DEF Deflate, Unmarked, Begin, End, Header, Checksum
<1> DEFINE d == Deflate(raw) \o <<Checksum>>
<1>2. d \in Seq(Int) /\ Zlib(raw) = <<Header>> \o d
  BY <1>1, ConcatAssociative DEF Zlib
<1> HIDE DEF d
<1>3. /\ Tail(<<Header>> \o d) = d /\ (<<Header>> \o d)[1] = Header
      /\ <<Header>> \o d # <<>> /\ <<Header>> \o d \in Seq(Int)
  BY <1>1, <1>2
<1>4. Inflate(d) = raw
  BY <1>1, InflateDeflate DEF d
<1> HIDE DEF d
<1>5. QED
  BY <1>2, <1>3, <1>4, Zenon

(* Swapping moves bytes about and makes no mark. *)
LEMMA SwappedStream ==
    ASSUME NEW h, NEW raw, Unmarked(raw), Promised(h, raw)
    PROVE  Unmarked(Swapped(h, raw))
<1>1. ASSUME NEW i \in 1 .. Len(raw)
      PROVE  \E j \in 1 .. Len(raw) : Swapped(h, raw)[i] = raw[j]
  <2>1. CASE OfPixel(h, i, 1)
    <3>1. PICK y \in 1 .. h.height, x \in 1 .. h.width : i = Byte(h, y, x, 1)
      BY <2>1 DEF OfPixel, Byte
    <3>2. 1 \in 1 .. Bpp(h) /\ 3 \in 1 .. Bpp(h)
      BY Depth
    <3>3. Swapped(h, raw)[Byte(h, y, x, 1)] = raw[Byte(h, y, x, 3)]
      BY <3>2, SwappedBytes
    <3>4. Byte(h, y, x, 3) \in DOMAIN raw
      BY <3>2, InData
    <3>5. QED
      BY <3>1, <3>3, <3>4 DEF Promised
  <2>2. CASE OfPixel(h, i, 3)
    <3>1. PICK y \in 1 .. h.height, x \in 1 .. h.width : i = Byte(h, y, x, 3)
      BY <2>2 DEF OfPixel, Byte
    <3>2. 1 \in 1 .. Bpp(h) /\ 3 \in 1 .. Bpp(h)
      BY Depth
    <3>3. Swapped(h, raw)[Byte(h, y, x, 3)] = raw[Byte(h, y, x, 1)]
      BY <3>2, SwappedBytes
    <3>4. Byte(h, y, x, 1) \in DOMAIN raw
      BY <3>2, InData
    <3>5. QED
      BY <3>1, <3>3, <3>4 DEF Promised
  <2>3. CASE ~OfPixel(h, i, 1) /\ ~OfPixel(h, i, 3)
    BY <2>3 DEF Swapped, Promised
  <2>4. QED
    BY <2>1, <2>2, <2>3
<1>2. Swapped(h, raw) = [i \in 1 .. Len(raw) |-> Swapped(h, raw)[i]]
  BY DEF Swapped, Promised
<1>3. \A i \in 1 .. Len(raw) : Swapped(h, raw)[i] \in Int /\ Swapped(h, raw)[i] # End
  BY <1>1 DEF Unmarked
<1>4. Swapped(h, raw) \in Seq(Int) /\ Len(Swapped(h, raw)) = Len(raw)
  <2> DEFINE t == Swapped(h, raw)
  <2>1. t \in [1 .. Len(raw) -> Int] /\ Len(raw) \in Nat
    BY <1>2, <1>3 DEF Promised
  <2> HIDE DEF t
  <2>2. t \in Seq(Int) /\ Len(t) = Len(raw)
    BY <2>1
  <2>3. QED
    BY <2>2 DEF t
<1>5. QED
  BY <1>3, <1>4 DEF Unmarked

-----------------------------------------------------------------------------
(* Chunks *)

(* What the first pass reads of a sequence of chunks *)
Read(chunks) == FirstPass(chunks)[Len(chunks)]
ReadType == [hasCgBI : BOOLEAN, idat : Seq(Int), ihdr : IHDRData]
HasIDAT(chunks, n) == \E m \in 1 .. n : chunks[m].typ = "IDAT"

(* An IHDR holds a header, every other chunk bytes.                        *)
LEMMA ChunkData ==
    ASSUME NEW c \in Chunk
    PROVE  /\ c.typ = "IHDR" => c.data \in IHDRData
           /\ c.typ # "IHDR" => c.data \in Seq(Int)
BY DEF Chunk

(* Data that are put into a chunk leave its type. *)
LEMMA ChunkChanged ==
    ASSUME NEW c \in Chunk, c.typ = "IDAT", NEW data \in Seq(Int)
    PROVE  /\ [c EXCEPT !.data = data] \in Chunk
           /\ [c EXCEPT !.data = data].typ = "IDAT" /\ [c EXCEPT !.data = data].data = data
BY DEF Chunk

(* What was read does not depend on what follows. *)
LEMMA FirstPassPrefix ==
    ASSUME NEW s, NEW t, Len(s) \in Nat, Len(t) \in Nat, Len(s) <= Len(t),
           \A i \in 1 .. Len(s) : s[i] = t[i]
    PROVE  \A n \in 0 .. Len(s) : FirstPass(s)[n] = FirstPass(t)[n]
<1> DEFINE f == FirstPass(s)
           g == FirstPass(t)
           S == {n \in Nat : n <= Len(s) => f[n] = g[n]}
<1>1. /\ f[0] = NothingRead /\ g[0] = NothingRead
      /\ \A n \in 1 .. Len(s) : f[n] = Scan(f[n - 1], s[n]) /\ g[n] = Scan(g[n - 1], t[n])
  BY FirstPassLoop
<1> HIDE DEF f, g
<1>2. 0 \in S
  BY <1>1
<1>3. ASSUME NEW n \in Nat, n \in S PROVE n + 1 \in S
  <2>1. SUFFICES ASSUME n + 1 <= Len(s) PROVE f[n + 1] = g[n + 1]
    OBVIOUS
  <2>2. n + 1 \in 1 .. Len(s) /\ (n + 1) - 1 = n /\ f[n] = g[n]
    BY <1>3, <2>1
  <2>3. QED
    BY <1>1, <2>2
<1>4. Nat \subseteq S
  <2> HIDE DEF S
  <2>1. QED
    BY <1>2, <1>3, Induction
<1>5. QED
  BY <1>4 DEF f, g

(* Nothing is read of no chunks, and the last chunk is read last.          *)
LEMMA ReadAppend ==
    /\ Read(<<>>) = NothingRead
    /\ \A s \in Seq(Chunk), c \in Chunk : Read(Append(s, c)) = Scan(Read(s), c)
<1>1. Read(<<>>) = NothingRead
  BY FirstPassLoop DEF Read
<1>2. ASSUME NEW s \in Seq(Chunk), NEW c \in Chunk
      PROVE  Read(Append(s, c)) = Scan(Read(s), c)
  <2> DEFINE t == Append(s, c)
  <2>1. /\ Len(s) \in Nat /\ Len(t) = Len(s) + 1 /\ t[Len(s) + 1] = c
        /\ \A i \in 1 .. Len(s) : s[i] = t[i]
    OBVIOUS
  <2> HIDE DEF t
  <2>2. FirstPass(s)[Len(s)] = FirstPass(t)[Len(s)]
    BY <2>1, FirstPassPrefix
  <2>3. FirstPass(t)[Len(t)] = Scan(FirstPass(t)[Len(s)], c)
    BY <2>1, FirstPassLoop
  <2>4. QED
    BY <2>2, <2>3 DEF Read, t
<1>3. QED
  BY <1>1, <1>2

(* A file without chunks has a header of zeros and no data.                *)
LEMMA NothingReadType == NothingRead \in ReadType /\ NothingRead.idat = <<>>
<1>1. [width |-> 0, height |-> 0, depth |-> 0, color |-> 0] \in IHDRData
  BY DEF IHDRData
<1>2. <<>> \in Seq(Int)
  OBVIOUS
<1>3. QED
  BY <1>1, <1>2 DEF NothingRead, ReadType

(* What a chunk adds *)
LEMMA ScanReads ==
    ASSUME NEW r \in ReadType, NEW c \in Chunk
    PROVE  /\ Scan(r, c) \in ReadType
           /\ Scan(r, c).hasCgBI = (r.hasCgBI \/ c.typ = "CgBI")
           /\ Scan(r, c).ihdr = IF c.typ = "IHDR" THEN c.data ELSE r.ihdr
           /\ Scan(r, c).idat = IF c.typ = "IDAT" THEN r.idat \o c.data ELSE r.idat
<1>1. CASE c.typ = "CgBI"
  BY <1>1 DEF Scan, ReadType
<1>2. CASE c.typ = "IHDR"
  BY <1>2, ChunkData DEF Scan, ReadType
<1>3. CASE c.typ = "IDAT"
  <2>1. c.data \in Seq(Int)
    BY <1>3, ChunkData
  <2>2. r.idat \o c.data \in Seq(Int)
    BY <2>1 DEF ReadType
  <2>3. QED
    BY <1>3, <2>2 DEF Scan, ReadType
<1>4. CASE c.typ \notin {"CgBI", "IHDR", "IDAT"}
  BY <1>4 DEF Scan, ReadType
<1>5. QED
  BY <1>1, <1>2, <1>3, <1>4

(* What the first pass knows after n chunks *)
LEMMA FirstPassReads ==
    ASSUME NEW chunks \in Seq(Chunk)
    PROVE  \A n \in 0 .. Len(chunks) :
             /\ FirstPass(chunks)[n] \in ReadType
             /\ FirstPass(chunks)[n].idat # <<>> => HasIDAT(chunks, n)
<1> DEFINE f == FirstPass(chunks)
           S == {n \in Nat : n <= Len(chunks) =>
                   f[n] \in ReadType /\ (f[n].idat # <<>> => HasIDAT(chunks, n))}
<1>1. /\ f[0] = NothingRead
      /\ \A n \in 1 .. Len(chunks) : f[n] = Scan(f[n - 1], chunks[n])
  BY FirstPassLoop
<1> HIDE DEF f
<1>2. 0 \in S
  BY <1>1, NothingReadType
<1>3. ASSUME NEW n \in Nat, n \in S PROVE n + 1 \in S
  <2>1. SUFFICES ASSUME n + 1 <= Len(chunks)
                 PROVE  /\ f[n + 1] \in ReadType
                        /\ f[n + 1].idat # <<>> => HasIDAT(chunks, n + 1)
    OBVIOUS
  <2>2. /\ n + 1 \in 1 .. Len(chunks) /\ (n + 1) - 1 = n
        /\ f[n] \in ReadType /\ (f[n].idat # <<>> => HasIDAT(chunks, n))
    BY <1>3, <2>1
  <2>3. chunks[n + 1] \in Chunk /\ f[n + 1] = Scan(f[n], chunks[n + 1])
    BY <1>1, <2>2
  <2>4. f[n + 1].idat # <<>> => f[n].idat # <<>> \/ chunks[n + 1].typ = "IDAT"
    BY <2>2, <2>3, ScanReads
  <2>5. f[n + 1] \in ReadType
    BY <2>2, <2>3, ScanReads
  <2>6. HasIDAT(chunks, n) \/ chunks[n + 1].typ = "IDAT" => HasIDAT(chunks, n + 1)
    BY DEF HasIDAT
  <2>7. QED
    BY <2>2, <2>4, <2>5, <2>6
<1>4. Nat \subseteq S
  <2> HIDE DEF S
  <2>1. QED
    BY <1>2, <1>3, Induction
<1>5. QED
  BY <1>4 DEF f

(* What the second pass has written after n chunks *)
Kept(chunks, data, n, out) ==
    /\ out \in Seq(Chunk) /\ \A i \in 1 .. Len(out) : out[i].typ # "CgBI"
    /\ Read(out) \in ReadType /\ ~Read(out).hasCgBI
    /\ Read(out).ihdr = FirstPass(chunks)[n].ihdr
    /\ Read(out).idat = IF HasIDAT(chunks, n) THEN data ELSE <<>>

(* A chunk that is written is read back. *)
LEMMA KeptAppend ==
    ASSUME NEW chunks \in Seq(Chunk), NEW data \in Seq(Int), NEW n \in 1 .. Len(chunks),
           NEW out, Kept(chunks, data, n - 1, out),
           NEW c \in Chunk, c.typ # "CgBI",
           FirstPass(chunks)[n].ihdr = IF c.typ = "IHDR" THEN c.data ELSE FirstPass(chunks)[n - 1].ihdr,
           HasIDAT(chunks, n) <=> HasIDAT(chunks, n - 1) \/ c.typ = "IDAT",
           c.typ = "IDAT" => c.data = data /\ ~HasIDAT(chunks, n - 1)
    PROVE  Kept(chunks, data, n, Append(out, c))
<1> DEFINE new == Append(out, c)
<1>1. out \in Seq(Chunk) /\ Read(out) \in ReadType
  BY DEF Kept
<1>2. new \in Seq(Chunk) /\ \A i \in 1 .. Len(new) : new[i].typ # "CgBI"
  <2>1. /\ new \in Seq(Chunk) /\ Len(new) = Len(out) + 1 /\ new[Len(out) + 1] = c
        /\ \A i \in 1 .. Len(out) : new[i] = out[i]
    BY <1>1
  <2> HIDE DEF new
  <2>2. Len(out) \in Nat /\ \A i \in 1 .. Len(out) : out[i].typ # "CgBI"
    BY <1>1 DEF Kept
  <2>3. \A i \in 1 .. Len(out) + 1 : i \in 1 .. Len(out) \/ i = Len(out) + 1
    BY <2>2
  <2>4. QED
    BY <2>1, <2>2, <2>3
<1>3. Read(new) = Scan(Read(out), c)
  BY <1>1, ReadAppend
<1> HIDE DEF new
<1>4. /\ Read(new) \in ReadType /\ ~Read(new).hasCgBI
      /\ Read(new).ihdr = FirstPass(chunks)[n].ihdr
  BY <1>1, <1>3, ScanReads DEF Kept
<1>5. Read(new).idat = IF HasIDAT(chunks, n) THEN data ELSE <<>>
  <2>1. CASE c.typ = "IDAT"
    <3>1. Read(out).idat = <<>> /\ <<>> \o data = data
      BY <2>1, ConcatEmptySeq DEF Kept
    <3>2. Read(new).idat = Read(out).idat \o c.data
      BY <1>1, <1>3, <2>1, ScanReads
    <3>3. c.data = data /\ HasIDAT(chunks, n)
      BY <2>1
    <3>4. QED
      BY <3>1, <3>2, <3>3
  <2>2. CASE c.typ # "IDAT"
    BY <1>1, <1>3, <2>2, ScanReads DEF Kept
  <2>3. QED
    BY <2>1, <2>2
<1>6. QED
  BY <1>2, <1>4, <1>5 DEF Kept, new

(* What the second pass writes is read back: the last header it was given, *)
(* the new data if there was a place for them, and no CgBI chunk.          *)
LEMMA SecondPassKeeps ==
    ASSUME NEW chunks \in Seq(Chunk), NEW data \in Seq(Int)
    PROVE  \A n \in 0 .. Len(chunks) : Kept(chunks, data, n, SecondPass(chunks, data)[n])
<1> DEFINE f == FirstPass(chunks)
           out == SecondPass(chunks, data)
           S == {n \in Nat : n <= Len(chunks) => Kept(chunks, data, n, out[n])}
<1>1. /\ f[0] = NothingRead /\ out[0] = <<>>
      /\ \A n \in 1 .. Len(chunks) : /\ f[n] = Scan(f[n - 1], chunks[n])
                                     /\ out[n] = Emit(out[n - 1], chunks, n, data)
  BY FirstPassLoop, SecondPassLoop
<1>2. \A n \in 0 .. Len(chunks) : f[n] \in ReadType
  BY FirstPassReads
<1> HIDE DEF out
<1>3. 0 \in S
  <2>1. Read(<<>>).hasCgBI = FALSE /\ <<>> \in Seq(Chunk) /\ ~HasIDAT(chunks, 0)
    BY ReadAppend DEF NothingRead, HasIDAT
  <2>2. Kept(chunks, data, 0, <<>>)
    BY <1>1, <2>1, ReadAppend, NothingReadType DEF Kept
  <2>3. QED
    BY <1>1, <2>2
<1>4. ASSUME NEW m \in Nat, m \in S PROVE m + 1 \in S
  <2> DEFINE n == m + 1
             c == chunks[n]
  <2>1. SUFFICES ASSUME n <= Len(chunks) PROVE Kept(chunks, data, n, out[n])
    OBVIOUS
  <2>2. n \in 1 .. Len(chunks) /\ n - 1 = m /\ n - 1 \in 0 .. Len(chunks)
    BY <2>1
  <2>3. Kept(chunks, data, n - 1, out[n - 1])
    BY <1>4, <2>1, <2>2
  <2> HIDE DEF n
  <2>4. c \in Chunk /\ out[n] = Emit(out[n - 1], chunks, n, data)
    BY <1>1, <2>2
  <2>5. f[n].ihdr = IF c.typ = "IHDR" THEN c.data ELSE f[n - 1].ihdr
    BY <1>1, <1>2, <2>2, <2>4, ScanReads
  <2>6. /\ HasIDAT(chunks, n) <=> HasIDAT(chunks, n - 1) \/ c.typ = "IDAT"
        /\ IsFirstIDAT(chunks, n) <=> c.typ = "IDAT" /\ ~HasIDAT(chunks, n - 1)
    <3>1. \A i : i \in 1 .. n <=> i \in 1 .. n - 1 \/ i = n
      BY <2>2
    <3>2. QED
      BY <3>1 DEF HasIDAT, IsFirstIDAT
  <2>7. CASE IsFirstIDAT(chunks, n)
    <3> DEFINE new == [c EXCEPT !.data = data]
    <3>1. out[n] = Append(out[n - 1], new)
      BY <2>4, <2>7 DEF Emit
    <3>2. new \in Chunk /\ new.typ = "IDAT" /\ new.data = data
      BY <2>4, <2>6, <2>7, ChunkChanged
    <3> HIDE DEF new
    <3>3. Kept(chunks, data, n, Append(out[n - 1], new))
      BY <2>2, <2>3, <2>5, <2>6, <2>7, <3>2, KeptAppend
    <3>4. QED
      BY <3>1, <3>3
  <2>8. CASE c.typ \in {"CgBI", "IDAT"} /\ ~IsFirstIDAT(chunks, n)
    <3>1. out[n] = out[n - 1]
      BY <2>4, <2>8 DEF Emit
    <3>2. f[n].ihdr = f[n - 1].ihdr /\ (HasIDAT(chunks, n) <=> HasIDAT(chunks, n - 1))
      BY <2>5, <2>6, <2>8
    <3>3. QED
      BY <2>3, <3>1, <3>2 DEF Kept
  <2>9. CASE c.typ \notin {"CgBI", "IDAT"}
    <3>1. out[n] = Append(out[n - 1], c)
      BY <2>4, <2>9 DEF Emit, IsFirstIDAT
    <3>2. Kept(chunks, data, n, Append(out[n - 1], c))
      BY <2>2, <2>3, <2>4, <2>5, <2>6, <2>9, KeptAppend
    <3>3. QED
      BY <3>1, <3>2
  <2>10. QED
    BY <2>6, <2>7, <2>8, <2>9
<1>5. Nat \subseteq S
  <2> HIDE DEF S
  <2>1. QED
    BY <1>3, <1>4, Induction
<1>6. QED
  BY <1>5 DEF out

-----------------------------------------------------------------------------
(* The conversion *)

(* What can be converted has a stream of data, as many as its header       *)
(* promises, and a chunk to put them in.                                   *)
LEMMA ConvertibleReads ==
    ASSUME NEW f \in File, Convertible(f), SizeFits(IHDR(f))
    PROVE  /\ f.chunks \in Seq(Chunk) /\ HasIDAT(f.chunks, Len(f.chunks))
           /\ Unmarked(Inflate(IDAT(f))) /\ Promised(IHDR(f), Inflate(IDAT(f)))
<1>1. f.chunks \in Seq(Chunk) /\ Len(f.chunks) \in Nat
  BY DEF File
<1>2. AllRead(f) \in ReadType /\ (IDAT(f) # <<>> => HasIDAT(f.chunks, Len(f.chunks)))
  BY <1>1, FirstPassReads DEF AllRead, IDAT
<1>3. IDAT(f) \in Seq(Int) /\ IHDR(f) \in IHDRData
  BY <1>2 DEF IDAT, IHDR, ReadType
<1>4. CanInflate(IDAT(f)) /\ Len(Inflate(IDAT(f))) >= ScanLen(IHDR(f)) * IHDR(f).height
  <2>1. Bpp(IHDR(f)) \in Nat /\ IHDR(f).width \in Nat /\ IHDR(f).height \in Nat
    BY <1>3, Depth DEF IHDRData
  <2>2. ScanLen(IHDR(f)) * IHDR(f).height \in Nat
    BY <2>1 DEF ScanLen
  <2>3. AsInt(ScanLen(IHDR(f)) * IHDR(f).height) = ScanLen(IHDR(f)) * IHDR(f).height
    BY <2>2, AsIntFits DEF SizeFits
  <2>4. QED
    BY <2>3 DEF Convertible
<1>5. Unmarked(Inflate(IDAT(f)))
  BY <1>3, <1>4, InflateReads
<1> DEFINE raw == Inflate(IDAT(f))
<1> HIDE DEF raw
<1>6. Unmarked(raw) /\ Len(raw) >= ScanLen(IHDR(f)) * IHDR(f).height
  BY <1>4, <1>5 DEF raw
<1>7. Len(raw) \in Nat /\ DOMAIN raw = 1 .. Len(raw)
  BY <1>6 DEF Unmarked
<1>8. IHDR(f).width \in Nat /\ IHDR(f).height \in Nat
  BY <1>3 DEF IHDRData
<1>9. Promised(IHDR(f), raw)
  BY <1>6, <1>7, <1>8 DEF Promised
<1>10. QED
  BY <1>1, <1>2, <1>4, <1>5, <1>9 DEF CanInflate, raw

(* The file it gives keeps the header, holds the swapped bytes in a zlib   *)
(* stream and no CgBI chunk, and can be shown.                             *)
LEMMA ConversionWrites ==
    ASSUME NEW f \in File, Convertible(f), SizeFits(IHDR(f)), NEW fixed, fixed = NormalizeAppleCgBI(f)
    PROVE  /\ fixed.signature /\ ~HasCgBI(fixed) /\ IHDR(fixed) = IHDR(f)
           /\ IDAT(fixed) = Zlib(Swapped(IHDR(f), Inflate(IDAT(f))))
           /\ fixed.chunks \in Seq(Chunk)
           /\ \A i \in 1 .. Len(fixed.chunks) : fixed.chunks[i].typ # "CgBI"
           /\ ShowsAnywhere(fixed)
<1> DEFINE raw == Swapped(IHDR(f), Inflate(IDAT(f)))
           data == Zlib(raw)
           last == Len(f.chunks)
<1>1. /\ f.chunks \in Seq(Chunk) /\ last \in Nat /\ HasIDAT(f.chunks, last)
      /\ Unmarked(raw)
  BY ConvertibleReads, SwappedStream
<1> HIDE DEF raw
<1>2. data \in Seq(Int) /\ data # <<>> /\ data[1] = Header
  BY <1>1, ZlibStream
<1>3. fixed = [f EXCEPT !.chunks = Rebuilt(f, data)]
  BY DEF NormalizeAppleCgBI, raw
<1>4. fixed.chunks = Rebuilt(f, data) /\ fixed.signature = f.signature
  BY <1>3 DEF File
<1> HIDE DEF data
<1>5. Kept(f.chunks, data, last, fixed.chunks)
  <2>1. last \in 0 .. Len(f.chunks)
    BY <1>1
  <2>2. Kept(f.chunks, data, last, SecondPass(f.chunks, data)[last])
    BY <1>1, <1>2, <2>1, SecondPassKeeps
  <2>3. QED
    BY <1>4, <2>2 DEF Rebuilt
<1>6. ~HasCgBI(fixed) /\ IHDR(fixed) = IHDR(f) /\ IDAT(fixed) = data
  BY <1>1, <1>5 DEF Kept, Read, AllRead, HasCgBI, IHDR, IDAT
<1>7. fixed.signature
  BY <1>4 DEF Convertible
<1>8. ShowsAnywhere(fixed)
  BY <1>2, <1>6, <1>7 DEF ShowsAnywhere
<1>9. QED
  BY <1>5, <1>6, <1>7, <1>8 DEF Kept, data, raw

(* What UIKit showed of the file is what any decoder shows of the new one. *)
LEMMA SamePicture ==
    ASSUME NEW f \in File, Convertible(f), SizeFits(IHDR(f))
    PROVE  ShownAnywhere(NormalizeAppleCgBI(f)) = ShownByApple(f)
<1> DEFINE fixed == NormalizeAppleCgBI(f)
           h == IHDR(f)
           raw == Inflate(IDAT(f))
<1>1. Unmarked(raw) /\ Promised(h, raw)
  BY ConvertibleReads
<1>2. IHDR(fixed) = h /\ IDAT(fixed) = Zlib(Swapped(h, raw))
  BY ConversionWrites
<1> HIDE DEF fixed, h, raw
<1>3. Inflate(Tail(IDAT(fixed))) = Swapped(h, raw)
  BY <1>1, <1>2, SwappedStream, ZlibStream
<1>4. \A y \in 1 .. h.height, x \in 1 .. h.width :
        Pixels(h, Swapped(h, raw))[y][x] = BlueFirst(Pixels(h, raw)[y][x])
  BY <1>1, PictureSwapped DEF Promised
<1>5. ShownAnywhere(fixed)
        = [y \in 1 .. h.height |-> [x \in 1 .. h.width |-> Pixels(h, Swapped(h, raw))[y][x]]]
  BY <1>2, <1>3 DEF ShownAnywhere
<1>6. ShownByApple(f)
        = [y \in 1 .. h.height |-> [x \in 1 .. h.width |-> BlueFirst(Pixels(h, raw)[y][x])]]
  BY DEF ShownByApple, h, raw
<1>7. ShownAnywhere(fixed) = ShownByApple(f)
  BY <1>4, <1>5, <1>6
<1>8. QED
  BY <1>7 DEF fixed

(* Whatever chunks a file has, in whatever order, and whatever its size,   *)
(* filters and bytes: the conversion, a function of the file, keeps the    *)
(* picture and is done once.                                               *)
THEOREM EveryPictureKept == \A f \in File : KeepsPicture(f)
<1> SUFFICES ASSUME NEW f \in File, SizeFits(IHDR(f)) PROVE KeepsPicture(f)
  BY DEF KeepsPicture
<1> DEFINE fixed == NormalizeAppleCgBI(f)
<1>1. CASE Convertible(f)
  <2>1. ~HasCgBI(fixed) /\ ShowsAnywhere(fixed)
    BY <1>1, ConversionWrites
  <2>2. ~IsAppleCgBIPNG(fixed)
    <3>1. /\ fixed.chunks \in Seq(Chunk)
          /\ \A i \in 1 .. Len(fixed.chunks) : fixed.chunks[i].typ # "CgBI"
      BY <1>1, ConversionWrites
    <3> HIDE DEF fixed
    <3>2. fixed.chunks # <<>> => 1 \in 1 .. Len(fixed.chunks)
      BY <3>1
    <3>3. QED
      BY <3>1, <3>2 DEF IsAppleCgBIPNG
  <2>3. ShownAnywhere(fixed) = ShownByApple(f)
    BY <1>1, SamePicture
  <2>4. ~ShowsAnywhere(f)
    BY <1>1 DEF Convertible, ShowsAnywhere
  <2> HIDE DEF fixed
  <2>5. NormalizeAppleCgBI(fixed) = fixed
    BY <2>1 DEF NormalizeAppleCgBI, Convertible
  <2>6. QED
    BY <2>1, <2>2, <2>3, <2>4, <2>5 DEF KeepsPicture, fixed
<1>2. CASE ~Convertible(f)
  BY <1>2 DEF KeepsPicture, NormalizeAppleCgBI
<1>3. QED
  BY <1>1, <1>2

(* The icons of a running server keep their pictures: what the run checks  *)
(* on its samples holds of any set of files.                               *)
THEOREM PictureKept == Spec => []NormalizationKeepsPicture
<1>1. NormalizationKeepsPicture
  BY FilesAssumption, EveryPictureKept DEF NormalizationKeepsPicture
<1>2. QED
  BY <1>1, PTL

=============================================================================
