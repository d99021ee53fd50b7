------------------------------- MODULE Scaler -------------------------------
(***************************************************************************)
(* The scalers of common/scaler.c, which draw a core's frame k times as    *)
(* large into the screen: the C ones, the NEON ones with their unrolled    *)
(* blocks, remainders and loops that end on an equality of pointers, and   *)
(* the line and grid effects.                                              *)
(*                                                                         *)
(* Addresses and pitches are counted in pixels (uint16_t): 4 bytes of      *)
(* alignment is an even number of pixels.  A source pixel is its address,  *)
(* a pixel written is <<source address, shade>>, so two pixels are equal   *)
(* only when they are copies of one pixel.                                 *)
(***************************************************************************)
EXTENDS Integers, Sequences, FiniteSets, TLC

CONSTANT Calls   \* the calls made: [fn, k, sw, sh, sp, dp, src, dst]

VARIABLES
  call,   \* the call in progress, with the defaults of sp and dp filled in
  pc,     \* where it is
  s,      \* source pointer
  d,      \* destination pointer
  left,   \* rows left, and copies of a row left
  mem,    \* memcpy_neon's arguments and position
  out     \* what has been written: a function of the addresses written

vars == <<call, pc, s, d, left, mem, out>>

Fns == {"c16", "n16", "line", "grid"}
Full == "full"      \* the source's own colour
W3_4 == "w3_4"      \* Weight3_1: three quarters of it
W3_5 == "w3_5"      \* Weight3_2
W2_5 == "w2_5"      \* Weight2_3
Shades == {Full, W3_4, W3_5, W2_5}

---------------------------------------------------------------------------
(* What a pixel pair, a NEON register group or a pixel turns into          *)

dpix1 == <<0, 0>>
pix   == <<0, 1>>
dpix2 == <<1, 1>>

\* The words the C scalers store for a pair of pixels.
scale2x_c16 == dpix1 \o dpix2
scale3x_c16 == dpix1 \o pix \o dpix2
scale4x_c16 == dpix1 \o dpix1 \o dpix2 \o dpix2
scale5x_c16 == dpix1 \o dpix1 \o pix \o dpix2 \o dpix2
scale6x_c16 == dpix1 \o dpix1 \o dpix1 \o dpix2 \o dpix2 \o dpix2

Pair(k) == CASE k = 2 -> scale2x_c16 [] k = 3 -> scale3x_c16 [] k = 4 -> scale4x_c16
             [] k = 5 -> scale5x_c16 [] k = 6 -> scale6x_c16

\* Mutant: vext by two lanes where it should be three.
scale3x3_n16ByTwo == [block |-> 16, extra |-> 0,  lanes |-> <<0,0,0,1, 1,1,2,2, 2,2,3,3>>]

\* The NEON loops: pixels loaded per turn, pixels of the one extra block (0:
\* none), and the lanes (vdup, vext) of the registers stored for 4 pixels.
scale2x2_n16    == [block |-> 32, extra |-> 16, lanes |-> <<0,0,1,1, 2,2,3,3>>]
scale3x3_n16    == [block |-> 16, extra |-> 0,  lanes |-> <<0,0,0,1, 1,1,2,2, 2,3,3,3>>]
scale4x4_n16    == [block |-> 16, extra |-> 0,  lanes |-> <<0,0,0,0, 1,1,1,1, 2,2,2,2, 3,3,3,3>>]
scale5x_n16line == [block |-> 8,  extra |-> 0,
                    lanes |-> <<0,0,0,0, 0,1,1,1, 1,1,2,2, 2,2,2,3, 3,3,3,3>>]
scale6x_n16line == [block |-> 8,  extra |-> 0,
                    lanes |-> <<0,0,0,0, 0,0,1,1, 1,1,1,1, 2,2,2,2, 2,2,3,3, 3,3,3,3>>]

Neon(k) == CASE k = 2 -> scale2x2_n16 [] k = 3 -> scale3x3_n16 [] k = 4 -> scale4x4_n16
             [] k = 5 -> scale5x_n16line [] k = 6 -> scale6x_n16line

\* The shades a pixel is drawn in, row by row.
scale2x_line == <<<<Full, Full>>, <<W3_5, W3_5>>>>
scale3x_line == <<<<W3_5, W3_5, W3_5>>, <<Full, Full, Full>>, <<Full, Full, Full>>>>
scale4x_line == <<<<Full, Full, Full, Full>>, <<W3_5, W3_5, W3_5, W3_5>>,
                  <<Full, Full, Full, Full>>, <<W3_5, W3_5, W3_5, W3_5>>>>
scale2x_grid == <<<<W3_4, W3_4>>, <<W3_4, Full>>>>
scale3x_grid == <<<<W3_5, Full, Full>>, <<W3_5, Full, Full>>, <<W2_5, W3_5, W3_5>>>>

Pattern(fn, k) ==
  IF fn = "grid" THEN IF k = 2 THEN scale2x_grid ELSE scale3x_grid
  ELSE CASE k = 2 -> scale2x_line [] k = 3 -> scale3x_line [] k = 4 -> scale4x_line

---------------------------------------------------------------------------
(* Writing                                                                 *)

MinOf(a, b) == IF a < b THEN a ELSE b

\* The n pixels from source address a copied to address b.
Copy(a, b, n) == [x \in b .. b + n - 1 |-> <<a + x - b, Full>>]

\* What memcpy reads: the source, or rows of the destination already drawn.
CopyOut(a, b, n) == [x \in b .. b + n - 1 |-> out[a + x - b]]

\* n source pixels from a widened to n*k at b, g source pixels per group.
Widen(a, b, n, k, g, lanes) ==
  [x \in b .. b + n * k - 1 |->
     <<a + g * ((x - b) \div (g * k)) + lanes[((x - b) % (g * k)) + 1], Full>>]

\* The same n pixels in k rows, pitch dp.
Rows(a, b, n, k, g, lanes, dp) ==
  LET row == Widen(a, b, n, k, g, lanes)
  IN  [x \in UNION {(b + i * dp) .. (b + i * dp + n * k - 1) : i \in 0 .. k - 1} |->
         row[b + ((x - b) % dp)]]

---------------------------------------------------------------------------
(* Entry: nothing to draw, the default pitches, the unaligned fallback      *)

Odd(n) == n % 2 = 1

WithPitches(c) ==
  [c EXCEPT !.sp = IF @ = 0 THEN c.sw ELSE @,
            !.dp = IF @ = 0 THEN c.sw * c.k ELSE @]

Fallback(c) == Odd(c.src) \/ Odd(c.dst) \/ Odd(c.sp) \/ Odd(c.dp)

Init == /\ call \in Calls
        /\ pc = "enter"
        /\ s = call.src /\ d = call.dst
        /\ left = [rows |-> call.sh, reps |-> 0]
        /\ mem = [s |-> 0, d |-> 0, big |-> 0, end |-> 0, size |-> 0, at |-> 0, fromOut |-> FALSE]
        /\ out = << >>

Enter == /\ pc = "enter"
         /\ IF call.fn \in {"c16", "n16"} /\ (call.sw = 0 \/ call.sh = 0)
            THEN pc' = "done" /\ UNCHANGED call
            ELSE LET c == WithPitches(call)
                 IN  /\ call' = IF c.fn = "n16" /\ Fallback(c) THEN [c EXCEPT !.fn = "c16"] ELSE c
                     /\ pc' = "row"
         /\ UNCHANGED <<s, d, left, mem, out>>

---------------------------------------------------------------------------
(* C: one row of the source per turn, ymul rows of the destination          *)

\* scale1x_c16 copies everything at once when the pitches are the width.
Whole(c) == c.sw = c.sp /\ c.sp = c.dp

scale1x_c16 ==
  /\ pc = "row" /\ call.fn = "c16" /\ call.k = 1
  /\ IF Whole(call)
     THEN /\ out' = Copy(s, d, call.sp * call.sh)
          /\ pc' = "done"
          /\ UNCHANGED <<s, d, left>>
     ELSE /\ out' = Copy(s, d, MinOf(call.sw, call.dp)) @@ out
          /\ s' = s + call.sp /\ d' = d + call.dp
          /\ left' = [left EXCEPT !.rows = @ - 1]
          /\ pc' = IF left.rows = 1 THEN "done" ELSE "row"
  /\ UNCHANGED <<call, mem>>

\* sw/2 pairs, the odd pixel k times, then the row copied ymul - 1 times.
CRow(c, a, b) ==
  LET pairs == Widen(a, b, 2 * (c.sw \div 2), c.k, 2, Pair(c.k))
      tail  == [x \in b + 2 * (c.sw \div 2) * c.k .. b + c.sw * c.k - 1 |-> <<a + c.sw - 1, Full>>]
      row   == pairs @@ tail
  IN  [x \in UNION {(b + i * c.dp) .. (b + i * c.dp + c.sw * c.k - 1) : i \in 0 .. c.k - 1} |->
         row[b + ((x - b) % c.dp)]]

ScaleC == /\ pc = "row" /\ call.fn = "c16" /\ call.k > 1
          /\ out' = CRow(call, s, d) @@ out
          /\ s' = s + call.sp /\ d' = d + call.k * call.dp
          /\ left' = [left EXCEPT !.rows = @ - 1]
          /\ pc' = IF left.rows = 1 THEN "done" ELSE "row"
          /\ UNCHANGED <<call, mem>>

---------------------------------------------------------------------------
(* memcpy_neon: 64 pixels at a time, then one each of 32, 16, 8 and 4 by    *)
(* the bits of the size, then one by one                                   *)

Chunks == <<64, 32, 16, 8, 4, 1>>

StartMem(a, b, n, fromOut) ==
  [s |-> a, d |-> b, big |-> a + 64 * (n \div 64), end |-> a + n, size |-> n, at |-> 1,
   fromOut |-> fromOut]

Move(n) == (IF mem.fromOut THEN CopyOut(mem.s, mem.d, n) ELSE Copy(mem.s, mem.d, n)) @@ out
Moved(n) == [mem EXCEPT !.s = @ + n, !.d = @ + n]

\* The 128-byte loop and the compare after it.
MemBig == /\ pc = "mem" /\ mem.at = 1
          /\ IF mem.s # mem.big
             THEN out' = Move(64) /\ mem' = Moved(64) /\ UNCHANGED pc
             ELSE /\ pc' = IF mem.s = mem.end THEN "copied" ELSE "mem"
                  /\ mem' = [mem EXCEPT !.at = 2]
                  /\ UNCHANGED out
          /\ UNCHANGED <<call, s, d, left>>

Bit(size, n) == Odd(size \div n)

\* tst size: one block of 32, 16, 8 or 4 pixels, and the end when it is reached.
MemChunk == /\ pc = "mem" /\ mem.at \in 2 .. 5
            /\ LET n == Chunks[mem.at]
               IN  IF Bit(mem.size, n)
                   THEN /\ out' = Move(n)
                        /\ mem' = [Moved(n) EXCEPT !.at = @ + 1]
                        /\ pc' = IF mem'.s = mem.end THEN "copied" ELSE "mem"
                   ELSE mem' = [mem EXCEPT !.at = @ + 1] /\ UNCHANGED <<out, pc>>
            /\ UNCHANGED <<call, s, d, left>>

\* The rest, a pixel at a time, until the pointer is the end.
MemRest == /\ pc = "mem" /\ mem.at = 6
           /\ out' = Move(1) /\ mem' = Moved(1)
           /\ pc' = IF mem'.s = mem.end THEN "copied" ELSE "mem"
           /\ UNCHANGED <<call, s, d, left>>

memcpy_neon == MemBig \/ MemChunk \/ MemRest

---------------------------------------------------------------------------
(* NEON                                                                    *)

\* The whole image in one memcpy_neon when the pitches are the width, else
\* a row at a time, cut at the destination's pitch.
scale1x1_n16 ==
  /\ pc = "row" /\ call.fn = "n16" /\ call.k = 1
  /\ mem' = IF Whole(call) THEN StartMem(s, d, call.sp * call.sh, FALSE)
            ELSE StartMem(s, d, MinOf(call.sw, call.dp), FALSE)
  /\ pc' = "mem"
  /\ UNCHANGED <<call, s, d, left, out>>

\* Mutant: the repeats of a row are not counted down.
AfterCopyUncounted ==
  /\ pc = "copied" /\ call.fn = "n16"
  /\ IF call.k = 1
     THEN /\ s' = s + call.sp /\ d' = d + call.dp
          /\ left' = [left EXCEPT !.rows = IF Whole(call) THEN 0 ELSE @ - 1]
          /\ pc' = IF left'.rows = 0 THEN "done" ELSE "row"
     ELSE pc' = "repeat" /\ UNCHANGED <<s, d, left>>
  /\ UNCHANGED <<call, mem, out>>

\* After a copy: the next row of a 1x1, or the next repeat of a 5x or 6x row.
AfterCopy ==
  /\ pc = "copied" /\ call.fn = "n16"
  /\ IF call.k = 1
     THEN /\ s' = s + call.sp /\ d' = d + call.dp
          /\ left' = [left EXCEPT !.rows = IF Whole(call) THEN 0 ELSE @ - 1]
          /\ pc' = IF left'.rows = 0 THEN "done" ELSE "row"
     ELSE /\ d' = d + call.dp
          /\ left' = [left EXCEPT !.reps = @ - 1]
          /\ pc' = "repeat"
          /\ UNCHANGED s
  /\ UNCHANGED <<call, mem, out>>

\* Rows drawn at once: 2x, 3x and 4x store to k pointers, 5x and 6x to one.
Deep(c) == IF c.k \in 2 .. 4 THEN c.k ELSE 1

Store(n) == IF Deep(call) = 1
            THEN Widen(s, d, n, call.k, 4, Neon(call.k).lanes)
            ELSE Rows(s, d, n, call.k, 4, Neon(call.k).lanes, call.dp)

\* A row begins: where its blocks and the row itself end.
NRow == /\ pc = "row" /\ call.fn = "n16" /\ call.k > 1
        /\ mem' = [mem EXCEPT !.big = s + Neon(call.k).block * (call.sw \div Neon(call.k).block),
                              !.end = s + call.sw]
        /\ pc' = "blocks"
        /\ UNCHANGED <<call, s, d, left, out>>

AtEnd(p) == IF p = mem.end THEN "eol" ELSE "rest"

\* The unrolled loop, until the source pointer is that end.
NBlocks == /\ pc = "blocks"
           /\ IF s # mem.big
              THEN LET n == Neon(call.k).block
                   IN  out' = Store(n) @@ out /\ s' = s + n /\ d' = d + n * call.k /\ UNCHANGED pc
              ELSE pc' = (IF s = mem.end THEN "eol" ELSE "extra") /\ UNCHANGED <<s, d, out>>
           /\ UNCHANGED <<call, left, mem>>

\* 2x only: one block of 16 when the row has one (tst swl, #32).
NExtra == /\ pc = "extra"
          /\ LET n == Neon(call.k).extra
             IN  IF n # 0 /\ Bit(call.sw, n)
                 THEN /\ out' = Store(n) @@ out /\ s' = s + n /\ d' = d + n * call.k
                      /\ pc' = AtEnd(s')
                 ELSE pc' = "rest" /\ UNCHANGED <<s, d, out>>
          /\ UNCHANGED <<call, left, mem>>

\* One pixel k times.
OnePixel == [x \in UNION {(d + i * call.dp) .. (d + i * call.dp + call.k - 1) :
                            i \in 0 .. Deep(call) - 1} |-> <<s, Full>>]

\* The remainder, a pixel at a time.
NRest == /\ pc = "rest"
         /\ out' = OnePixel @@ out
         /\ s' = s + 1 /\ d' = d + call.k
         /\ pc' = AtEnd(s')
         /\ UNCHANGED <<call, left, mem>>

\* End of a row of 2x, 3x and 4x: both pointers to the next row, and out when
\* the source pointer is that of the row after the last.
NextRow == /\ pc = "eol" /\ Deep(call) > 1
           /\ s' = s + call.sp - call.sw
           /\ d' = d + call.dp * call.k - call.sw * call.k
           /\ pc' = IF s' = call.src + call.sp * call.sh THEN "done" ELSE "row"
           /\ UNCHANGED <<call, left, mem, out>>

\* End of a row of 5x and 6x: the row is copied ymul - 1 times.
scale5x_n16 == /\ pc = "eol" /\ call.k = 5
               /\ s' = s - call.sw /\ d' = d - call.sw * 5 + call.dp
               /\ left' = [left EXCEPT !.reps = 4]
               /\ pc' = "repeat"
               /\ UNCHANGED <<call, mem, out>>

scale6x_n16 == /\ pc = "eol" /\ call.k = 6
               /\ s' = s - call.sw /\ d' = d - call.sw * 6 + call.dp
               /\ left' = [left EXCEPT !.reps = 5]
               /\ pc' = "repeat"
               /\ UNCHANGED <<call, mem, out>>

Repeat == /\ pc = "repeat"
          /\ IF left.reps > 0
             THEN /\ mem' = StartMem(d - call.dp * (call.k - left.reps), d, call.sw * call.k, TRUE)
                  /\ pc' = "mem"
                  /\ UNCHANGED <<s, left>>
             ELSE /\ s' = s + call.sp
                  /\ left' = [left EXCEPT !.rows = @ - 1]
                  /\ pc' = IF left'.rows = 0 THEN "done" ELSE "row"
                  /\ UNCHANGED mem
          /\ UNCHANGED <<call, d, out>>

---------------------------------------------------------------------------
(* Effects                                                                 *)

\* Each source row in k rows of k shades.
Shaded(c, a, b) ==
  LET p == Pattern(c.fn, c.k)
  IN  [x \in UNION {(b + i * c.dp) .. (b + i * c.dp + c.sw * c.k - 1) : i \in 0 .. c.k - 1} |->
         LET i == (x - b) \div c.dp
             j == (x - b) % c.dp
         IN  <<a + j \div c.k, p[i + 1][(j % c.k) + 1]>>]

Effect == /\ pc = "row" /\ call.fn \in {"line", "grid"} /\ call.k > 1
          /\ IF left.rows = 0
             THEN pc' = "done" /\ UNCHANGED <<s, d, left, out>>
             ELSE /\ out' = Shaded(call, s, d) @@ out
                  /\ s' = s + call.sp /\ d' = d + call.k * call.dp
                  /\ left' = [left EXCEPT !.rows = @ - 1]
                  /\ UNCHANGED pc
          /\ UNCHANGED <<call, mem>>

\* Two rows per turn: a row is copied, the pointers go on by 2*pitch/2 pixels,
\* that is two rows, and the row there is darkened.
Stride(pitch) == 2 * pitch

scale1x_line ==
  /\ pc = "row" /\ call.fn = "line" /\ call.k = 1
  /\ IF left.rows <= 0
     THEN pc' = "done" /\ UNCHANGED <<s, d, left, out>>
     ELSE /\ s' = s + Stride(call.sp) /\ d' = d + Stride(call.dp)
          /\ out' = [x \in d' .. d' + call.sw - 1 |-> <<s' + x - d', W3_4>>]
                    @@ Copy(s, d, MinOf(call.sw, call.dp)) @@ out
          /\ left' = [left EXCEPT !.rows = @ - 2]
          /\ UNCHANGED pc
  /\ UNCHANGED <<call, mem>>

---------------------------------------------------------------------------

Done == pc = "done" /\ UNCHANGED vars

Next == \/ Enter
        \/ scale1x_c16 \/ ScaleC
        \/ memcpy_neon \/ scale1x1_n16 \/ AfterCopy
        \/ NRow \/ NBlocks \/ NExtra \/ NRest \/ NextRow \/ scale5x_n16 \/ scale6x_n16 \/ Repeat
        \/ Effect \/ scale1x_line
        \/ Done

Spec == Init /\ [][Next]_vars /\ WF_vars(Next)

---------------------------------------------------------------------------
(* Properties                                                              *)

\* Every variable has its type.
TypeOK == /\ [call EXCEPT !.fn = "n16"] \in
               [fn : {"n16"}, k : 1 .. 6, sw : Nat, sh : Nat, sp : Nat, dp : Nat, src : Nat, dst : Nat]
          /\ call.fn \in Fns
          /\ pc \in {"enter", "row", "mem", "copied", "blocks", "extra", "rest", "eol", "repeat", "done"}
          /\ s \in Nat /\ d \in Nat
          /\ left.rows \in Int /\ left.reps \in 0 .. 5
          /\ \A x \in DOMAIN out : out[x] \in Nat \X Shades

OneLine(c) == c.fn = "line" /\ c.k = 1

\* The addresses of the scaled image, and those of any rectangle.
Width(c) == IF c.k = 1 THEN MinOf(c.sw, c.dp) ELSE c.sw * c.k
Image(c) == UNION {(c.dst + y * c.dp) .. (c.dst + y * c.dp + Width(c) - 1) : y \in 0 .. c.sh * c.k - 1}
InRect(x, at, w, h, pitch) == x >= at /\ (x - at) \div pitch < h /\ (x - at) % pitch < w

\* No scaler but the 1x line effect ever writes a pixel outside the scaled
\* image (scaler.c's dw, dh and dp are never tested) or copies one from outside
\* the frame, at any point of its loops: the NEON ones end their loops on an
\* equality of pointers and would run on for ever past it.
StaysInside == ~OneLine(call) /\ pc # "enter" =>
                 \A x \in DOMAIN out :
                   /\ InRect(x, call.dst, Width(call), call.sh * call.k, call.dp)
                   /\ InRect(out[x][1], call.src, call.sw, call.sh, call.sp)

ShadeAt(c, i, j) == IF c.fn \in {"c16", "n16"} THEN Full ELSE Pattern(c.fn, c.k)[i + 1][j + 1]

Reference(c) ==
  [x \in Image(c) |->
     LET y == (x - c.dst) \div c.dp
         j == (x - c.dst) % c.dp
     IN  <<c.src + (y \div c.k) * c.sp + j \div c.k, ShadeAt(c, y % c.k, j % c.k)>>]

\* When a scaler returns, the image is the frame with every pixel a square of
\* k x k, whatever the width leaves for the blocks of 32, 16 or 8 pixels, the
\* halfword remainder and the odd pixel, and whatever the pitches are: the NEON
\* scalers and their C fallbacks draw the same picture.
DrawsTheFrame == pc = "done" /\ ~OneLine(call) =>
                   out = IF call.sw = 0 \/ call.sh = 0 THEN << >> ELSE Reference(call)

\* The 1x line effect (scale1x_line) draws the even rows as they are and leaves
\* the odd ones as they were; the rows it darkens are drawn over by the next
\* turn, but for the last, which is one row (two when the height is odd) below
\* the last it draws, read from below the frame and written below the image.
OneLineDraws ==
  pc = "done" /\ OneLine(call) =>
    LET even  == {y \in 0 .. call.sh - 1 : y % 2 = 0}
        below == call.sh + (call.sh % 2)
    IN  out = [x \in UNION {(call.dst + y * call.dp) .. (call.dst + y * call.dp + call.sw - 1) :
                              y \in IF call.sh = 0 THEN {} ELSE even \cup {below}} |->
                 LET y == (x - call.dst) \div call.dp
                 IN  <<call.src + y * call.sp + ((x - call.dst) % call.dp),
                       IF y = below THEN W3_4 ELSE Full>>]

\* Every call returns: the loops that compare pointers for equality meet them.
Returns == <>(pc = "done")

\* Every scaler, at every point of its loops and when it returns.
DrawsExactly == TypeOK /\ StaysInside /\ DrawsTheFrame /\ OneLineDraws
=============================================================================
