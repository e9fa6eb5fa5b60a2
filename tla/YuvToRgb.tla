------------------------------ MODULE YuvToRgb -------------------------------
(***************************************************************************)
(* The arithmetic of rtl/yuv_to_rgb.sv, stage by stage and with the widths *)
(* of its registers, and of the scan-out that unpacks its result; and that *)
(* it computes, for every sample, what BT.601 asks for.  YuvFbDma has the  *)
(* timing of the pipeline.                                                 *)
(***************************************************************************)
EXTENDS Integers, TLAPS

Byte == 0 .. 255

\* x as a signed register of half * 2 values holds it.
Signed(x, half) == ((x + half) % (2 * half)) - half
Signed9(x) == Signed(x, 256)
Signed12(x) == Signed(x, 2048)
Signed20(x) == Signed(x, 524288)

\* Stage 1
s1_c(Y) == Signed9(Y - 16)
s1_d(U) == Signed9(U - 128)
s1_e(V) == Signed9(V - 128)

\* Stage 2
s2_yy(Y) == Signed20(298 * s1_c(Y))
s2_p1(V) == Signed20(409 * s1_e(V))
s2_p2(U) == Signed20(100 * s1_d(U))
s2_p3(V) == Signed20(208 * s1_e(V))
s2_p4(U) == Signed20(516 * s1_d(U))

\* Stage 3
s3_R_acc(Y, U, V) == Signed20(s2_yy(Y) + s2_p1(V) + 128)
s3_G_acc(Y, U, V) == Signed20(s2_yy(Y) - s2_p2(U) - s2_p3(V) + 128)
s3_B_acc(Y, U, V) == Signed20(s2_yy(Y) + s2_p4(U) + 128)

\* Stage 4: the upper twelve bits are clamped to a byte.
Clamped(acc) ==
  LET s12 == Signed12(acc \div 256) IN
  IF s12 < 0 THEN 0 ELSE IF s12 > 255 THEN 255 ELSE s12 % 256

R8(Y, U, V) == Clamped(s3_R_acc(Y, U, V))
G8(Y, U, V) == Clamped(s3_G_acc(Y, U, V))
B8(Y, U, V) == Clamped(s3_B_acc(Y, U, V))

rgb565(r, g, b) == (b \div 8) * 2048 + (g \div 4) * 32 + r \div 8

\* The scan-out (fb_scan_out.sv) takes the colours out of the word again.
b8(pixel) == ((pixel \div 2048) % 32) * 8
g8(pixel) == ((pixel \div 32) % 64) * 4
r8(pixel) == (pixel % 32) * 8
-----------------------------------------------------------------------------
(* What is asked for: BT.601, limited range, in whole numbers *)

Limited(x) == IF x < 0 THEN 0 ELSE IF x > 255 THEN 255 ELSE x
Red(Y, V) == Limited((298 * (Y - 16) + 409 * (V - 128) + 128) \div 256)
Green(Y, U, V) == Limited((298 * (Y - 16) - 100 * (U - 128) - 208 * (V - 128) + 128) \div 256)
Blue(Y, U) == Limited((298 * (Y - 16) + 516 * (U - 128) + 128) \div 256)

Fits12(x) == x \in Int /\ -2048 <= x /\ x <= 2047
Fits20(x) == x \in Int /\ -524288 <= x /\ x <= 524287

(* A register that is wide enough holds the number itself. *)
LEMMA Wide9 == ASSUME NEW x \in -256 .. 255 PROVE Signed9(x) = x
BY SMT DEF Signed9, Signed
LEMMA Wide12 == ASSUME NEW x, Fits12(x) PROVE Signed12(x) = x
BY SMT DEF Signed12, Signed, Fits12
LEMMA Wide20 == ASSUME NEW x, Fits20(x) PROVE Signed20(x) = x
BY SMT DEF Signed20, Signed, Fits20

(* The offsets and products fit their registers, also for samples outside of the *)
(* limited range, which the comments of the source leave out.                    *)
LEMMA ProductsFit ==
  ASSUME NEW Y \in Byte, NEW U \in Byte, NEW V \in Byte
  PROVE  /\ s2_yy(Y) = 298 * (Y - 16)
         /\ s2_p1(V) = 409 * (V - 128) /\ s2_p2(U) = 100 * (U - 128)
         /\ s2_p3(V) = 208 * (V - 128) /\ s2_p4(U) = 516 * (U - 128)
<1>1. s1_c(Y) = Y - 16 /\ s1_d(U) = U - 128 /\ s1_e(V) = V - 128
  <2>1. Y - 16 \in -256 .. 255 /\ U - 128 \in -256 .. 255 /\ V - 128 \in -256 .. 255
    BY SMT DEF Byte
  <2> QED BY <2>1, Wide9, SMT DEF s1_c, s1_d, s1_e
<1>2. /\ Fits20(298 * (Y - 16))
      /\ Fits20(409 * (V - 128)) /\ Fits20(100 * (U - 128))
      /\ Fits20(208 * (V - 128)) /\ Fits20(516 * (U - 128))
  BY SMT DEF Byte, Fits20
<1> QED BY <1>1, <1>2, Wide20, SMT DEF s2_yy, s2_p1, s2_p2, s2_p3, s2_p4

(* The accumulators hold the sums, far from the ends of their 20 bits. *)
LEMMA SumsFit ==
  ASSUME NEW Y \in Byte, NEW U \in Byte, NEW V \in Byte
  PROVE  /\ s3_R_acc(Y, U, V) = 298 * (Y - 16) + 409 * (V - 128) + 128
         /\ s3_G_acc(Y, U, V) = 298 * (Y - 16) - 100 * (U - 128) - 208 * (V - 128) + 128
         /\ s3_B_acc(Y, U, V) = 298 * (Y - 16) + 516 * (U - 128) + 128
         /\ Fits20(s3_R_acc(Y, U, V))
         /\ Fits20(s3_G_acc(Y, U, V))
         /\ Fits20(s3_B_acc(Y, U, V))
<1> DEFINE r == 298 * (Y - 16) + 409 * (V - 128) + 128
           g == 298 * (Y - 16) - 100 * (U - 128) - 208 * (V - 128) + 128
           b == 298 * (Y - 16) + 516 * (U - 128) + 128
<1>1. Fits20(r) /\ Fits20(g) /\ Fits20(b)
  BY SMT DEF Byte, Fits20
<1>2. Signed20(r) = r /\ Signed20(g) = g /\ Signed20(b) = b
  BY <1>1, Wide20, SMT
<1>3. /\ s3_R_acc(Y, U, V) = Signed20(r) /\ s3_G_acc(Y, U, V) = Signed20(g)
      /\ s3_B_acc(Y, U, V) = Signed20(b)
  BY ProductsFit, SMT DEF s3_R_acc, s3_G_acc, s3_B_acc
<1> QED BY <1>1, <1>2, <1>3, SMT

(* The shift and the clamp of an accumulator are those of the number it holds. *)
LEMMA ClampExact ==
  ASSUME NEW acc, Fits20(acc)
  PROVE  Clamped(acc) = Limited(acc \div 256) /\ Clamped(acc) \in Byte
<1> DEFINE q == acc \div 256
<1>1. Fits12(q)
  BY SMT DEF Fits20, Fits12
<1> HIDE DEF q
<1>2. Signed12(q) = q
  BY <1>1, Wide12, SMT
<1>3. Clamped(acc) = IF q < 0 THEN 0 ELSE IF q > 255 THEN 255 ELSE q % 256
  BY <1>2, SMT DEF Clamped, q
<1>4. Clamped(acc) = Limited(q) /\ Limited(q) \in Byte
  BY <1>1, <1>3, SMT DEF Limited, Byte, Fits12
<1> QED BY <1>4, SMT DEF q

(* For every sample, in or out of the limited range, the pipeline computes the BT.601 *)
(* colours: none of its registers overflows.                                          *)
THEOREM ConversionExact ==
  \A Y, U, V \in Byte :
    R8(Y, U, V) = Red(Y, V) /\ G8(Y, U, V) = Green(Y, U, V) /\ B8(Y, U, V) = Blue(Y, U)
<1> TAKE Y, U, V \in Byte
<1> QED BY SumsFit, ClampExact, SMT DEF R8, G8, B8, Red, Green, Blue

(* What comes out of a packed pixel is what went in, less its lowest bits. *)
LEMMA PackUnpack ==
  ASSUME NEW r \in Byte, NEW g \in Byte, NEW b \in Byte
  PROVE  /\ r8(rgb565(r, g, b)) = (r \div 8) * 8
         /\ g8(rgb565(r, g, b)) = (g \div 4) * 4
         /\ b8(rgb565(r, g, b)) = (b \div 8) * 8
<1> DEFINE x == r \div 8
           y == g \div 4
           z == b \div 8
           p == z * 2048 + y * 32 + x
<1>1. x \in 0 .. 31 /\ y \in 0 .. 63 /\ z \in 0 .. 31
  BY SMT DEF Byte
<1>2. p % 32 = x /\ (p \div 32) % 64 = y /\ (p \div 2048) % 32 = z
  <2> HIDE DEF x, y, z
  <2>1. p \div 2048 = z
    BY <1>1, SMT
  <2>2. p \div 32 = z * 64 + y
    BY <1>1, SMT
  <2>3. (z * 64 + y) % 64 = y /\ p % 32 = x /\ z % 32 = z
    BY <1>1, SMT
  <2> QED BY <2>1, <2>2, <2>3, SMT
<1> QED BY <1>2, SMT DEF rgb565, r8, g8, b8

(* A sample that the DMA converts and packs and the scan-out unpacks is shown with a *)
(* red and blue less than 8 and a green less than 4 below the BT.601 colour.         *)
THEOREM ColoursReachTheScreen ==
  \A Y, U, V \in Byte :
    LET pixel == rgb565(R8(Y, U, V), G8(Y, U, V), B8(Y, U, V)) IN
    /\ Red(Y, V) - r8(pixel) \in 0 .. 7
    /\ Green(Y, U, V) - g8(pixel) \in 0 .. 3
    /\ Blue(Y, U) - b8(pixel) \in 0 .. 7
<1> TAKE Y, U, V \in Byte
<1> DEFINE r == R8(Y, U, V)
           g == G8(Y, U, V)
           b == B8(Y, U, V)
<1>1. r \in Byte /\ g \in Byte /\ b \in Byte
  BY SumsFit, ClampExact, SMT DEF R8, G8, B8
<1>2. r = Red(Y, V) /\ g = Green(Y, U, V) /\ b = Blue(Y, U)
  BY ConversionExact, SMT
<1> HIDE DEF r, g, b
<1>3. /\ r8(rgb565(r, g, b)) = (r \div 8) * 8
      /\ g8(rgb565(r, g, b)) = (g \div 4) * 4
      /\ b8(rgb565(r, g, b)) = (b \div 8) * 8
  BY <1>1, PackUnpack, SMT
<1>4. r - (r \div 8) * 8 \in 0 .. 7 /\ g - (g \div 4) * 4 \in 0 .. 3 /\ b - (b \div 8) * 8 \in 0 .. 7
  BY <1>1, SMT DEF Byte
<1>5. /\ Red(Y, V) - r8(rgb565(r, g, b)) \in 0 .. 7
      /\ Green(Y, U, V) - g8(rgb565(r, g, b)) \in 0 .. 3
      /\ Blue(Y, U) - b8(rgb565(r, g, b)) \in 0 .. 7
  BY <1>2, <1>3, <1>4, SMT
<1> QED BY <1>5, SMT DEF r, g, b
==============================================================================
