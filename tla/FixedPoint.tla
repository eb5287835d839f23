----------------------------- MODULE FixedPoint -----------------------------
(***************************************************************************)
(* The numbers of the renderer: B-bit two's complement fixed point with D  *)
(* fractional bits, vectors of three of them and integer vectors           *)
(* (hw/src/hdl/fixed.sv, vec3.sv, vec3i.sv, types.sv).  A number is        *)
(* represented by its raw integer, so 1.0 is 256.                          *)
(*                                                                         *)
(* inv_sqrt, recip and vnormalize are the functions the pipelined modules  *)
(* fixed_inv_sqrt, fixed_recip_lte1 and vec3_normalize compute; their      *)
(* latencies are modelled where they are instantiated.                     *)
(***************************************************************************)
EXTENDS Integers

B == 20
D == 8

FIXED_1 == 256
FIXED_1_5 == 384
FIXED_MAX == 2^(B - 1) - 1

\* The low w bits of x, read as a signed number.
Signed(x, w) == ((x + 2^(w - 1)) % 2^w) - 2^(w - 1)

fixed == -(2^(B - 1)) .. FIXED_MAX

-----------------------------------------------------------------------------
(* Arithmetic wraps; the shift of a product is arithmetic: it rounds down. *)

fadd(a, b) == Signed(a + b, B)
fsub(a, b) == Signed(a - b, B)
fmul(a, b) == Signed((a * b) \div 2^D, B)
fneg(a) == Signed(-a, B)

\* "in >>> 1" of a fixed, a packed struct without signed: a logical shift.
half(a) == (a % 2^B) \div 2

\* What the two sign tests of vtu.sv select; -2^(B-1) is its own opposite.
fabs(a) == IF a < 0 THEN fneg(a) ELSE a

-----------------------------------------------------------------------------
(* Inverse square root: a first guess by the position of the leading one,  *)
(* the sign bit ignored, then one step of Newton's method.                 *)

InvSqrtGuess ==
    <<\* leading one at bit 0, 1, ...
      2364, 1672, 1182, 836, 591, 418, 295, 209, 147, 104,
      73, 52, 36, 26, 18, 13, 9, 6, 4>>

InvSqrtLUT(a) ==
    LET magnitude == a % 2^(B - 1)
    IN  IF magnitude = 0 THEN 4096
        ELSE LET lead == CHOOSE k \in 0 .. B - 2 :
                            2^k <= magnitude /\ magnitude < 2^(k + 1)
             IN  InvSqrtGuess[lead + 1]

inv_sqrt(a) ==
    LET guess == InvSqrtLUT(a)
    IN  fmul(guess, fsub(FIXED_1_5, fmul(fmul(guess, guess), half(a))))

-----------------------------------------------------------------------------
(* Reciprocal of numbers up to one in magnitude.  idx is six bits of the   *)
(* magnitude, so 1.0 and the three smallest magnitudes share index 0, for  *)
(* which the tables have no useful entry.                                  *)

RecipIndex(a) == (fabs(a) \div 2^(D - 6)) % 64

\* lut_dbl is twice, lut_sqr the square of, the reciprocal of idx / 64; the
\* square for idx = 1 is one too large for a fixed and was lowered by hand.
RecipDouble(idx) == IF idx = 0 THEN FIXED_1 ELSE 32768 \div idx

RecipSquare(idx) ==
    CASE idx = 0 -> FIXED_1
      [] idx = 1 -> FIXED_MAX
      [] OTHER -> 2^20 \div (idx * idx)

recip(a) ==
    LET idx == RecipIndex(a)
        double == IF a < 0 THEN fneg(RecipDouble(idx)) ELSE RecipDouble(idx)
    IN  fsub(double, fmul(a, RecipSquare(idx)))

-----------------------------------------------------------------------------
(* Vectors.                                                                *)

Axes == {"x", "y", "z"}

vec3 == [Axes -> fixed]
vec3i == [Axes -> -(2^(B - D - 1)) .. 2^(B - D - 1) - 1]

vmul(v, s) == [i \in Axes |-> fmul(v[i], s)]
vdot(a, b) == fadd(fmul(a["x"], b["x"]),
                   fadd(fmul(a["y"], b["y"]), fmul(a["z"], b["z"])))
vfloor(v) == [i \in Axes |-> v[i] \div 2^D]
vzero == [i \in Axes |-> 0]

vnormalize(v) == vmul(v, inv_sqrt(vdot(v, v)))

=============================================================================
