------------------------------ MODULE TrimLine ------------------------------
(***************************************************************************)
(* The arithmetic of the tamer's tuning steps on an oscillator whose       *)
(* frequency error is linear in the DAC value: the line through the two    *)
(* coarse points, its y-intercept, and the corrections of fine tuning, all *)
(* with the rounding, the truncation and the wrap of the C expressions.    *)
(* A gain is <<numerator, denominator>>, in Hz for a step of the DAC.      *)
(***************************************************************************)
EXTENDS Integers

CONSTANTS
  Width,    \* bits of the trim value, 16 in the code
  Min, Max  \* trimdac_min, trimdac_max

ASSUME RangeAssumption ==
  /\ Width \in Nat /\ 2^Width \in Nat /\ Min \in Nat /\ Max \in Nat
  /\ 0 < Min /\ Min < Max /\ Max < 2^Width

DacValues == 0 .. 2^Width - 1

Abs(x) == IF x < 0 THEN -x ELSE x

\* Conversion to an integer of p / q, for q > 0: the fraction is lost.
Truncate(p, q) == IF p < 0 THEN -((-p) \div q) ELSE p \div q
\* round(p / q), for q > 0: to the nearest integer, halves away from zero.
Nearest(p, q) == IF p < 0 THEN -((q - 2 * p) \div (2 * q)) ELSE (q + 2 * p) \div (2 * q)
Round(p, q) == IF q < 0 THEN Nearest(-p, -q) ELSE Nearest(p, q)

\* Conversion to uint16_t: the low bits, as the soft-float library of the
\* Nios computes it for negative values too.
Unsigned(n) == n % 2^Width

\* What the counter of a window of w seconds reports at DAC value y of an
\* oscillator that is right at DAC value centre.
PpsError(gain, centre, y, w) == Round(w * gain[1] * (y - centre), gain[2])

\* With two equal points the slope is infinite and the product with it an
\* infinity or not a number: the library's conversion gives all ones or zero.
Scaled(x, a, b) ==
  IF a = b THEN {0, 2^Width - 1} ELSE {Unsigned(Round((Max - Min) * x, b - a))}

\* y_intercept of the line through (a, Min) and (b, Max): slope is
\* (Max - Min) / (b - a).
Intercept(a, b) == {Unsigned(Min - s) : s \in Scaled(a, a, b)}

\* Mutant: the correction of a long window is not divided by its length.
CorrectedUnscaled(y, e, w, a, b) == {Unsigned(y - s) : s \in Scaled(e, a, b)}

\* A DAC value corrected by an error e of a window of w seconds.  round() is
\* taken before the division by the length of the window.
Corrected(y, e, w, a, b) ==
  IF a = b THEN {Unsigned(y - s) : s \in {0, 2^Width - 1}}
  ELSE {Unsigned(y - Unsigned(Truncate(Round(e * (Max - Min), b - a), w)))}
=============================================================================
