-------------------------------- MODULE Arith --------------------------------
(***************************************************************************)
(* cmp::min, cmp::max, saturating_sub and clamp of the standard library.   *)
(***************************************************************************)
EXTENDS Integers

MinOf(a, b) == IF a <= b THEN a ELSE b
MaxOf(a, b) == IF a >= b THEN a ELSE b
SaturatingSub(a, b) == IF a >= b THEN a - b ELSE 0
Clamp(x, low, high) == MaxOf(low, MinOf(high, x))

=============================================================================
