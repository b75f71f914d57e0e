------------------------------ MODULE Rounding -----------------------------
(* The bounds and the rounding of the integer code: jmax, jmin, and division *)
(* of non-negative numbers rounded up.                                       *)
EXTENDS Integers

AtLeast(a, b) == IF a < b THEN b ELSE a
AtMost(a, b)  == IF a > b THEN b ELSE a
CeilDiv(a, b) == (a + b - 1) \div b
=============================================================================
