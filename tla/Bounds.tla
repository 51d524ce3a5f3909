------------------------------- MODULE Bounds -------------------------------
(* min, max and max(0, a - b) of Python, on natural numbers. *)
EXTENDS Naturals

AtMost(a, b) == IF a <= b THEN a ELSE b
AtLeast(a, b) == IF a >= b THEN a ELSE b
Minus(a, b) == IF a >= b THEN a - b ELSE 0
=============================================================================
