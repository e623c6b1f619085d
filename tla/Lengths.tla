------------------------------- MODULE Lengths -------------------------------
(* Math.max and Math.min.                                                    *)
EXTENDS Integers

Larger(a, b) == IF a < b THEN b ELSE a
Smaller(a, b) == IF a < b THEN a ELSE b
=============================================================================
