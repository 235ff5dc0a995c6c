------------------------------- MODULE Fractions -------------------------------
(***************************************************************************)
(* Fractions <<n, d>>, d > 0, in lowest terms, so that equal ones are the  *)
(* same.  They stand for the floating numbers of the ranges, whose         *)
(* rounding they leave out.                                                *)
(***************************************************************************)
EXTENDS Integers

gcd[a \in Nat, b \in Nat] == IF b = 0 THEN a ELSE gcd[b, a % b]

Fraction(n, d) == LET g == gcd[IF n < 0 THEN -n ELSE n, d] IN <<n \div g, d \div g>>
Whole(n) == <<n, 1>>

Plus(p, q) == Fraction(p[1] * q[2] + q[1] * p[2], p[2] * q[2])
Minus(p, q) == Fraction(p[1] * q[2] - q[1] * p[2], p[2] * q[2])
Times(p, q) == Fraction(p[1] * q[1], p[2] * q[2])
Over(p, q) == Fraction(p[1] * q[2], p[2] * q[1])    \* for q > 0
AtMost(p, q) == p[1] * q[2] <= q[1] * p[2]
Below(p, q) == ~AtMost(q, p)
Least(S) == CHOOSE p \in S : \A q \in S : AtMost(p, q)
=============================================================================
