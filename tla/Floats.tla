------------------------------- MODULE Floats -------------------------------
(***************************************************************************)
(* Rounding of natural numbers to those a binary floating point number     *)
(* holds, as encoding/json rounds a JSON number to a float64.              *)
(***************************************************************************)
EXTENDS Integers

\* The distance between the numbers that b bits of mantissa hold around n.
Ulp(n, b) == 2 ^ (CHOOSE k \in 0 .. n : n < 2 ^ (b + k) /\ \A j \in 0 .. k - 1 : n >= 2 ^ (b + j))

\* The nearest of them, the even one if two are as near.
Rounded(n, b) ==
    LET u == Ulp(n, b)
        q == n \div u
        rest == n % u
    IN  IF 2 * rest < u \/ (2 * rest = u /\ q % 2 = 0) THEN q * u ELSE (q + 1) * u
=============================================================================
