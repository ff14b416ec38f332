-------------------------------- MODULE Rounding --------------------------------
(***************************************************************************)
(* Python's round of a quotient of whole numbers.                          *)
(***************************************************************************)
EXTENDS Integers

(* To the nearest whole number, and to the even one half-way. *)
Rounded(n, d) ==
    LET q == n \div d
        rest == 2 * (n % d)
    IN  IF rest > d \/ (rest = d /\ q % 2 = 1) THEN q + 1 ELSE q
=============================================================================
