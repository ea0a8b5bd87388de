------------------------------- MODULE Rounding -------------------------------
(***************************************************************************)
(* Rounding as bigDecimal and Postgres do it, the one where it divides and *)
(* the other where it casts a floating-point number to an integer: to the  *)
(* nearest, and a tie to the even neighbour.                               *)
(***************************************************************************)
EXTENDS Integers

Rounded(n, d) ==
    LET down == n \div d  twice == 2 * (n % d)
    IN  IF twice > d \/ (twice = d /\ down % 2 = 1) THEN down + 1 ELSE down
=============================================================================
