------------------------------- MODULE Rounding -------------------------------
(***************************************************************************)
(* The arithmetic on whole numbers that the panel does with Python's       *)
(* min, max and round.                                                     *)
(***************************************************************************)
EXTENDS Integers, FiniteSetsExt

Between(low, x, high) == Max({low, Min({x, high})})

\* Python's round of n / d: to the even one when halfway.
Round(n, d) ==
  LET q == n \div d
      twice == 2 * (n % d)
  IN  IF twice < d \/ (twice = d /\ q % 2 = 0) THEN q ELSE q + 1
=============================================================================
