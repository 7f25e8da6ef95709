------------------------------- MODULE Fractions -------------------------------
(***************************************************************************)
(* Numbers the code keeps in floats, as pairs <<numerator, denominator>> in *)
(* lowest terms with a positive denominator, so that nothing is rounded and *)
(* two equal numbers are the same pair.                                     *)
(***************************************************************************)
EXTENDS Integers, SequencesExt

GreatestDivisor[p \in Nat \X Nat] ==
  IF p[2] = 0 THEN p[1] ELSE GreatestDivisor[<<p[2], p[1] % p[2]>>]
Fraction(n, d) ==
  LET g == GreatestDivisor[<<IF n < 0 THEN -n ELSE n, d>>] IN <<n \div g, d \div g>>
IsFraction(f) == f \in Int \X (Nat \ {0}) /\ f = Fraction(f[1], f[2])
Whole(n) == <<n, 1>>
Plus(f, g) == Fraction(f[1] * g[2] + g[1] * f[2], f[2] * g[2])
Minus(f, g) == Plus(f, <<-g[1], g[2]>>)
Scaled(f, n, d) == Fraction(f[1] * n, f[2] * d)
Exceeds(f, g) == f[1] * g[2] > g[1] * f[2]
(* Of a finite function: the sum of its values.                              *)
Total(v) == FoldFunction(+, 0, v)
TotalFraction(v) == FoldFunction(Plus, <<0, 1>>, v)
=============================================================================
