----------------------------- MODULE Fractions ------------------------------
(* Fractions in lowest terms, <<numerator, denominator>>, for what the code *)
(* computes with doubles. *)
EXTENDS Integers

Gcd[p \in Nat \X Nat] == IF p[2] = 0 THEN p[1] ELSE Gcd[<<p[2], p[1] % p[2]>>]
Size(n) == IF n < 0 THEN -n ELSE n
Frac(n, d) == LET g == Gcd[<<Size(n), d>>] IN <<n \div g, d \div g>>
Whole(n) == <<n, 1>>
Plus(a, b) == LET g == Gcd[<<a[2], b[2]>>]
              IN Frac(a[1] * (b[2] \div g) + b[1] * (a[2] \div g), (a[2] \div g) * b[2])
Minus(a, b) == Plus(a, <<-b[1], b[2]>>)
Times(a, b) == LET x == Frac(a[1], b[2])
                   y == Frac(b[1], a[2])
               IN <<x[1] * y[1], x[2] * y[2]>>
Over(a, b) == Times(a, IF b[1] < 0 THEN <<-b[2], -b[1]>> ELSE <<b[2], b[1]>>)
Less(a, b) == a[1] * b[2] < b[1] * a[2]
Ceiling(a) == -((-a[1]) \div a[2])
Norm(a) == <<Size(a[1]), a[2]>>
Zero == Whole(0)
One == Whole(1)
=============================================================================
