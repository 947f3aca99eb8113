---------------------------- MODULE NumericsProofs ----------------------------
(***************************************************************************)
(* For every wrist, every base and every rate of turning and error of a    *)
(* measurement: EstimatesFollowRover. The fractions are in lowest terms,   *)
(* and what is computed with them is stated over any common denominator.   *)
(***************************************************************************)
EXTENDS Mission, Fractions, WellFoundedInduction, TLAPS

(***************************************************************************)
(* Divisors.                                                               *)
(***************************************************************************)
LEMMA LeastExists ==
  ASSUME NEW T \in SUBSET Nat, T # {}
  PROVE  \E n \in T : \A q \in T : n <= q
<1> DEFINE R == {p \in Nat \X Nat : p[1] < p[2]}
<1>1. IsWellFoundedOn(R, Nat)
  BY NatLessThanWellFounded DEF OpToRel
<1>2. PICK n \in T : \A q \in T : <<q, n>> \notin R
  BY <1>1, WFMin
<1>3. \A q \in T : ~(q < n)
  BY <1>2
<1>4. QED BY <1>3

Pos == Nat \ {0}

LEMMA DivMod ==
  ASSUME NEW a \in Int, NEW b \in Pos
  PROVE  /\ a \div b \in Int /\ a % b \in 0..b - 1
         /\ a = b * (a \div b) + (a % b)
  BY DEF Pos

LEMMA RemainderIsLess ==
  ASSUME NEW a \in Nat, NEW b \in Nat, b # 0
  PROVE  b \in Pos /\ a % b \in Nat /\ a % b < b
<1>1. b \in Pos /\ a \in Int
  BY DEF Pos
<1>2. \A r \in 0..b - 1 : r \in Nat /\ r < b
  OBVIOUS
<1>3. a % b \in 0..b - 1
  BY <1>1, DivMod, Zenon
<1>4. QED BY <1>1, <1>2, <1>3, Zenon

\* What lies between two multiples of g is none.
LEMMA QuotientIsUnique ==
  ASSUME NEW g \in Pos, NEW x \in Int, NEW y \in Int, NEW m \in 0..g - 1, g * x = g * y + m
  PROVE  x = y
<1> USE DEF Pos
<1>1. ~ (x > y)
  <2>1. ASSUME x >= y + 1 PROVE g * x >= g * (y + 1)
    BY <2>1
  <2>2. g * (y + 1) = g * y + g
    OBVIOUS
  <2>3. QED BY <2>1, <2>2
<1>2. ~ (x < y)
  <2>1. ASSUME x <= y - 1 PROVE g * x <= g * (y - 1)
    BY <2>1
  <2>2. g * (y - 1) = g * y - g
    OBVIOUS
  <2>3. QED BY <2>1, <2>2
<1>3. QED BY <1>1, <1>2

LEMMA DivExact ==
  ASSUME NEW g \in Pos, NEW k \in Int
  PROVE  (g * k) \div g = k
<1>0. g * k \in Int
  BY DEF Pos
<1>1. /\ g * k = g * ((g * k) \div g) + ((g * k) % g)
      /\ (g * k) % g \in 0..g - 1 /\ (g * k) \div g \in Int
  BY <1>0, DivMod
<1>2. QED BY <1>1, QuotientIsUnique

(***************************************************************************)
(* The greatest common divisor.                                            *)
(***************************************************************************)
Divides(d, n) == \E k \in Int : n = d * k
IsGcd(g, a, b) ==
  g \in Nat /\ Divides(g, a) /\ Divides(g, b) /\ \E x, y \in Int : g = a * x + b * y
Coprime(m, n) == \E x, y \in Int : m * x + n * y = 1

LEMMA DividesSum ==
  ASSUME NEW d \in Int, NEW a \in Int, NEW b \in Int, NEW x \in Int, NEW y \in Int,
         Divides(d, a), Divides(d, b)
  PROVE  Divides(d, a * x + b * y)
<1>1. PICK k \in Int, l \in Int : a = d * k /\ b = d * l
  BY DEF Divides
<1>2. a * x + b * y = d * (k * x + l * y)
  BY <1>1
<1>3. k * x + l * y \in Int
  OBVIOUS
<1>4. QED BY <1>2, <1>3 DEF Divides

LEMMA DividesBothWays ==
  ASSUME NEW g \in Nat, NEW h \in Nat, Divides(g, h), Divides(h, g)
  PROVE  g = h
<1>1. PICK k \in Int, l \in Int : h = g * k /\ g = h * l
  BY DEF Divides
<1>2. CASE h = 0 \/ g = 0
  BY <1>1, <1>2
<1>3. CASE h > 0 /\ g > 0
  <2>1. k > 0 /\ l > 0
    <3>1. \A u \in Nat, v \in Int : u > 0 /\ v <= 0 => u * v <= 0
      OBVIOUS
    <3>2. QED BY <1>1, <1>3, <3>1
  <2>2. \A u, v \in Nat : v > 0 => u <= u * v
    OBVIOUS
  <2>3. g <= h /\ h <= g
    BY <1>1, <2>1, <2>2
  <2>4. QED BY <2>3
<1>4. QED BY <1>2, <1>3

LEMMA GcdIsUnique ==
  ASSUME NEW a \in Nat, NEW b \in Nat, NEW g, NEW h, IsGcd(g, a, b), IsGcd(h, a, b)
  PROVE  g = h
<1>1. ASSUME NEW u, NEW v, IsGcd(u, a, b), IsGcd(v, a, b)
      PROVE  Divides(u, v)
  <2>1. PICK x \in Int, y \in Int : v = a * x + b * y
    BY <1>1 DEF IsGcd
  <2>2. u \in Int /\ Divides(u, a) /\ Divides(u, b)
    BY <1>1 DEF IsGcd
  <2>3. a \in Int /\ b \in Int
    OBVIOUS
  <2>4. Divides(u, a * x + b * y)
    BY <2>2, <2>3, DividesSum, Zenon
  <2>5. QED BY <2>1, <2>4
<1>2. Divides(g, h) /\ Divides(h, g)
  BY <1>1
<1>3. QED BY <1>2, DividesBothWays DEF IsGcd

\* One step of Euclid's algorithm.
LEMMA GcdStep ==
  ASSUME NEW a \in Nat, NEW b \in Pos, NEW g, IsGcd(g, b, a % b)
  PROVE  IsGcd(g, a, b)
<1>1. PICK q \in Int, r \in Int : a = b * q + r /\ r = a % b
  BY DivMod
<1>2. g \in Nat /\ Divides(g, b) /\ Divides(g, r) /\ b \in Int
  BY <1>1 DEF IsGcd, Pos
<1>3. PICK x \in Int, y \in Int : g = b * x + r * y
  BY <1>1 DEF IsGcd
<1>4. Divides(g, b * q + r * 1)
  <2>1. g \in Int /\ 1 \in Int
    BY <1>2
  <2>2. QED BY <1>2, <2>1, DividesSum, Zenon
<1>5. b * q + r * 1 = a
  BY <1>1, <1>2
<1>6. g = a * y + b * (x - q * y)
  <2>1. \A u, v, w, s, t \in Int : w * s + v * t = (w * u + v) * t + w * (s - u * t)
    OBVIOUS
  <2>2. g = (b * q + r) * y + b * (x - q * y)
    BY <1>2, <1>3, <2>1
  <2>3. QED BY <1>1, <2>2
<1>7. y \in Int /\ x - q * y \in Int
  OBVIOUS
<1>8. QED BY <1>2, <1>4, <1>5, <1>6, <1>7 DEF IsGcd

LEMMA GcdOfZero ==
  ASSUME NEW a \in Nat
  PROVE  IsGcd(a, a, 0)
<1>1. a = a * 1 /\ 0 = a * 0 /\ a = a * 1 + 0 * 0
  OBVIOUS
<1>2. QED BY <1>1 DEF IsGcd, Divides

\* Whatever is computed as Gcd is computes the greatest common divisor.
LEMMA EuclidIsRight ==
  ASSUME NEW f, \A a, b \in Nat : f[<<a, b>>] = IF b = 0 THEN a ELSE f[<<b, a % b>>],
         NEW a0 \in Nat, NEW b0 \in Nat
  PROVE  IsGcd(f[<<a0, b0>>], a0, b0)
<1> DEFINE T == {b \in Nat : \E a \in Nat : ~ IsGcd(f[<<a, b>>], a, b)}
<1>1. T = {}
  <2> SUFFICES ASSUME T # {} PROVE FALSE
    OBVIOUS
  <2>1. T \in SUBSET Nat
    OBVIOUS
  <2>2. PICK b \in T : \A q \in T : b <= q
    BY <2>1, LeastExists
  <2>3. PICK a \in Nat : ~ IsGcd(f[<<a, b>>], a, b)
    BY <2>2
  <2>4. b # 0
    BY <2>3, GcdOfZero
  <2>5. b \in Pos /\ a % b \in Nat /\ a % b < b
    BY <2>4, RemainderIsLess
  <2>6. a % b \notin T
    BY <2>2, <2>5
  <2>7. IsGcd(f[<<b, a % b>>], b, a % b)
    BY <2>5, <2>6 DEF Pos
  <2>8. f[<<a, b>>] = f[<<b, a % b>>]
    BY <2>4
  <2>9. IsGcd(f[<<a, b>>], a, b)
    BY <2>5, <2>7, <2>8, GcdStep
  <2>10. QED BY <2>3, <2>9
<1>2. QED BY <1>1

LEMMA GcdExists ==
  ASSUME NEW a0 \in Nat, NEW b0 \in Nat
  PROVE  \E g \in Nat : IsGcd(g, a0, b0)
<1> DEFINE T == {b \in Nat : \E a \in Nat : \A g \in Nat : ~ IsGcd(g, a, b)}
<1>1. T = {}
  <2> SUFFICES ASSUME T # {} PROVE FALSE
    OBVIOUS
  <2>1. T \in SUBSET Nat
    OBVIOUS
  <2>2. PICK b \in T : \A q \in T : b <= q
    BY <2>1, LeastExists
  <2>3. PICK a \in Nat : \A g \in Nat : ~ IsGcd(g, a, b)
    BY <2>2
  <2>4. b # 0
    BY <2>3, GcdOfZero
  <2>5. b \in Pos /\ a % b \in Nat /\ a % b < b
    BY <2>4, RemainderIsLess
  <2>6. a % b \notin T
    BY <2>2, <2>5
  <2>7. PICK g \in Nat : IsGcd(g, b, a % b)
    BY <2>5, <2>6 DEF Pos
  <2>8. IsGcd(g, a, b)
    BY <2>5, <2>7, GcdStep
  <2>9. QED BY <2>3, <2>8
<1>2. QED BY <1>1

LEMMA GcdIsGcd ==
  ASSUME NEW a \in Nat, NEW b \in Nat
  PROVE  IsGcd(Gcd[<<a, b>>], a, b)
<1> DEFINE w == [p \in Nat \X Nat |-> CHOOSE g \in Nat : IsGcd(g, p[1], p[2])]
<1>1. ASSUME NEW p \in Nat, NEW q \in Nat
      PROVE  IsGcd(w[<<p, q>>], p, q)
  <2>1. w[<<p, q>>] = CHOOSE g \in Nat : IsGcd(g, p, q)
    OBVIOUS
  <2>2. \E g \in Nat : IsGcd(g, p, q)
    BY GcdExists
  <2>3. QED BY <2>1, <2>2
<1>a. DOMAIN w = Nat \X Nat /\ w = [p \in Nat \X Nat |-> w[p]]
  OBVIOUS
<1> HIDE DEF w
<1>2. ASSUME NEW p \in Nat, NEW q \in Nat
      PROVE  w[<<p, q>>] = IF q = 0 THEN p ELSE w[<<q, p % q>>]
  <2>1. CASE q = 0
    BY <1>1, <2>1, GcdOfZero, GcdIsUnique
  <2>2. CASE q # 0
    <3>1. q \in Pos /\ p % q \in Nat
      BY <2>2, DivMod DEF Pos
    <3>2. IsGcd(w[<<q, p % q>>], q, p % q)
      BY <1>1, <3>1
    <3>3. IsGcd(w[<<q, p % q>>], p, q)
      BY <3>1, <3>2, GcdStep
    <3>4. QED BY <1>1, <2>2, <3>3, GcdIsUnique
  <2>3. QED BY <2>1, <2>2
<1>b. \A p \in Nat \X Nat : w[p] = IF p[2] = 0 THEN p[1] ELSE w[<<p[2], p[1] % p[2]>>]
  BY <1>2
<1>3. w = [p \in Nat \X Nat |-> IF p[2] = 0 THEN p[1] ELSE w[<<p[2], p[1] % p[2]>>]]
  BY <1>a, <1>b
<1>4. Gcd = [p \in Nat \X Nat |-> IF p[2] = 0 THEN p[1] ELSE Gcd[<<p[2], p[1] % p[2]>>]]
  BY <1>3 DEF Gcd
<1>5. \A p, q \in Nat : Gcd[<<p, q>>] = IF q = 0 THEN p ELSE Gcd[<<q, p % q>>]
  BY <1>4
<1>6. QED BY <1>5, EuclidIsRight

(***************************************************************************)
(* Fractions in lowest terms.                                              *)
(***************************************************************************)
(***************************************************************************)
(* Fractions in lowest terms, and what they are equal to.                  *)
(***************************************************************************)
IsFrac(a) == a \in Int \X Pos /\ Coprime(a[1], a[2])
Is(a, n, d) == IsFrac(a) /\ a[1] * d = n * a[2]

LEMMA Cancel ==
  ASSUME NEW k \in Int, NEW x \in Int, NEW y \in Int, k # 0, k * x = k * y
  PROVE  x = y
<1>1. k * (x - y) = 0
  <2>1. k * (x - y) = k * x - k * y
    OBVIOUS
  <2>2. QED BY <2>1
<1>2. \A u, v \in Int : u * v = 0 => u = 0 \/ v = 0
  OBVIOUS
<1>3. QED BY <1>1, <1>2

LEMMA PosTimes ==
  ASSUME NEW a \in Pos, NEW b \in Pos
  PROVE  a * b \in Pos
BY DEF Pos

LEMMA FracParts ==
  ASSUME NEW n \in Int, NEW d \in Pos
  PROVE  /\ IsFrac(Frac(n, d))
         /\ \E g \in Pos : n = g * Frac(n, d)[1] /\ d = g * Frac(n, d)[2]
<1> DEFINE g == Gcd[<<Size(n), d>>]
<1>1. Size(n) \in Nat /\ (n = Size(n) \/ n = - Size(n))
  BY DEF Size
<1>2. IsGcd(g, Size(n), d)
  BY <1>1, GcdIsGcd DEF Pos
<1>3. Frac(n, d) = <<n \div g, d \div g>>
  BY DEF Frac
<1> HIDE DEF g
<1>4. PICK k0 \in Int, m \in Int : Size(n) = g * k0 /\ d = g * m
  BY <1>2 DEF IsGcd, Divides
<1>5. g \in Pos /\ m \in Pos
  <2>1. g \in Nat
    BY <1>2 DEF IsGcd
  <2>2. g # 0
    <3>1. g = 0 => d = 0
      BY <1>4
    <3>2. QED BY <3>1 DEF Pos
  <2>3. m > 0
    <3>1. \A u, v \in Int : u > 0 /\ v <= 0 => u * v <= 0
      OBVIOUS
    <3>2. QED BY <1>4, <2>1, <2>2, <3>1 DEF Pos
  <2>4. QED BY <2>1, <2>2, <2>3 DEF Pos
<1>6. PICK k \in {k0, -k0} : n = g * k
  <2>1. g * (-k0) = - (g * k0)
    BY <1>5 DEF Pos
  <2>2. QED BY <1>1, <1>4, <2>1
<1>7. Frac(n, d) = <<k, m>>
  <2>1. (g * k) \div g = k /\ (g * m) \div g = m
    <3>1. k \in Int
      BY <1>6
    <3>2. QED BY <1>5, <3>1, DivExact
  <2>2. QED BY <1>3, <1>4, <1>6, <2>1
<1>8. Coprime(k, m)
  <2>1. PICK x \in Int, y \in Int : g = Size(n) * x + d * y
    BY <1>2 DEF IsGcd
  <2>2. g = g * (k0 * x + m * y)
    <3>1. (g * k0) * x + (g * m) * y = g * (k0 * x + m * y)
      BY <1>5 DEF Pos
    <3>2. QED BY <1>4, <2>1, <3>1
  <2>3. k0 * x + m * y = 1
    <3>1. g * (k0 * x + m * y) = g * 1
      BY <1>5, <2>2 DEF Pos
    <3>2. g \in Int /\ g # 0 /\ k0 * x + m * y \in Int /\ 1 \in Int
      BY <1>5 DEF Pos
    <3>3. QED BY <3>1, <3>2, Cancel
  <2>4. (-k0) * (-x) + m * y = 1 /\ -x \in Int
    BY <2>3
  <2>5. QED BY <1>6, <2>3, <2>4 DEF Coprime
<1>9. QED BY <1>5, <1>4, <1>6, <1>7, <1>8 DEF IsFrac

LEMMA FracIs ==
  ASSUME NEW n \in Int, NEW d \in Pos
  PROVE  Is(Frac(n, d), n, d)
<1> DEFINE F == Frac(n, d)
<1>1. IsFrac(F) /\ F[1] \in Int /\ F[2] \in Int
  BY FracParts DEF IsFrac, Pos
<1>2. PICK g \in Pos : n = g * F[1] /\ d = g * F[2]
  BY FracParts
<1> HIDE DEF F
<1>3. F[1] * (g * F[2]) = (g * F[1]) * F[2]
  BY <1>1 DEF Pos
<1>4. Is(F, n, d)
  BY <1>1, <1>2, <1>3 DEF Is
<1>5. QED BY <1>4 DEF F

LEMMA CoprimeDivides ==
  ASSUME NEW a \in Int, NEW b \in Int, NEW c \in Int, NEW d \in Int,
         Coprime(a, b), a * d = b * c
  PROVE  Divides(b, d)
<1>1. PICK x \in Int, y \in Int : a * x + b * y = 1
  BY DEF Coprime
<1>2. d * (a * x + b * y) = (a * d) * x + b * (d * y)
  OBVIOUS
<1>3. d = (b * c) * x + b * (d * y)
  BY <1>1, <1>2
<1>4. (b * c) * x + b * (d * y) = b * (c * x + d * y) /\ c * x + d * y \in Int
  OBVIOUS
<1>5. QED BY <1>3, <1>4 DEF Divides

\* In lowest terms equal fractions are the same.
LEMMA IsUnique ==
  ASSUME NEW a, NEW b, NEW n \in Int, NEW d \in Pos, Is(a, n, d), Is(b, n, d)
  PROVE  a = b
<1>1. /\ a = <<a[1], a[2]>> /\ b = <<b[1], b[2]>>
      /\ a[1] \in Int /\ b[1] \in Int /\ a[2] \in Pos /\ b[2] \in Pos
      /\ Coprime(a[1], a[2]) /\ Coprime(b[1], b[2])
      /\ a[1] * d = n * a[2] /\ b[1] * d = n * b[2]
  BY DEF Is, IsFrac
<1>2. PICK p \in Int, q \in Pos, r \in Int, s \in Pos :
        /\ a = <<p, q>> /\ b = <<r, s>> /\ Coprime(p, q) /\ Coprime(r, s)
        /\ p * d = n * q /\ r * d = n * s
  BY <1>1
<1>3. p * s = q * r
  <2>1. d * (p * s) = (p * d) * s /\ d * (q * r) = (r * d) * q /\ (n * q) * s = (n * s) * q
    BY DEF Pos
  <2>2. d * (p * s) = d * (q * r)
    BY <1>2, <2>1
  <2>3. d \in Int /\ d # 0 /\ p * s \in Int /\ q * r \in Int
    BY DEF Pos
  <2>4. QED BY <2>2, <2>3, Cancel
<1>4. Divides(q, s) /\ Divides(s, q)
  <2>1. q \in Int /\ s \in Int
    BY DEF Pos
  <2>2. Divides(q, s)
    BY <1>2, <1>3, <2>1, CoprimeDivides
  <2>3. r * q = s * p
    BY <1>3, <2>1
  <2>4. Divides(s, q)
    BY <1>2, <2>3, <2>1, CoprimeDivides
  <2>5. QED BY <2>2, <2>4
<1>5. q = s
  BY <1>4, DividesBothWays DEF Pos
<1>6. p = r
  <2>1. q * p = q * r /\ q \in Int /\ q # 0
    BY <1>3, <1>5 DEF Pos
  <2>2. QED BY <2>1, Cancel
<1>7. QED BY <1>2, <1>5, <1>6

LEMMA IsScaled ==
  ASSUME NEW a, NEW n \in Int, NEW d \in Pos, NEW k \in Pos
  PROVE  Is(a, n, d) <=> Is(a, k * n, k * d)
<1> SUFFICES ASSUME IsFrac(a)
             PROVE  a[1] * d = n * a[2] <=> a[1] * (k * d) = (k * n) * a[2]
  BY DEF Is
<1>1. PICK p \in Int, q \in Int : p = a[1] /\ q = a[2]
  BY DEF IsFrac, Pos
<1>2. p * (k * d) = k * (p * d) /\ (k * n) * q = k * (n * q)
  BY DEF Pos
<1>3. k \in Int /\ k # 0
  BY DEF Pos
<1>4. PICK x \in Int, y \in Int : x = p * d /\ y = n * q
  BY DEF Pos
<1>5. k * x = k * y => x = y
  BY <1>3, Cancel
<1>6. a[1] * d = x /\ n * a[2] = y
  BY <1>1, <1>4, Zenon
<1>7. a[1] * (k * d) = k * x /\ (k * n) * a[2] = k * y
  BY <1>1, <1>2, <1>4, Zenon
<1>8. QED BY <1>5, <1>6, <1>7, Zenon

LEMMA WholeIs ==
  ASSUME NEW n \in Int, NEW d \in Pos
  PROVE  Is(Whole(n), n * d, d) /\ IsFrac(Whole(n))
<1>1. n * 0 + 1 * 1 = 1 /\ 0 \in Int /\ 1 \in Int /\ 1 \in Pos
  BY DEF Pos
<1>2. n * d = (n * d) * 1 /\ n * d \in Int
  BY DEF Pos
<1>3. QED BY <1>1, <1>2 DEF Is, IsFrac, Whole, Coprime

LEMMA PlusIs ==
  ASSUME NEW a, NEW b, NEW n \in Int, NEW m \in Int, NEW d \in Pos, Is(a, n, d), Is(b, m, d)
  PROVE  Is(Plus(a, b), n + m, d)
<1>1. PICK p \in Int, q \in Pos, r \in Int, s \in Pos :
        /\ p = a[1] /\ q = a[2] /\ r = b[1] /\ s = b[2]
        /\ p * d = n * q /\ r * d = m * s
  BY DEF Is, IsFrac
<1> DEFINE g == Gcd[<<q, s>>]
<1>2. Plus(a, b) = Frac(p * (s \div g) + r * (q \div g), (q \div g) * s)
  BY <1>1 DEF Plus
<1>3. IsGcd(g, q, s)
  BY GcdIsGcd DEF Pos
<1> HIDE DEF g
<1>4. PICK k \in Int, l \in Int : q = g * k /\ s = g * l
  BY <1>3 DEF IsGcd, Divides
<1>5. g \in Pos /\ k \in Pos /\ l \in Pos
  <2>1. g \in Nat
    BY <1>3 DEF IsGcd
  <2>2. g # 0
    BY <1>4, <2>1 DEF Pos
  <2>3. \A u, v \in Int : u > 0 /\ u * v > 0 => v > 0
    <3>1. \A u, v \in Int : u > 0 /\ v <= 0 => u * v <= 0
      OBVIOUS
    <3>2. QED BY <3>1
  <2>4. g \in Int /\ g > 0 /\ g * k > 0 /\ g * l > 0
    BY <1>4, <2>1, <2>2 DEF Pos
  <2>5. k > 0 /\ l > 0
    BY <2>3, <2>4
  <2>6. QED BY <2>1, <2>2, <2>5 DEF Pos
<1>6. s \div g = l /\ q \div g = k
  BY <1>4, <1>5, DivExact
<1> DEFINE N == p * l + r * k
           D == k * s
           F == Frac(N, D)
<1>7. Plus(a, b) = F
  BY <1>2, <1>6
<1>8. N \in Int /\ D \in Pos
  BY <1>5, PosTimes DEF Pos
<1>9. N * d = (n + m) * D
  <2>1. N * d = (p * d) * l + (r * d) * k
    BY <1>5 DEF Pos
  <2>2. (p * d) * l + (r * d) * k = (n * (g * k)) * l + (m * (g * l)) * k
    BY <1>1, <1>4
  <2>3. (n * (g * k)) * l + (m * (g * l)) * k = (n + m) * (k * (g * l))
    BY <1>5 DEF Pos
  <2>4. QED BY <1>4, <2>1, <2>2, <2>3
<1> HIDE DEF N, D
<1>10. Is(F, N, D)
  BY <1>8, FracIs
<1> HIDE DEF F
<1>11. PICK u \in Int, v \in Pos : u = F[1] /\ v = F[2] /\ u * D = N * v
  BY <1>10 DEF Is, IsFrac
<1>12. u * d = (n + m) * v
  <2>1. D * (u * d) = (u * D) * d /\ (N * v) * d = (N * d) * v
        /\ ((n + m) * D) * v = D * ((n + m) * v)
    BY <1>8 DEF Pos
  <2>2. D * (u * d) = D * ((n + m) * v)
    BY <1>9, <1>11, <2>1
  <2>3. D \in Int /\ D # 0 /\ u * d \in Int /\ (n + m) * v \in Int
    BY <1>8 DEF Pos
  <2>4. QED BY <2>2, <2>3, Cancel
<1>13. QED BY <1>7, <1>10, <1>11, <1>12 DEF Is

LEMMA NegativeIs ==
  ASSUME NEW a, NEW n \in Int, NEW d \in Pos, Is(a, n, d)
  PROVE  Is(<< - a[1], a[2]>>, - n, d)
<1>1. PICK p \in Int, q \in Pos : p = a[1] /\ q = a[2] /\ p * d = n * q
  BY DEF Is, IsFrac
<1>2. PICK x \in Int, y \in Int : p * x + q * y = 1
  BY <1>1 DEF Is, IsFrac, Coprime
<1>3. (- p) * (- x) + q * y = 1 /\ - x \in Int /\ - p \in Int
  BY <1>2 DEF Pos
<1>4. Coprime(- p, q)
  BY <1>3 DEF Coprime
<1>5. (- p) * d = (- n) * q
  <2>1. (- p) * d = - (p * d) /\ (- n) * q = - (n * q)
    BY DEF Pos
  <2>2. QED BY <1>1, <2>1
<1>6. QED BY <1>1, <1>3, <1>4, <1>5 DEF Is, IsFrac

LEMMA MinusIs ==
  ASSUME NEW a, NEW b, NEW n \in Int, NEW m \in Int, NEW d \in Pos, Is(a, n, d), Is(b, m, d)
  PROVE  Is(Minus(a, b), n - m, d)
<1>1. Is(<< - b[1], b[2]>>, - m, d) /\ - m \in Int
  BY NegativeIs
<1>2. Is(Minus(a, b), n + (- m), d)
  BY <1>1, PlusIs DEF Minus
<1>3. n + (- m) = n - m
  OBVIOUS
<1>4. QED BY <1>2, <1>3

LEMMA CoprimeFactors ==
  ASSUME NEW m \in Int, NEW n \in Int, NEW k \in Int, Coprime(m, n), Coprime(m, k)
  PROVE  Coprime(m, n * k)
<1>1. PICK x \in Int, y \in Int : m * x + n * y = 1
  BY DEF Coprime
<1>2. PICK u \in Int, v \in Int : m * u + k * v = 1
  BY DEF Coprime
<1>3. (m * x + n * y) * (m * u + k * v)
        = m * (x * (m * u + k * v) + n * y * u) + (n * k) * (y * v)
  OBVIOUS
<1>4. m * (x * (m * u + k * v) + n * y * u) + (n * k) * (y * v) = 1
  BY <1>1, <1>2, <1>3
<1>5. x * (m * u + k * v) + n * y * u \in Int /\ y * v \in Int
  OBVIOUS
<1>6. QED BY <1>4, <1>5 DEF Coprime

LEMMA CoprimeSwaps ==
  ASSUME NEW m \in Int, NEW n \in Int, Coprime(m, n)
  PROVE  Coprime(n, m)
<1>1. PICK x \in Int, y \in Int : m * x + n * y = 1
  BY DEF Coprime
<1>2. n * y + m * x = 1
  BY <1>1
<1>3. QED BY <1>2 DEF Coprime

\* Divisors of numbers without a common one have none.
LEMMA CoprimeParts ==
  ASSUME NEW g \in Int, NEW h \in Int, NEW m \in Int, NEW n \in Int, Coprime(g * m, h * n)
  PROVE  Coprime(m, n)
<1>1. PICK x \in Int, y \in Int : (g * m) * x + (h * n) * y = 1
  BY DEF Coprime
<1>2. m * (g * x) + n * (h * y) = 1
  <2>1. m * (g * x) + n * (h * y) = (g * m) * x + (h * n) * y
    OBVIOUS
  <2>2. QED BY <1>1, <2>1
<1>3. g * x \in Int /\ h * y \in Int
  OBVIOUS
<1>4. QED BY <1>2, <1>3 DEF Coprime

LEMMA TimesIs ==
  ASSUME NEW a, NEW b, NEW n \in Int, NEW m \in Int, NEW d \in Pos, NEW e \in Pos,
         Is(a, n, d), Is(b, m, e)
  PROVE  Is(Times(a, b), n * m, d * e)
<1>1. PICK p \in Int, q \in Pos, r \in Int, s \in Pos :
        /\ p = a[1] /\ q = a[2] /\ r = b[1] /\ s = b[2]
        /\ p * d = n * q /\ r * e = m * s /\ Coprime(p, q) /\ Coprime(r, s)
  BY DEF Is, IsFrac
<1>2. /\ IsFrac(Frac(p, s)) /\ \E g \in Pos : p = g * Frac(p, s)[1] /\ s = g * Frac(p, s)[2]
      /\ IsFrac(Frac(r, q)) /\ \E h \in Pos : r = h * Frac(r, q)[1] /\ q = h * Frac(r, q)[2]
  BY FracParts
<1>3. PICK x1 \in Int, x2 \in Pos, g \in Pos :
        /\ x1 = Frac(p, s)[1] /\ x2 = Frac(p, s)[2] /\ p = g * x1 /\ s = g * x2
        /\ Coprime(x1, x2)
  BY <1>2 DEF IsFrac
<1>4. PICK y1 \in Int, y2 \in Pos, h \in Pos :
        /\ y1 = Frac(r, q)[1] /\ y2 = Frac(r, q)[2] /\ r = h * y1 /\ q = h * y2
        /\ Coprime(y1, y2)
  BY <1>2 DEF IsFrac
<1>5. Times(a, b) = <<x1 * y1, x2 * y2>>
  BY <1>1, <1>3, <1>4 DEF Times
<1>a. g \in Int /\ h \in Int /\ x2 \in Int /\ y2 \in Int /\ g # 0 /\ h # 0
  BY DEF Pos
<1>6. Coprime(x1 * y1, x2 * y2)
  <2>1. Coprime(x1, y2)
    <3>1. Coprime(g * x1, h * y2)
      BY <1>1, <1>3, <1>4
    <3>2. QED BY <3>1, <1>a, CoprimeParts, Zenon
  <2>2. Coprime(y1, x2)
    <3>1. Coprime(h * y1, g * x2)
      BY <1>1, <1>3, <1>4
    <3>2. QED BY <3>1, <1>a, CoprimeParts, Zenon
  <2>3. Coprime(x1, x2 * y2)
    BY <1>3, <1>a, <2>1, CoprimeFactors
  <2>4. Coprime(y1, x2 * y2)
    BY <1>4, <1>a, <2>2, CoprimeFactors
  <2>5. x2 * y2 \in Int
    BY <1>a
  <2>6. Coprime(x2 * y2, x1) /\ Coprime(x2 * y2, y1)
    BY <2>3, <2>4, <2>5, CoprimeSwaps
  <2>7. Coprime(x2 * y2, x1 * y1)
    BY <2>5, <2>6, CoprimeFactors
  <2>8. x1 * y1 \in Int
    OBVIOUS
  <2>9. QED BY <2>5, <2>7, <2>8, CoprimeSwaps
<1>7. (x1 * y1) * (d * e) = (n * m) * (x2 * y2)
  <2>1. (g * h) * ((x1 * y1) * (d * e)) = ((g * x1) * d) * ((h * y1) * e)
    BY <1>a DEF Pos
  <2>2. ((g * x1) * d) * ((h * y1) * e) = (n * (h * y2)) * (m * (g * x2))
    BY <1>1, <1>3, <1>4
  <2>3. (n * (h * y2)) * (m * (g * x2)) = (g * h) * ((n * m) * (x2 * y2))
    BY <1>a
  <2>4. g * h \in Int /\ g * h # 0 /\ (x1 * y1) * (d * e) \in Int /\ (n * m) * (x2 * y2) \in Int
    <3>1. \A u, v \in Int : u * v = 0 => u = 0 \/ v = 0
      OBVIOUS
    <3>2. QED BY <1>a, <3>1 DEF Pos
  <2>5. QED BY <2>1, <2>2, <2>3, <2>4, Cancel
<1>8. x1 * y1 \in Int /\ x2 * y2 \in Pos
  BY PosTimes
<1>9. QED BY <1>5, <1>6, <1>7, <1>8 DEF Is, IsFrac

LEMMA IsOwn ==
  ASSUME NEW a, IsFrac(a)
  PROVE  a[1] \in Int /\ a[2] \in Pos /\ Is(a, a[1], a[2])
BY DEF IsFrac, Is

LEMMA IsCommon ==
  ASSUME NEW a, NEW b, NEW n \in Int, NEW m \in Int, NEW d \in Pos, NEW e \in Pos,
         Is(a, n, d), Is(b, m, e)
  PROVE  Is(a, n * e, d * e) /\ Is(b, m * d, d * e)
<1>1. Is(a, e * n, e * d) /\ Is(b, d * m, d * e)
  BY IsScaled
<1>2. e * n = n * e /\ e * d = d * e /\ d * m = m * d
  BY DEF Pos
<1>3. QED BY <1>1, <1>2

LEMMA OverIs ==
  ASSUME NEW a, NEW b, NEW n \in Int, NEW m \in Pos, NEW d \in Pos, Is(a, n, d), Is(b, m, d)
  PROVE  Is(Over(a, b), n, m)
<1>1. PICK r \in Int, s \in Pos : r = b[1] /\ s = b[2] /\ r * d = m * s /\ Coprime(r, s)
  BY DEF Is, IsFrac
<1>2. r \in Pos
  <2>1. \A u, v \in Int : v > 0 /\ u * v > 0 => u > 0
    <3>1. \A u, v \in Int : v > 0 /\ u <= 0 => u * v <= 0
      OBVIOUS
    <3>2. QED BY <3>1
  <2>2. m * s > 0
    BY PosTimes DEF Pos
  <2>3. QED BY <1>1, <2>1, <2>2 DEF Pos
<1>3. Over(a, b) = Times(a, <<s, r>>)
  BY <1>1, <1>2 DEF Over, Pos
<1>4. Is(<<s, r>>, d, m)
  <2>1. s * m = d * r
    BY <1>1, <1>2 DEF Pos
  <2>2. Coprime(s, r)
    BY <1>1, CoprimeSwaps DEF Pos
  <2>3. QED BY <1>2, <2>1, <2>2 DEF Is, IsFrac, Pos
<1>5. Is(Over(a, b), n * d, d * m)
  BY <1>3, <1>4, TimesIs DEF Pos
<1>6. n * d = d * n
  BY DEF Pos
<1>7. QED BY <1>5, <1>6, IsScaled

LEMMA OrderScales ==
  ASSUME NEW k \in Pos, NEW u \in Int, NEW v \in Int
  PROVE  (u < v <=> k * u < k * v) /\ (u <= v <=> k * u <= k * v)
<1>1. CASE u < v
  BY <1>1 DEF Pos
<1>2. CASE u = v
  BY <1>2 DEF Pos
<1>3. CASE u > v
  BY <1>3 DEF Pos
<1>4. QED BY <1>1, <1>2, <1>3

\* Fractions over one denominator compare as their numerators do.
LEMMA LessIs ==
  ASSUME NEW a, NEW b, NEW n \in Int, NEW m \in Int, NEW d \in Pos, Is(a, n, d), Is(b, m, d)
  PROVE  Less(a, b) <=> n < m
<1>1. PICK p \in Int, q \in Pos, r \in Int, s \in Pos :
        /\ p = a[1] /\ q = a[2] /\ r = b[1] /\ s = b[2]
        /\ p * d = n * q /\ r * d = m * s
  BY DEF Is, IsFrac
<1>2. \A k \in Pos : \A u, v \in Int : u < v <=> k * u < k * v
  BY OrderScales
<1>3. p * s < r * q <=> d * (p * s) < d * (r * q)
  BY <1>2 DEF Pos
<1>4. d * (p * s) = (q * s) * n /\ d * (r * q) = (q * s) * m
  <2>1. d * (p * s) = (p * d) * s /\ d * (r * q) = (r * d) * q
        /\ (n * q) * s = (q * s) * n /\ (m * s) * q = (q * s) * m
    BY DEF Pos
  <2>2. QED BY <1>1, <2>1
<1>5. n < m <=> (q * s) * n < (q * s) * m
  BY <1>2, PosTimes
<1>6. QED BY <1>1, <1>3, <1>4, <1>5 DEF Less

LEMMA NormIs ==
  ASSUME NEW a, NEW n \in Int, NEW d \in Pos, Is(a, n, d)
  PROVE  Is(Norm(a), Size(n), d) /\ Size(n) \in Nat
<1>1. PICK p \in Int, q \in Pos : a[1] = p /\ a[2] = q /\ p * d = n * q /\ a = <<p, q>>
  BY DEF Is, IsFrac
<1>2. p < 0 <=> n < 0
  <2>1. \A u, v \in Int : v > 0 => (u < 0 <=> u * v < 0)
    <3>1. \A u, v \in Int : v > 0 /\ u >= 0 => u * v >= 0
      OBVIOUS
    <3>2. \A u, v \in Int : v > 0 /\ u < 0 => u * v < 0
      OBVIOUS
    <3>3. QED BY <3>1, <3>2
  <2>2. QED BY <1>1, <2>1 DEF Pos
<1>3. CASE n < 0
  <2>1. Norm(a) = <<-a[1], a[2]>> /\ Size(n) = -n
    BY <1>1, <1>2, <1>3 DEF Norm, Size
  <2>2. QED BY <1>3, <2>1, NegativeIs
<1>4. CASE ~(n < 0)
  <2>1. Norm(a) = a /\ Size(n) = n
    BY <1>1, <1>2, <1>4 DEF Norm, Size
  <2>2. QED BY <1>4, <2>1
<1>5. QED BY <1>3, <1>4

\* The least whole number that is not less.
LEMMA CeilingIs ==
  ASSUME NEW a, NEW n \in Int, NEW d \in Pos, Is(a, n, d)
  PROVE  /\ Ceiling(a) \in Int
         /\ \A c \in Int : Ceiling(a) <= c <=> n <= c * d
<1>1. PICK p \in Int, q \in Pos : a[1] = p /\ a[2] = q /\ p * d = n * q
  BY DEF Is, IsFrac
<1>2. PICK k \in Int, r \in 0..q - 1 : - p = q * k + r /\ k = (- p) \div q
  BY DivMod
<1>3. Ceiling(a) = - k
  BY <1>1, <1>2 DEF Ceiling
<1>4. ASSUME NEW c \in Int
      PROVE  - k <= c <=> p <= q * c
  <2>1. - k <= c => q * (- k) <= q * c
    BY DEF Pos
  <2>2. q * (- k) = p + r
    <3>1. q * (- k) = - (q * k)
      BY DEF Pos
    <3>2. QED BY <1>2, <3>1 DEF Pos
  <2>3. - k >= c + 1 => q * (- k) >= q * c + q
    <3>1. - k >= c + 1 => q * (- k) >= q * (c + 1)
      BY DEF Pos
    <3>2. q * (c + 1) = q * c + q
      BY DEF Pos
    <3>3. QED BY <3>1, <3>2
  <2>4. q * c \in Int /\ r >= 0 /\ r < q
    BY DEF Pos
  <2>5. QED BY <2>1, <2>2, <2>3, <2>4 DEF Pos
<1>5. ASSUME NEW c \in Int
      PROVE  p <= q * c <=> n <= c * d
  <2>1. \A j \in Pos : \A u, v \in Int : u <= v <=> j * u <= j * v
    BY OrderScales
  <2>2. p <= q * c <=> d * p <= d * (q * c)
    BY <2>1 DEF Pos
  <2>3. n <= c * d <=> q * n <= q * (c * d)
    BY <2>1 DEF Pos
  <2>4. d * p = p * d /\ q * n = n * q /\ d * (q * c) = q * (c * d)
    BY DEF Pos
  <2>5. QED BY <1>1, <2>2, <2>3, <2>4
<1>6. QED BY <1>3, <1>4, <1>5

LEMMA SizeIs ==
  ASSUME NEW n \in Int
  PROVE  Size(n) \in Nat /\ n <= Size(n) /\ - n <= Size(n) /\ (Size(n) = n \/ Size(n) = - n)
BY DEF Size

LEMMA OneIs ==
  ASSUME NEW d \in Pos
  PROVE  Is(One, d, d) /\ Is(Zero, 0, d)
<1>1. Is(Whole(1), 1 * d, d) /\ Is(Whole(0), 0 * d, d)
  BY WholeIs
<1>2. 1 * d = d /\ 0 * d = 0
  BY DEF Pos
<1>3. QED BY <1>1, <1>2 DEF One, Zero

LEMMA HalfIs ==
  ASSUME NEW a, NEW n \in Int, NEW d \in Pos, Is(a, n, d)
  PROVE  Is(Over(a, Whole(2)), n, 2 * d)
<1>1. Is(Whole(2), 2 * d, d) /\ 2 * d \in Pos
  BY WholeIs DEF Pos
<1>2. QED BY <1>1, OverIs

(***************************************************************************)
(* The wrist.                                                              *)
(***************************************************************************)
\* The operators of an instance are the module's.
LEMMA KinIsFractions ==
  /\ \A n, d : Kin!Frac(n, d) = Frac(n, d)
  /\ \A a, b : /\ Kin!Plus(a, b) = Plus(a, b)
               /\ Kin!Minus(a, b) = Minus(a, b)
               /\ Kin!Times(a, b) = Times(a, b)
               /\ Kin!Over(a, b) = Over(a, b)
               /\ Kin!Less(a, b) <=> Less(a, b)
  /\ \A a : Kin!Norm(a) = Norm(a) /\ Kin!Whole(a) = Whole(a) /\ Kin!Size(a) = Size(a)
  /\ Kin!Zero = Zero /\ Kin!One = One
<1>1. Kin!Gcd = Gcd
  BY DEF Kin!Gcd, Gcd
<1>2. \A a : Kin!Size(a) = Size(a)
  BY DEF Kin!Size, Size
<1>3. \A n, d : Kin!Frac(n, d) = Frac(n, d)
  BY <1>1, <1>2 DEF Kin!Frac, Frac
<1>4. \A a, b : Kin!Plus(a, b) = Plus(a, b)
  BY <1>1, <1>3 DEF Kin!Plus, Plus
<1>5. \A a, b : Kin!Minus(a, b) = Minus(a, b)
  BY <1>4 DEF Kin!Minus, Minus
<1>6. \A a, b : Kin!Times(a, b) = Times(a, b)
  BY <1>3 DEF Kin!Times, Times
<1>7. \A a, b : Kin!Over(a, b) = Over(a, b)
  BY <1>6 DEF Kin!Over, Over
<1>8. \A a : Kin!Norm(a) = Norm(a) /\ Kin!Whole(a) = Whole(a)
  BY <1>2 DEF Kin!Norm, Norm, Kin!Whole, Whole
<1>9. Kin!Zero = Zero /\ Kin!One = One
  BY <1>8 DEF Kin!Zero, Zero, Kin!One, One
<1>10. \A a, b : Kin!Less(a, b) <=> Less(a, b)
  BY DEF Kin!Less, Less
<1>11. QED BY <1>2, <1>3, <1>4, <1>5, <1>6, <1>7, <1>8, <1>9, <1>10

LEMMA NormOfTwo ==
  ASSUME NEW v, NEW n1 \in Int, NEW n2 \in Int, NEW d \in Pos,
         Is(v[1], n1, d), Is(v[2], n2, d)
  PROVE  \E m \in Nat : /\ Is(Kin!InfinityNorm(v), m, d)
                        /\ Size(n1) <= m /\ Size(n2) <= m /\ m \in {Size(n1), Size(n2)}
<1>1. /\ Is(Norm(v[1]), Size(n1), d) /\ Is(Norm(v[2]), Size(n2), d)
      /\ Size(n1) \in Nat /\ Size(n2) \in Nat
  BY NormIs
<1>2. Less(Norm(v[1]), Norm(v[2])) <=> Size(n1) < Size(n2)
  BY <1>1, LessIs
<1>3. Kin!InfinityNorm(v) = IF Less(Norm(v[1]), Norm(v[2])) THEN Norm(v[2]) ELSE Norm(v[1])
  BY KinIsFractions DEF Kin!InfinityNorm
<1>4. CASE Size(n1) < Size(n2)
  BY <1>1, <1>2, <1>3, <1>4
<1>5. CASE ~(Size(n1) < Size(n2))
  BY <1>1, <1>2, <1>3, <1>5
<1>6. QED BY <1>4, <1>5

\* Scaling keeps the ratio and leaves nothing above one.
LEMMA ScaledIs ==
  ASSUME NEW v, NEW n1 \in Int, NEW n2 \in Int, NEW d \in Pos,
         Is(v[1], n1, d), Is(v[2], n2, d)
  PROVE  \E m \in Pos : /\ Is(Kin!Scaled(v)[1], n1, m) /\ Is(Kin!Scaled(v)[2], n2, m)
                        /\ Size(n1) <= m /\ Size(n2) <= m
<1>1. PICK m \in Nat : /\ Is(Kin!InfinityNorm(v), m, d)
                       /\ Size(n1) <= m /\ Size(n2) <= m /\ m \in {Size(n1), Size(n2)}
  BY NormOfTwo
<1>2. Kin!Less(Kin!One, Kin!InfinityNorm(v)) <=> d < m
  BY <1>1, KinIsFractions, OneIs, LessIs DEF Pos
<1>3. CASE d < m
  <2>1. Kin!Scaled(v)[1] = Over(v[1], Kin!InfinityNorm(v))
        /\ Kin!Scaled(v)[2] = Over(v[2], Kin!InfinityNorm(v))
    BY <1>2, <1>3, KinIsFractions DEF Kin!Scaled
  <2>2. m \in Pos
    BY <1>3 DEF Pos
  <2>3. Is(Over(v[1], Kin!InfinityNorm(v)), n1, m) /\ Is(Over(v[2], Kin!InfinityNorm(v)), n2, m)
    BY <1>1, <2>2, OverIs
  <2>4. QED BY <1>1, <2>1, <2>2, <2>3
<1>4. CASE ~(d < m)
  <2>1. Kin!Scaled(v) = v
    BY <1>2, <1>4 DEF Kin!Scaled
  <2>2. Size(n1) <= d /\ Size(n2) <= d
    BY <1>1, <1>4, SizeIs DEF Pos
  <2>3. QED BY <2>1, <2>2
<1>5. QED BY <1>3, <1>4

\* The powers of the wrist have one ratio, and none is more than one.
WristInv ==
  \E n1, n2 \in Int, d, m \in Pos :
    /\ Is(joint[1], n1, d) /\ Is(joint[2], n2, d)
    /\ Size(n1) <= d /\ Size(n2) <= d
    /\ Is(gear[1], n1 - n2, m) /\ Is(gear[2], n1 + n2, m)
    /\ Size(n1 - n2) <= m /\ Size(n1 + n2) <= m

LEMMA WristInvHolds ==
  ASSUME WristInv
  PROVE  Kin!WristKeepsRatio
<1>1. PICK n1, n2 \in Int, d, m \in Pos :
        /\ Is(joint[1], n1, d) /\ Is(joint[2], n2, d)
        /\ Size(n1) <= d /\ Size(n2) <= d
        /\ Is(gear[1], n1 - n2, m) /\ Is(gear[2], n1 + n2, m)
        /\ Size(n1 - n2) <= m /\ Size(n1 + n2) <= m
  BY DEF WristInv
<1>2. ASSUME NEW v, NEW p \in Int, NEW q \in Int, NEW e \in Pos,
             Is(v[1], p, e), Is(v[2], q, e), Size(p) <= e, Size(q) <= e
      PROVE  ~ Kin!Less(Kin!One, Kin!InfinityNorm(v))
  <2>1. PICK k \in Nat : Is(Kin!InfinityNorm(v), k, e) /\ k \in {Size(p), Size(q)}
    BY <1>2, NormOfTwo
  <2>2. Kin!Less(Kin!One, Kin!InfinityNorm(v)) <=> e < k
    BY <2>1, KinIsFractions, OneIs, LessIs DEF Pos
  <2>3. QED BY <1>2, <2>1, <2>2, SizeIs DEF Pos
<1> DEFINE back == Kin!GearToJoint(gear)
<1>3. Is(back[1], n1, m) /\ Is(back[2], n2, m)
  <2>1. back[1] = Over(Plus(gear[1], gear[2]), Whole(2))
        /\ back[2] = Over(Minus(gear[2], gear[1]), Whole(2))
    BY KinIsFractions DEF Kin!GearToJoint
  <2>2. Is(Plus(gear[1], gear[2]), (n1 - n2) + (n1 + n2), m)
        /\ Is(Minus(gear[2], gear[1]), (n1 + n2) - (n1 - n2), m)
    BY <1>1, PlusIs, MinusIs
  <2>3. (n1 - n2) + (n1 + n2) = 2 * n1 /\ (n1 + n2) - (n1 - n2) = 2 * n2
    OBVIOUS
  <2>4. Is(back[1], 2 * n1, 2 * m) /\ Is(back[2], 2 * n2, 2 * m)
    BY <2>1, <2>2, <2>3, HalfIs
  <2>5. 2 \in Pos
    BY DEF Pos
  <2>6. QED BY <2>4, <2>5, IsScaled
<1> HIDE DEF back
<1>4. Times(back[1], joint[2]) = Times(back[2], joint[1])
  <2>1. Is(Times(back[1], joint[2]), n1 * n2, m * d)
        /\ Is(Times(back[2], joint[1]), n2 * n1, m * d)
    BY <1>1, <1>3, TimesIs
  <2>2. n1 * n2 = n2 * n1 /\ m * d \in Pos
    BY PosTimes
  <2>3. QED BY <2>1, <2>2, IsUnique
<1>5. ASSUME NEW k \in 1..2
      PROVE  ~ Less(Times(back[k], joint[k]), Zero)
  <2>1. PICK n \in Int : Is(back[k], n, m) /\ Is(joint[k], n, d)
    BY <1>1, <1>3
  <2>2. Is(Times(back[k], joint[k]), n * n, m * d) /\ m * d \in Pos
    BY <2>1, TimesIs, PosTimes
  <2>3. Is(Zero, 0, m * d) /\ n * n >= 0
    BY <2>2, OneIs
  <2>4. QED BY <2>2, <2>3, LessIs
<1>6. ~ Kin!Less(Kin!One, Kin!InfinityNorm(joint)) /\ ~ Kin!Less(Kin!One, Kin!InfinityNorm(gear))
  BY <1>1, <1>2
<1>7. QED BY <1>4, <1>5, <1>6, KinIsFractions DEF Kin!WristKeepsRatio, back

\* Two powers over one denominator.
LEMMA PowersAre ==
  ASSUME NEW v \in GearPowers \X GearPowers
  PROVE  \E n1, n2 \in Int, d \in Pos :
           /\ Is(v[1], n1, d) /\ Is(v[2], n2, d) /\ Size(n1) <= d /\ Size(n2) <= d
<1>1. ASSUME NEW p \in GearPowers
      PROVE  p[1] \in Int /\ p[2] \in Pos /\ Is(p, p[1], p[2]) /\ Size(p[1]) <= p[2]
  <2>1. /\ p \in Int \X (Nat \ {0}) /\ p = Frac(p[1], p[2]) /\ Size(p[1]) <= p[2]
    BY GearsAssumption, KinIsFractions
  <2>2. p[1] \in Int /\ p[2] \in Pos
    BY <2>1 DEF Pos
  <2>3. Is(Frac(p[1], p[2]), p[1], p[2])
    BY <2>2, FracIs
  <2>4. QED BY <2>1, <2>2, <2>3
<1>2. ASSUME NEW p, NEW q, NEW n \in Int, NEW e \in Pos,
             q[1] \in Int, q[2] \in Pos, Is(p, n, e), Size(n) <= e
      PROVE  Size(n * q[2]) <= e * q[2]
  <2>1. PICK k \in Pos : k = q[2]
    BY <1>2
  <2>2. - e <= n /\ n <= e
    BY <1>2, SizeIs DEF Pos
  <2>3. n * k <= e * k /\ - (n * k) <= e * k /\ n * k \in Int
    <3>1. k * n <= k * e /\ k * (- n) <= k * e
      BY <2>2 DEF Pos
    <3>2. k * n = n * k /\ k * e = e * k /\ k * (- n) = - (n * k)
      BY DEF Pos
    <3>3. QED BY <3>1, <3>2 DEF Pos
  <2>4. QED BY <2>1, <2>3, SizeIs DEF Pos
<1>3. v[1] \in GearPowers /\ v[2] \in GearPowers
  OBVIOUS
<1>4. PICK a, b \in Int, d, e \in Pos :
        /\ a = v[1][1] /\ d = v[1][2] /\ b = v[2][1] /\ e = v[2][2]
        /\ Is(v[1], a, d) /\ Is(v[2], b, e) /\ Size(a) <= d /\ Size(b) <= e
  BY <1>1, <1>3
<1>5. Is(v[1], a * e, d * e) /\ Is(v[2], b * d, d * e)
  BY <1>4, IsCommon
<1>6. Size(a * e) <= d * e
  BY <1>2, <1>4
<1>7. Size(b * d) <= d * e
  <2>1. Size(b * d) <= e * d
    BY <1>2, <1>4
  <2>2. QED BY <2>1 DEF Pos
<1>8. a * e \in Int /\ b * d \in Int /\ d * e \in Pos
  BY PosTimes DEF Pos
<1>9. QED BY <1>5, <1>6, <1>7, <1>8

LEMMA WristInvInit ==
  ASSUME gear \in GearPowers \X GearPowers, joint = Kin!GearPowerToJointPower(gear)
  PROVE  WristInv
<1>1. PICK a, b \in Int, e \in Pos :
        Is(gear[1], a, e) /\ Is(gear[2], b, e) /\ Size(a) <= e /\ Size(b) <= e
  BY PowersAre
<1>2. Is(Plus(gear[1], gear[2]), a + b, e) /\ Is(Minus(gear[2], gear[1]), b - a, e)
  BY <1>1, PlusIs, MinusIs
<1>3. PICK v : v = Kin!GearToJoint(gear)
  OBVIOUS
<1>4. Is(v[1], a + b, 2 * e) /\ Is(v[2], b - a, 2 * e)
  <2>1. v[1] = Over(Plus(gear[1], gear[2]), Whole(2))
        /\ v[2] = Over(Minus(gear[2], gear[1]), Whole(2))
    BY <1>3, KinIsFractions DEF Kin!GearToJoint
  <2>2. QED BY <1>2, <2>1, HalfIs
<1>5. 2 * e \in Pos /\ 2 \in Pos
  BY DEF Pos
<1>6. PICK m \in Pos : /\ Is(Kin!Scaled(v)[1], a + b, m) /\ Is(Kin!Scaled(v)[2], b - a, m)
                       /\ Size(a + b) <= m /\ Size(b - a) <= m
  BY <1>4, <1>5, ScaledIs
<1>7. joint = Kin!Scaled(v)
  BY <1>3 DEF Kin!GearPowerToJointPower
<1>8. Is(gear[1], 2 * a, 2 * e) /\ Is(gear[2], 2 * b, 2 * e)
  BY <1>1, <1>5, IsScaled
<1>9. (a + b) - (b - a) = 2 * a /\ (a + b) + (b - a) = 2 * b
  OBVIOUS
<1>10. Size(2 * a) <= 2 * e /\ Size(2 * b) <= 2 * e
  BY <1>1 DEF Size, Pos
<1>11. QED BY <1>5, <1>6, <1>7, <1>8, <1>9, <1>10 DEF WristInv

LEMMA WristInvStep ==
  ASSUME Kin!WristNext
  PROVE  WristInv'
<1>1. PICK j \in GearPowers \X GearPowers : joint' = j /\ gear' = Kin!Scaled(Kin!JointToGear(j))
  BY DEF Kin!WristNext, Kin!SetJoint, Kin!JointPowerToGearPower
<1>2. PICK a, b \in Int, e \in Pos :
        Is(j[1], a, e) /\ Is(j[2], b, e) /\ Size(a) <= e /\ Size(b) <= e
  BY PowersAre
<1>3. PICK v : v = Kin!JointToGear(j)
  OBVIOUS
<1>4. Is(v[1], a - b, e) /\ Is(v[2], a + b, e)
  <2>1. v[1] = Minus(j[1], j[2]) /\ v[2] = Plus(j[1], j[2])
    BY <1>3, KinIsFractions DEF Kin!JointToGear
  <2>2. QED BY <1>2, <2>1, PlusIs, MinusIs
<1>5. PICK m \in Pos : /\ Is(Kin!Scaled(v)[1], a - b, m) /\ Is(Kin!Scaled(v)[2], a + b, m)
                       /\ Size(a - b) <= m /\ Size(a + b) <= m
  BY <1>4, ScaledIs
<1>6. QED BY <1>1, <1>2, <1>3, <1>5 DEF WristInv

(***************************************************************************)
(* The drive.                                                              *)
(***************************************************************************)
Vectors == [1..2 -> Int]
\* The middle of the base's length is p and of its width q.
Placed(p, q) ==
  /\ Kin!X(1) = p /\ Kin!X(2) = p /\ Kin!X(3) = - p /\ Kin!X(4) = - p
  /\ Kin!Y(1) = q /\ Kin!Y(2) = - q /\ Kin!Y(3) = q /\ Kin!Y(4) = - q

\* Where the wheels are: half a length before or behind the middle, and half a width beside it.
LEMMA WheelsAre ==
  \E p, q \in Pos : Placed(p, q)
<1>1. ASSUME NEW n \in Pos, n % 2 = 0
      PROVE  \E k \in Pos : n = 2 * k
  <2>1. PICK k \in Int : n = 2 * k
    BY <1>1, DivMod DEF Pos
  <2>2. k \in Pos
    BY <2>1 DEF Pos
  <2>3. QED BY <2>1, <2>2
<1>2. BaseLength \in Pos /\ BaseLength % 2 = 0 /\ BaseWidth \in Pos /\ BaseWidth % 2 = 0
  BY GearsAssumption DEF Pos
<1>3. PICK p, q \in Pos : BaseLength = 2 * p /\ BaseWidth = 2 * q
  BY <1>1, <1>2
<1>4. ASSUME NEW n \in Pos
      PROVE  (1 * (2 * n)) \div 2 = n /\ ((-1) * (2 * n)) \div 2 = - n
  <2>1. (2 * n) \div 2 = n /\ (2 * (- n)) \div 2 = - n
    BY DivExact DEF Pos
  <2>2. 1 * (2 * n) = 2 * n /\ (-1) * (2 * n) = 2 * (- n)
    BY DEF Pos
  <2>3. QED BY <2>1, <2>2
<1>5. QED BY <1>3, <1>4 DEF Placed, Kin!X, Kin!Y, Kin!WheelsAt

LEMMA WheelVelsAre ==
  ASSUME NEW v, v[1] \in Int, v[2] \in Int, v[3] \in Int
  PROVE  LET w == Kin!RobotVelToWheelVel(v)
         IN /\ w \in [1..4 -> Vectors]
            /\ \A k \in 1..4 : /\ w[k][1] = v[1] - Kin!Y(k) * v[3]
                               /\ w[k][2] = v[2] + Kin!X(k) * v[3]
<1>1. ASSUME NEW k \in 1..4
      PROVE  Kin!X(k) \in Int /\ Kin!Y(k) \in Int
  BY WheelsAre DEF Placed, Pos
<1>2. v[1] \in Int /\ v[2] \in Int /\ v[3] \in Int
  OBVIOUS
<1>3. ASSUME NEW k \in 1..4
      PROVE  /\ Kin!Dot(Kin!IKMatrix(k)[1], v) = v[1] - Kin!Y(k) * v[3]
             /\ Kin!Dot(Kin!IKMatrix(k)[2], v) = v[2] + Kin!X(k) * v[3]
             /\ v[1] - Kin!Y(k) * v[3] \in Int /\ v[2] + Kin!X(k) * v[3] \in Int
  <2>1. PICK x \in Int, y \in Int : x = Kin!X(k) /\ y = Kin!Y(k)
    BY <1>1
  <2>2. PICK a \in Int, b \in Int, c \in Int : a = v[1] /\ b = v[2] /\ c = v[3]
    BY <1>2
  <2>3. Kin!Dot(Kin!IKMatrix(k)[1], v) = 1 * a + 0 * b + (- y) * c
        /\ Kin!Dot(Kin!IKMatrix(k)[2], v) = 0 * a + 1 * b + x * c
    BY <2>1, <2>2 DEF Kin!Dot, Kin!IKMatrix
  <2>4. 1 * a + 0 * b + (- y) * c = a - y * c /\ 0 * a + 1 * b + x * c = b + x * c
        /\ a - y * c \in Int /\ b + x * c \in Int
    OBVIOUS
  <2>5. QED BY <2>1, <2>2, <2>3, <2>4
<1>4. ASSUME NEW k \in 1..4
      PROVE  /\ Kin!RobotVelToWheelVel(v)[k] \in Vectors
             /\ Kin!RobotVelToWheelVel(v)[k][1] = v[1] - Kin!Y(k) * v[3]
             /\ Kin!RobotVelToWheelVel(v)[k][2] = v[2] + Kin!X(k) * v[3]
  <2>1. Kin!RobotVelToWheelVel(v)[k] = [c \in 1..2 |-> Kin!Dot(Kin!IKMatrix(k)[c], v)]
    BY DEF Kin!RobotVelToWheelVel
  <2>2. Kin!RobotVelToWheelVel(v)[k][1] = Kin!Dot(Kin!IKMatrix(k)[1], v)
        /\ Kin!RobotVelToWheelVel(v)[k][2] = Kin!Dot(Kin!IKMatrix(k)[2], v)
    BY <2>1
  <2>3. \A c \in 1..2 : Kin!Dot(Kin!IKMatrix(k)[c], v) \in Int
    BY <1>3
  <2>4. QED BY <1>3, <2>1, <2>2, <2>3 DEF Vectors
<1>5. Kin!RobotVelToWheelVel(v) \in [1..4 -> Vectors]
  <2>1. Kin!RobotVelToWheelVel(v)
          = [k \in 1..4 |-> [c \in 1..2 |-> Kin!Dot(Kin!IKMatrix(k)[c], v)]]
    BY DEF Kin!RobotVelToWheelVel
  <2>2. QED BY <1>4, <2>1
<1>6. QED BY <1>4, <1>5

SumX(w) == w[1][1] + w[2][1] + w[3][1] + w[4][1]
SumY(w) == w[1][2] + w[2][2] + w[3][2] + w[4][2]
\* What the wheels turn the rover by, with the middle of its length p and of its width q.
SumTurn(w, p, q) ==
  (q * (w[2][1] + w[4][1]) - q * (w[1][1] + w[3][1]))
  + (p * (w[1][2] + w[2][2]) - p * (w[3][2] + w[4][2]))
Inertia(p, q) == 4 * (p * p + q * q)

LEMMA RobotVelIs ==
  ASSUME NEW w \in [1..4 -> Vectors], NEW p \in Pos, NEW q \in Pos, Placed(p, q)
  PROVE  LET v == Kin!WheelVelToRobotVel(w)
         IN /\ SumX(w) \in Int /\ SumY(w) \in Int /\ SumTurn(w, p, q) \in Int
            /\ Inertia(p, q) \in Pos
            /\ Is(v[1], SumX(w), 4) /\ Is(v[2], SumY(w), 4)
            /\ Is(v[3], SumTurn(w, p, q), Inertia(p, q))
<1>1. PICK x1, x2, x3, x4, y1, y2, y3, y4 \in Int :
        /\ x1 = w[1][1] /\ x2 = w[2][1] /\ x3 = w[3][1] /\ x4 = w[4][1]
        /\ y1 = w[1][2] /\ y2 = w[2][2] /\ y3 = w[3][2] /\ y4 = w[4][2]
  <2>1. \A k \in 1..4 : w[k][1] \in Int /\ w[k][2] \in Int
    BY DEF Vectors
  <2>2. /\ w[1][1] \in Int /\ w[2][1] \in Int /\ w[3][1] \in Int /\ w[4][1] \in Int
        /\ w[1][2] \in Int /\ w[2][2] \in Int /\ w[3][2] \in Int /\ w[4][2] \in Int
    BY <2>1
  <2>3. QED BY <2>2, Zenon
<1>2. p \in Int /\ q \in Int /\ p * p \in Pos /\ q * q \in Pos
  BY PosTimes DEF Pos
<1>3. SumX(w) \in Int /\ SumY(w) \in Int /\ SumTurn(w, p, q) \in Int /\ Inertia(p, q) \in Pos
  <2>1. SumX(w) = x1 + x2 + x3 + x4 /\ SumY(w) = y1 + y2 + y3 + y4
    BY <1>1 DEF SumX, SumY
  <2>2. SumTurn(w, p, q) = (q * (x2 + x4) - q * (x1 + x3)) + (p * (y1 + y2) - p * (y3 + y4))
    BY <1>1 DEF SumTurn
  <2>3. \A a, b \in Pos : 4 * (a + b) \in Pos
    BY DEF Pos
  <2>4. QED BY <1>2, <2>1, <2>2, <2>3 DEF Inertia
<1>4. 4 \in Pos
  BY DEF Pos
<1> DEFINE m == [k \in 1..4 |-> Kin!IKMatrix(k)]
           product(col) == [k \in 1..4 |-> m[k][1][col] * w[k][1] + m[k][2][col] * w[k][2]]
           square(col) == [k \in 1..4 |-> m[k][1][col] * m[k][1][col] + m[k][2][col] * m[k][2][col]]
<1>5. Kin!WheelVelToRobotVel(w)
        = <<Frac(Kin!OverWheels(product(1)), Kin!OverWheels(square(1))),
            Frac(Kin!OverWheels(product(2)), Kin!OverWheels(square(2))),
            Frac(Kin!OverWheels(product(3)), Kin!OverWheels(square(3)))>>
  BY KinIsFractions DEF Kin!WheelVelToRobotVel
<1>6. /\ m[1] = << <<1, 0, - q>>, <<0, 1, p>> >> /\ m[2] = << <<1, 0, q>>, <<0, 1, p>> >>
      /\ m[3] = << <<1, 0, - q>>, <<0, 1, - p>> >> /\ m[4] = << <<1, 0, q>>, <<0, 1, - p>> >>
  <2>1. - (- q) = q
    BY <1>2
  <2>2. QED BY <2>1 DEF Kin!IKMatrix, Placed
<1> HIDE DEF m
<1>7. Kin!OverWheels(product(1)) = SumX(w) /\ Kin!OverWheels(square(1)) = 4
  <2>1. Kin!OverWheels(product(1))
          = (1 * x1 + 0 * y1) + (1 * x2 + 0 * y2) + (1 * x3 + 0 * y3) + (1 * x4 + 0 * y4)
    BY <1>1, <1>6 DEF Kin!OverWheels
  <2>2. Kin!OverWheels(square(1))
          = (1 * 1 + 0 * 0) + (1 * 1 + 0 * 0) + (1 * 1 + 0 * 0) + (1 * 1 + 0 * 0)
    BY <1>6 DEF Kin!OverWheels
  <2>3. QED BY <1>1, <2>1, <2>2 DEF SumX
<1>8. Kin!OverWheels(product(2)) = SumY(w) /\ Kin!OverWheels(square(2)) = 4
  <2>1. Kin!OverWheels(product(2))
          = (0 * x1 + 1 * y1) + (0 * x2 + 1 * y2) + (0 * x3 + 1 * y3) + (0 * x4 + 1 * y4)
    BY <1>1, <1>6 DEF Kin!OverWheels
  <2>2. Kin!OverWheels(square(2))
          = (0 * 0 + 1 * 1) + (0 * 0 + 1 * 1) + (0 * 0 + 1 * 1) + (0 * 0 + 1 * 1)
    BY <1>6 DEF Kin!OverWheels
  <2>3. QED BY <1>1, <2>1, <2>2 DEF SumY
<1>9. Kin!OverWheels(product(3)) = SumTurn(w, p, q)
      /\ Kin!OverWheels(square(3)) = Inertia(p, q)
  <2>1. Kin!OverWheels(product(3))
          = ((- q) * x1 + p * y1) + (q * x2 + p * y2) + ((- q) * x3 + (- p) * y3)
            + (q * x4 + (- p) * y4)
    BY <1>1, <1>6 DEF Kin!OverWheels
  <2>2. Kin!OverWheels(square(3))
          = ((- q) * (- q) + p * p) + (q * q + p * p) + ((- q) * (- q) + (- p) * (- p))
            + (q * q + (- p) * (- p))
    BY <1>6 DEF Kin!OverWheels
  <2>3. ((- q) * x1 + p * y1) + (q * x2 + p * y2) + ((- q) * x3 + (- p) * y3)
          + (q * x4 + (- p) * y4)
        = (q * (x2 + x4) - q * (x1 + x3)) + (p * (y1 + y2) - p * (y3 + y4))
    BY <1>2
  <2>4. ((- q) * (- q) + p * p) + (q * q + p * p) + ((- q) * (- q) + (- p) * (- p))
          + (q * q + (- p) * (- p)) = 4 * (p * p + q * q)
    BY <1>2
  <2>5. QED BY <1>1, <2>1, <2>2, <2>3, <2>4 DEF SumTurn, Inertia
<1> HIDE DEF product, square
<1>10. Kin!WheelVelToRobotVel(w)
         = <<Frac(SumX(w), 4), Frac(SumY(w), 4), Frac(SumTurn(w, p, q), Inertia(p, q))>>
  BY <1>5, <1>7, <1>8, <1>9
<1>11. Is(Frac(SumX(w), 4), SumX(w), 4) /\ Is(Frac(SumY(w), 4), SumY(w), 4)
       /\ Is(Frac(SumTurn(w, p, q), Inertia(p, q)), SumTurn(w, p, q), Inertia(p, q))
  BY <1>3, <1>4, FracIs
<1>12. QED BY <1>3, <1>10, <1>11

\* When the wheels were steered, their velocities give back the one they were steered by.
LEMMA SteeredIsFound ==
  ASSUME NEW u \in Int \X Int \X Int
  PROVE  LET v == Kin!WheelVelToRobotVel(Kin!RobotVelToWheelVel(u))
         IN \A k \in 1..3 : v[k] = Whole(u[k])
<1>1. PICK p, q \in Pos : Placed(p, q)
  BY WheelsAre
<1>2. PICK a, b, c \in Int : u[1] = a /\ u[2] = b /\ u[3] = c
  OBVIOUS
<1>3. PICK w : w = Kin!RobotVelToWheelVel(u)
  OBVIOUS
<1>4. /\ w \in [1..4 -> Vectors]
      /\ \A k \in 1..4 : w[k][1] = a - Kin!Y(k) * c /\ w[k][2] = b + Kin!X(k) * c
  BY <1>2, <1>3, WheelVelsAre
<1>5. /\ w[1][1] = a - q * c /\ w[2][1] = a - (- q) * c
      /\ w[3][1] = a - q * c /\ w[4][1] = a - (- q) * c
      /\ w[1][2] = b + p * c /\ w[2][2] = b + p * c
      /\ w[3][2] = b + (- p) * c /\ w[4][2] = b + (- p) * c
  BY <1>1, <1>4 DEF Placed
<1>6. p \in Int /\ q \in Int /\ 4 \in Pos
  BY DEF Pos
<1>7. SumX(w) = a * 4 /\ SumY(w) = b * 4
  BY <1>5, <1>6 DEF SumX, SumY
<1>8. SumTurn(w, p, q) = c * Inertia(p, q)
  <2>1. SumTurn(w, p, q)
        = (q * ((a - (- q) * c) + (a - (- q) * c)) - q * ((a - q * c) + (a - q * c)))
          + (p * ((b + p * c) + (b + p * c)) - p * ((b + (- p) * c) + (b + (- p) * c)))
    BY <1>5 DEF SumTurn
  <2>2. (q * ((a - (- q) * c) + (a - (- q) * c)) - q * ((a - q * c) + (a - q * c)))
          + (p * ((b + p * c) + (b + p * c)) - p * ((b + (- p) * c) + (b + (- p) * c)))
        = c * (4 * (p * p + q * q))
    BY <1>6
  <2>3. QED BY <2>1, <2>2 DEF Inertia
<1>9. PICK v : v = Kin!WheelVelToRobotVel(w)
  OBVIOUS
<1>10. /\ Inertia(p, q) \in Pos
       /\ Is(v[1], a * 4, 4) /\ Is(v[2], b * 4, 4) /\ Is(v[3], c * Inertia(p, q), Inertia(p, q))
  BY <1>1, <1>4, <1>7, <1>8, <1>9, RobotVelIs
<1>11. /\ Is(Whole(a), a * 4, 4) /\ Is(Whole(b), b * 4, 4)
       /\ Is(Whole(c), c * Inertia(p, q), Inertia(p, q))
  BY <1>6, <1>10, WholeIs
<1>12. a * 4 \in Int /\ b * 4 \in Int /\ c * Inertia(p, q) \in Int
  BY <1>10 DEF Pos
<1>13. v[1] = Whole(a) /\ v[2] = Whole(b) /\ v[3] = Whole(c)
  BY <1>6, <1>10, <1>11, <1>12, IsUnique
<1>14. QED BY <1>2, <1>3, <1>9, <1>13

Squares(a1, b1, a2, b2, a3, b3, a4, b4) ==
  (a1 * a1 + b1 * b1) + (a2 * a2 + b2 * b2) + (a3 * a3 + b3 * b3) + (a4 * a4 + b4 * b4)

Shifted(a1, b1, a2, b2, a3, b3, a4, b4, p, q, x, y, t) ==
  Squares(a1 - (x - q * t), b1 - (y + p * t), a2 - (x + q * t), b2 - (y + p * t),
          a3 - (x - q * t), b3 - (y - p * t), a4 - (x + q * t), b4 - (y - p * t))

\* Where the residuals stand on the columns of the matrix, every other velocity is off by more.
LEMMA ResidualsAreLeast ==
  ASSUME NEW r1 \in Int, NEW r2 \in Int, NEW r3 \in Int, NEW r4 \in Int,
         NEW s1 \in Int, NEW s2 \in Int, NEW s3 \in Int, NEW s4 \in Int,
         NEW p \in Int, NEW q \in Int, NEW x \in Int, NEW y \in Int, NEW t \in Int,
         r1 + r2 + r3 + r4 = 0, s1 + s2 + s3 + s4 = 0,
         (q * (r2 + r4) - q * (r1 + r3)) + (p * (s1 + s2) - p * (s3 + s4)) = 0
  PROVE  Squares(r1, s1, r2, s2, r3, s3, r4, s4)
         <= Shifted(r1, s1, r2, s2, r3, s3, r4, s4, p, q, x, y, t)
<1>1. \A r, a \in Int : (r - a) * (r - a) = (r * r - 2 * (r * a)) + a * a /\ a * a >= 0
  <2>1. \A a \in Int : a * a >= 0
    OBVIOUS
  <2>2. \A r, a \in Int : (r - a) * (r - a) = (r * r - 2 * (r * a)) + a * a
    OBVIOUS
  <2>3. QED BY <2>1, <2>2
<1>2. PICK i, j, k, l \in Int : i = x - q * t /\ j = x + q * t /\ k = y + p * t /\ l = y - p * t
  OBVIOUS
<1>3. (r1 * i + s1 * k) + (r2 * j + s2 * k) + (r3 * i + s3 * l) + (r4 * j + s4 * l) = 0
  <2>1. (r1 * i + s1 * k) + (r2 * j + s2 * k) + (r3 * i + s3 * l) + (r4 * j + s4 * l)
        = (x * (r1 + r2 + r3 + r4) + y * (s1 + s2 + s3 + s4))
          + t * ((q * (r2 + r4) - q * (r1 + r3)) + (p * (s1 + s2) - p * (s3 + s4)))
    BY <1>2
  <2>2. x * 0 + y * 0 + t * 0 = 0
    OBVIOUS
  <2>3. QED BY <2>1, <2>2
<1>4. /\ (r1 - i) * (r1 - i) >= r1 * r1 - 2 * (r1 * i)
      /\ (s1 - k) * (s1 - k) >= s1 * s1 - 2 * (s1 * k)
      /\ (r2 - j) * (r2 - j) >= r2 * r2 - 2 * (r2 * j)
      /\ (s2 - k) * (s2 - k) >= s2 * s2 - 2 * (s2 * k)
      /\ (r3 - i) * (r3 - i) >= r3 * r3 - 2 * (r3 * i)
      /\ (s3 - l) * (s3 - l) >= s3 * s3 - 2 * (s3 * l)
      /\ (r4 - j) * (r4 - j) >= r4 * r4 - 2 * (r4 * j)
      /\ (s4 - l) * (s4 - l) >= s4 * s4 - 2 * (s4 * l)
  <2>1. \A r, a \in Int : (r - a) * (r - a) >= r * r - 2 * (r * a)
    BY <1>1
  <2>2. QED BY <2>1, Zenon
<1>5. \A a, b \in Int : a * b \in Int /\ (a - b) * (a - b) \in Int
  OBVIOUS
<1>6. Squares(r1, s1, r2, s2, r3, s3, r4, s4)
      <= Squares(r1 - i, s1 - k, r2 - j, s2 - k, r3 - i, s3 - l, r4 - j, s4 - l)
  <2>1. \A a1, a2, a3, a4, a5, a6, a7, a8, b1, b2, b3, b4, b5, b6, b7, b8,
           c1, c2, c3, c4, c5, c6, c7, c8 \in Int :
          /\ a1 >= b1 - 2 * c1 /\ a2 >= b2 - 2 * c2 /\ a3 >= b3 - 2 * c3 /\ a4 >= b4 - 2 * c4
          /\ a5 >= b5 - 2 * c5 /\ a6 >= b6 - 2 * c6 /\ a7 >= b7 - 2 * c7 /\ a8 >= b8 - 2 * c8
          /\ (c1 + c2) + (c3 + c4) + (c5 + c6) + (c7 + c8) = 0
          => (b1 + b2) + (b3 + b4) + (b5 + b6) + (b7 + b8)
             <= (a1 + a2) + (a3 + a4) + (a5 + a6) + (a7 + a8)
    OBVIOUS
  <2>2. QED BY <1>3, <1>4, <1>5, <2>1 DEF Squares
<1>7. QED BY <1>2, <1>6 DEF Shifted

\* How far the wheels are from those of a velocity, over a common denominator.
OffBy(w, n, u) ==
  LET z == Kin!RobotVelToWheelVel(u)
      off == [k \in 1..4 |-> (n * w[k][1] - z[k][1]) * (n * w[k][1] - z[k][1])
                              + (n * w[k][2] - z[k][2]) * (n * w[k][2] - z[k][2])]
  IN Kin!OverWheels(off)

LEMMA OffByIs ==
  ASSUME NEW w, NEW n \in Int, NEW o, NEW p \in Int, NEW q \in Int,
         Placed(p, q),
         NEW d \in Int, NEW e \in Int, NEW f \in Int, o[1] = d, o[2] = e, o[3] = f
  PROVE  OffBy(w, n, o)
         = Squares(n * w[1][1] - (d - q * f), n * w[1][2] - (e + p * f),
                   n * w[2][1] - (d + q * f), n * w[2][2] - (e + p * f),
                   n * w[3][1] - (d - q * f), n * w[3][2] - (e - p * f),
                   n * w[4][1] - (d + q * f), n * w[4][2] - (e - p * f))
<1>1. PICK i : i = Kin!RobotVelToWheelVel(o)
  OBVIOUS
<1>2. \A k \in 1..4 : i[k][1] = d - Kin!Y(k) * f /\ i[k][2] = e + Kin!X(k) * f
  BY <1>1, WheelVelsAre
<1>3. d - (- q) * f = d + q * f /\ e + (- p) * f = e - p * f
  OBVIOUS
<1>4. /\ i[1][1] = d - q * f /\ i[2][1] = d + q * f /\ i[3][1] = d - q * f /\ i[4][1] = d + q * f
      /\ i[1][2] = e + p * f /\ i[2][2] = e + p * f /\ i[3][2] = e - p * f /\ i[4][2] = e - p * f
  BY <1>2, <1>3 DEF Placed
<1>5. OffBy(w, n, o)
        = Squares(n * w[1][1] - i[1][1], n * w[1][2] - i[1][2],
                  n * w[2][1] - i[2][1], n * w[2][2] - i[2][2],
                  n * w[3][1] - i[3][1], n * w[3][2] - i[3][2],
                  n * w[4][1] - i[4][1], n * w[4][2] - i[4][2])
  BY <1>1 DEF OffBy, Kin!OverWheels, Squares
<1>6. QED BY <1>4, <1>5

\* The normal equations.
Normal(w, n, u, p, q) ==
  /\ 4 * u[1] = n * SumX(w) /\ 4 * u[2] = n * SumY(w)
  /\ Inertia(p, q) * u[3] = n * SumTurn(w, p, q)

LEMMA LeastSquares ==
  ASSUME NEW w \in [1..4 -> Vectors], NEW n \in Int, NEW u, NEW z, NEW p \in Int, NEW q \in Int,
         Placed(p, q),
         u[1] \in Int, u[2] \in Int, u[3] \in Int,
         NEW x \in Int, NEW y \in Int, NEW t \in Int,
         z[1] = u[1] + x, z[2] = u[2] + y, z[3] = u[3] + t,
         Normal(w, n, u, p, q)
  PROVE  OffBy(w, n, u) <= OffBy(w, n, z)
<1>1. PICK x1, x2, x3, x4, y1, y2, y3, y4 \in Int :
        /\ x1 = w[1][1] /\ x2 = w[2][1] /\ x3 = w[3][1] /\ x4 = w[4][1]
        /\ y1 = w[1][2] /\ y2 = w[2][2] /\ y3 = w[3][2] /\ y4 = w[4][2]
  <2>1. \A k \in 1..4 : w[k][1] \in Int /\ w[k][2] \in Int
    BY DEF Vectors
  <2>2. /\ w[1][1] \in Int /\ w[2][1] \in Int /\ w[3][1] \in Int /\ w[4][1] \in Int
        /\ w[1][2] \in Int /\ w[2][2] \in Int /\ w[3][2] \in Int /\ w[4][2] \in Int
    BY <2>1
  <2>3. QED BY <2>2, Zenon
<1>2. PICK a, b, c \in Int : a = u[1] /\ b = u[2] /\ c = u[3]
  OBVIOUS
<1>3. PICK r1, r2, r3, r4, s1, s2, s3, s4 \in Int :
        /\ r1 = n * x1 - (a - q * c) /\ r2 = n * x2 - (a + q * c)
        /\ r3 = n * x3 - (a - q * c) /\ r4 = n * x4 - (a + q * c)
        /\ s1 = n * y1 - (b + p * c) /\ s2 = n * y2 - (b + p * c)
        /\ s3 = n * y3 - (b - p * c) /\ s4 = n * y4 - (b - p * c)
  OBVIOUS
<1>5. OffBy(w, n, u) = Squares(r1, s1, r2, s2, r3, s3, r4, s4)
  <2>1. OffBy(w, n, u) = Squares(n * x1 - (a - q * c), n * y1 - (b + p * c),
                                 n * x2 - (a + q * c), n * y2 - (b + p * c),
                                 n * x3 - (a - q * c), n * y3 - (b - p * c),
                                 n * x4 - (a + q * c), n * y4 - (b - p * c))
    <3>1. OffBy(w, n, u) = Squares(n * w[1][1] - (a - q * c), n * w[1][2] - (b + p * c),
                                   n * w[2][1] - (a + q * c), n * w[2][2] - (b + p * c),
                                   n * w[3][1] - (a - q * c), n * w[3][2] - (b - p * c),
                                   n * w[4][1] - (a + q * c), n * w[4][2] - (b - p * c))
      <4>1. \A d, e, f \in Int :
              u[1] = d /\ u[2] = e /\ u[3] = f =>
                OffBy(w, n, u) = Squares(n * w[1][1] - (d - q * f), n * w[1][2] - (e + p * f),
                                         n * w[2][1] - (d + q * f), n * w[2][2] - (e + p * f),
                                         n * w[3][1] - (d - q * f), n * w[3][2] - (e - p * f),
                                         n * w[4][1] - (d + q * f), n * w[4][2] - (e - p * f))
        BY OffByIs
      <4>2. a \in Int /\ b \in Int /\ c \in Int /\ u[1] = a /\ u[2] = b /\ u[3] = c
        BY <1>2
      <4>3. QED BY <4>1, <4>2
    <3>2. QED BY <1>1, <3>1
  <2>2. QED BY <1>3, <2>1
<1>6. OffBy(w, n, z)
      = Squares(r1 - (x - q * t), s1 - (y + p * t), r2 - (x + q * t), s2 - (y + p * t),
                r3 - (x - q * t), s3 - (y - p * t), r4 - (x + q * t), s4 - (y - p * t))
  <2>1. PICK d, e, f \in Int : d = a + x /\ e = b + y /\ f = c + t
    OBVIOUS
  <2>2. z[1] = d /\ z[2] = e /\ z[3] = f
    BY <1>2, <2>1
  <2>3. q * f = q * c + q * t /\ p * f = p * c + p * t
    BY <2>1
  <2>4. /\ n * x1 - (d - q * f) = r1 - (x - q * t) /\ n * x2 - (d + q * f) = r2 - (x + q * t)
        /\ n * x3 - (d - q * f) = r3 - (x - q * t) /\ n * x4 - (d + q * f) = r4 - (x + q * t)
        /\ n * y1 - (e + p * f) = s1 - (y + p * t) /\ n * y2 - (e + p * f) = s2 - (y + p * t)
        /\ n * y3 - (e - p * f) = s3 - (y - p * t) /\ n * y4 - (e - p * f) = s4 - (y - p * t)
    BY <1>3, <2>1, <2>3
  <2>5. OffBy(w, n, z) = Squares(n * x1 - (d - q * f), n * y1 - (e + p * f),
                                 n * x2 - (d + q * f), n * y2 - (e + p * f),
                                 n * x3 - (d - q * f), n * y3 - (e - p * f),
                                 n * x4 - (d + q * f), n * y4 - (e - p * f))
    <3>1. OffBy(w, n, z) = Squares(n * w[1][1] - (d - q * f), n * w[1][2] - (e + p * f),
                                   n * w[2][1] - (d + q * f), n * w[2][2] - (e + p * f),
                                   n * w[3][1] - (d - q * f), n * w[3][2] - (e - p * f),
                                   n * w[4][1] - (d + q * f), n * w[4][2] - (e - p * f))
      BY <2>2, OffByIs
    <3>2. QED BY <1>1, <3>1
  <2>6. QED BY <2>4, <2>5
<1>7. r1 + r2 + r3 + r4 = 0 /\ s1 + s2 + s3 + s4 = 0
  <2>1. SumX(w) = x1 + x2 + x3 + x4 /\ SumY(w) = y1 + y2 + y3 + y4
    BY <1>1 DEF SumX, SumY
  <2>2. 4 * a = n * (x1 + x2 + x3 + x4) /\ 4 * b = n * (y1 + y2 + y3 + y4)
    BY <1>2, <2>1 DEF Normal
  <2>3. r1 + r2 + r3 + r4 = n * (x1 + x2 + x3 + x4) - 4 * a
        /\ s1 + s2 + s3 + s4 = n * (y1 + y2 + y3 + y4) - 4 * b
    BY <1>3
  <2>4. QED BY <2>2, <2>3
<1>8. (q * (r2 + r4) - q * (r1 + r3)) + (p * (s1 + s2) - p * (s3 + s4)) = 0
  <2>1. n * SumTurn(w, p, q)
        = n * ((q * (x2 + x4) - q * (x1 + x3)) + (p * (y1 + y2) - p * (y3 + y4)))
    BY <1>1 DEF SumTurn
  <2>2. Inertia(p, q) * c = (4 * (p * p + q * q)) * c
    BY DEF Inertia
  <2>3. (q * (r2 + r4) - q * (r1 + r3)) + (p * (s1 + s2) - p * (s3 + s4))
        = n * ((q * (x2 + x4) - q * (x1 + x3)) + (p * (y1 + y2) - p * (y3 + y4)))
          - (4 * (p * p + q * q)) * c
    BY <1>3
  <2>4. n * ((q * (x2 + x4) - q * (x1 + x3)) + (p * (y1 + y2) - p * (y3 + y4)))
        = (4 * (p * p + q * q)) * c
    BY <1>2, <2>1, <2>2 DEF Normal
  <2>5. \A i, j \in Int : i = j => i - j = 0
    OBVIOUS
  <2>6. QED BY <2>3, <2>4, <2>5
<1>9. Squares(r1, s1, r2, s2, r3, s3, r4, s4)
      <= Shifted(r1, s1, r2, s2, r3, s3, r4, s4, p, q, x, y, t)
  BY <1>7, <1>8, ResidualsAreLeast
<1>10. QED BY <1>5, <1>6, <1>9 DEF Shifted

\* The velocity of the drive over the common denominator of its components.
LEMMA ScaledVelIs ==
  ASSUME NEW w \in [1..4 -> Vectors], NEW p \in Pos, NEW q \in Pos, Placed(p, q)
  PROVE  LET v == Kin!WheelVelToRobotVel(w)
             n == v[1][2] * v[2][2] * v[3][2]
             scaled == [k \in 1..3 |-> (n \div v[k][2]) * v[k][1]]
         IN /\ n \in Int /\ scaled[1] \in Int /\ scaled[2] \in Int /\ scaled[3] \in Int
            /\ Normal(w, n, scaled, p, q)
<1>1. PICK v : v = Kin!WheelVelToRobotVel(w)
  OBVIOUS
<1>2. PICK sx, sy, st \in Int, m \in Pos :
        /\ sx = SumX(w) /\ sy = SumY(w) /\ st = SumTurn(w, p, q) /\ m = Inertia(p, q)
        /\ Is(v[1], sx, 4) /\ Is(v[2], sy, 4) /\ Is(v[3], st, m)
  BY <1>1, RobotVelIs
<1>3. PICK a1, a2, a3 \in Int, b1, b2, b3 \in Pos :
        /\ a1 = v[1][1] /\ a2 = v[2][1] /\ a3 = v[3][1]
        /\ b1 = v[1][2] /\ b2 = v[2][2] /\ b3 = v[3][2]
        /\ a1 * 4 = sx * b1 /\ a2 * 4 = sy * b2 /\ a3 * m = st * b3
  <2>1. /\ v[1][1] \in Int /\ v[2][1] \in Int /\ v[3][1] \in Int
        /\ v[1][2] \in Pos /\ v[2][2] \in Pos /\ v[3][2] \in Pos
        /\ v[1][1] * 4 = sx * v[1][2] /\ v[2][1] * 4 = sy * v[2][2]
        /\ v[3][1] * m = st * v[3][2]
    BY <1>2 DEF Is, IsFrac
  <2>2. QED BY <2>1, Zenon
<1>4. PICK n \in Int : n = v[1][2] * v[2][2] * v[3][2] /\ n = (b1 * b2) * b3
  BY <1>3 DEF Pos
<1>5. n \div b1 = b2 * b3 /\ n \div b2 = b1 * b3 /\ n \div b3 = b1 * b2
  <2>1. n = b1 * (b2 * b3) /\ n = b2 * (b1 * b3) /\ n = b3 * (b1 * b2)
    BY <1>4 DEF Pos
  <2>2. b2 * b3 \in Int /\ b1 * b3 \in Int /\ b1 * b2 \in Int
    BY DEF Pos
  <2>3. QED BY <2>1, <2>2, DivExact
<1>6. PICK scaled : scaled = [k \in 1..3 |-> (n \div v[k][2]) * v[k][1]]
  OBVIOUS
<1>7. scaled[1] = (b2 * b3) * a1 /\ scaled[2] = (b1 * b3) * a2 /\ scaled[3] = (b1 * b2) * a3
  BY <1>3, <1>5, <1>6
<1>8. scaled[1] \in Int /\ scaled[2] \in Int /\ scaled[3] \in Int
  BY <1>7 DEF Pos
<1>9. 4 * scaled[1] = n * sx
  <2>1. 4 * ((b2 * b3) * a1) = (b2 * b3) * (a1 * 4) /\ n * sx = (b2 * b3) * (sx * b1)
    BY <1>4 DEF Pos
  <2>2. QED BY <1>3, <1>7, <2>1
<1>10. 4 * scaled[2] = n * sy
  <2>1. 4 * ((b1 * b3) * a2) = (b1 * b3) * (a2 * 4) /\ n * sy = (b1 * b3) * (sy * b2)
    BY <1>4 DEF Pos
  <2>2. QED BY <1>3, <1>7, <2>1
<1>11. m * scaled[3] = n * st
  <2>1. m * ((b1 * b2) * a3) = (b1 * b2) * (a3 * m) /\ n * st = (b1 * b2) * (st * b3)
    BY <1>4 DEF Pos
  <2>2. QED BY <1>3, <1>7, <2>1
<1>12. Normal(w, n, scaled, p, q)
  BY <1>2, <1>9, <1>10, <1>11 DEF Normal
<1>13. QED BY <1>1, <1>4, <1>6, <1>8, <1>12

LEMMA BestVelocityHolds ==
  ASSUME wheels \in [1..4 -> Vectors],
         steered # <<>> =>
           steered \in Int \X Int \X Int /\ wheels = Kin!RobotVelToWheelVel(steered)
  PROVE  Kin!BestVelocity
<1> DEFINE v == Kin!WheelVelToRobotVel(wheels)
           n == v[1][2] * v[2][2] * v[3][2]
           scaled == [k \in 1..3 |-> (n \div v[k][2]) * v[k][1]]
<1>1. steered # <<>> => \A k \in 1..3 : v[k] = Kin!Whole(steered[k])
  BY SteeredIsFound, KinIsFractions
<1>2. PICK p, q \in Pos : Placed(p, q)
  BY WheelsAre
<1>3. /\ n \in Int /\ scaled[1] \in Int /\ scaled[2] \in Int /\ scaled[3] \in Int
      /\ Normal(wheels, n, scaled, p, q)
  BY <1>2, ScaledVelIs
<1> HIDE DEF v, n, scaled
<1>4. ASSUME NEW dx \in {-1, 0, 1}, NEW dy \in {-1, 0, 1}, NEW dt \in {-1, 0, 1}
      PROVE  OffBy(wheels, n, scaled)
             <= OffBy(wheels, n, <<scaled[1] + dx, scaled[2] + dy, scaled[3] + dt>>)
  <2>1. PICK z : z = <<scaled[1] + dx, scaled[2] + dy, scaled[3] + dt>>
    OBVIOUS
  <2>2. z[1] = scaled[1] + dx /\ z[2] = scaled[2] + dy /\ z[3] = scaled[3] + dt
    BY <2>1
  <2>3. dx \in Int /\ dy \in Int /\ dt \in Int /\ p \in Int /\ q \in Int
    BY DEF Pos
  <2>4. OffBy(wheels, n, scaled) <= OffBy(wheels, n, z)
    BY <1>2, <1>3, <2>2, <2>3, LeastSquares
  <2>5. QED BY <2>1, <2>4
<1>5. QED BY <1>1, <1>4 DEF Kin!BestVelocity, OffBy, v, n, scaled

\* Cosine and sine of quarter turns.
LEMMA QuarterTurns ==
  ASSUME NEW q \in Int
  PROVE  /\ q % 4 \in 0..3
         /\ q % 4 = 0 => Kin!Cos(q) = 1 /\ Kin!Sin(q) = 0
         /\ q % 4 = 1 => Kin!Cos(q) = 0 /\ Kin!Sin(q) = 1
         /\ q % 4 = 2 => Kin!Cos(q) = -1 /\ Kin!Sin(q) = 0
         /\ q % 4 = 3 => Kin!Cos(q) = 0 /\ Kin!Sin(q) = -1
<1>1. q % 4 \in 0..3
  BY SMT
<1>2. /\ q % 4 = 0 => (q + 3) % 4 = 3
      /\ q % 4 = 1 => (q + 3) % 4 = 0
      /\ q % 4 = 2 => (q + 3) % 4 = 1
      /\ q % 4 = 3 => (q + 3) % 4 = 2
  BY SMT
<1>3. ASSUME NEW r \in Int
      PROVE  Kin!Cos(r) = (<<1, 0, -1, 0>>)[(r % 4) + 1]
  BY DEF Kin!Cos
<1>4. Kin!Sin(q) = Kin!Cos(q + 3) /\ q + 3 \in Int
  BY DEF Kin!Sin
<1>5. QED BY <1>1, <1>2, <1>3, <1>4

LEMMA TurnsAreIntegers ==
  ASSUME NEW q \in Int
  PROVE  Kin!Cos(q) \in Int /\ Kin!Sin(q) \in Int
BY QuarterTurns

\* What the drive goes in one update at a heading, in quarters.
WentX(w, q) == Kin!Cos(q) * SumX(w) - Kin!Sin(q) * SumY(w)
WentY(w, q) == Kin!Sin(q) * SumX(w) + Kin!Cos(q) * SumY(w)

\* The way after n updates that each turn the rover by t.
WayIs(w, n, q, t, x, y) ==
  /\ n = 0 => x = 0 /\ y = 0
  /\ n = 1 => x = WentX(w, q) /\ y = WentY(w, q)
  /\ n = 2 => /\ x = WentX(w, q) + WentX(w, q + 1 * t)
              /\ y = WentY(w, q) + WentY(w, q + 1 * t)
  /\ n = 3 => /\ x = WentX(w, q) + WentX(w, q + 1 * t) + WentX(w, q + 2 * t)
              /\ y = WentY(w, q) + WentY(w, q + 1 * t) + WentY(w, q + 2 * t)
  /\ n = 4 => /\ x = WentX(w, q) + WentX(w, q + 1 * t) + WentX(w, q + 2 * t) + WentX(w, q + 3 * t)
              /\ y = WentY(w, q) + WentY(w, q + 1 * t) + WentY(w, q + 2 * t) + WentY(w, q + 3 * t)
  /\ t = 0 => x = n * WentX(w, q) /\ y = n * WentY(w, q)

LEMMA WayGoesOn ==
  ASSUME NEW w \in [1..4 -> Vectors], NEW n \in Nat, NEW q \in Int, NEW t \in Int,
         NEW x \in Int, NEW y \in Int, WayIs(w, n, q, t, x, y)
  PROVE  /\ WentX(w, q + n * t) \in Int /\ WentY(w, q + n * t) \in Int
         /\ WayIs(w, n + 1, q, t, x + WentX(w, q + n * t), y + WentY(w, q + n * t))
<1>1. SumX(w) \in Int /\ SumY(w) \in Int
  BY WheelsAre, RobotVelIs
<1>2. \A h \in Int : WentX(w, h) \in Int /\ WentY(w, h) \in Int
  BY <1>1, TurnsAreIntegers DEF WentX, WentY
<1>3. q + n * t \in Int /\ q + 0 * t = q /\ q + 1 * t \in Int /\ q + 2 * t \in Int
      /\ q + 3 * t \in Int
  OBVIOUS
<1>4. PICK a, b \in Int : a = WentX(w, q + n * t) /\ b = WentY(w, q + n * t)
  BY <1>2, <1>3
<1>5. n + 1 # 0
  OBVIOUS
<1>6. n + 1 = 1 => x + a = WentX(w, q) /\ y + b = WentY(w, q)
  <2>1. SUFFICES ASSUME n = 0 PROVE x + a = WentX(w, q) /\ y + b = WentY(w, q)
    OBVIOUS
  <2>2. a = WentX(w, q) /\ b = WentY(w, q) /\ x = 0 /\ y = 0
    BY <1>3, <1>4, <2>1 DEF WayIs
  <2>3. QED BY <2>2
<1>7. n + 1 = 2 => /\ x + a = WentX(w, q) + WentX(w, q + 1 * t)
                   /\ y + b = WentY(w, q) + WentY(w, q + 1 * t)
  <2>1. SUFFICES ASSUME n = 1
                 PROVE  /\ x + a = WentX(w, q) + WentX(w, q + 1 * t)
                        /\ y + b = WentY(w, q) + WentY(w, q + 1 * t)
    OBVIOUS
  <2>2. a = WentX(w, q + 1 * t) /\ b = WentY(w, q + 1 * t)
    BY <1>4, <2>1
  <2>3. x = WentX(w, q) /\ y = WentY(w, q)
    BY <2>1 DEF WayIs
  <2>4. QED BY <2>2, <2>3
<1>8. n + 1 = 3 => /\ x + a = WentX(w, q) + WentX(w, q + 1 * t) + WentX(w, q + 2 * t)
                   /\ y + b = WentY(w, q) + WentY(w, q + 1 * t) + WentY(w, q + 2 * t)
  <2>1. SUFFICES ASSUME n = 2
                 PROVE  /\ x + a = WentX(w, q) + WentX(w, q + 1 * t) + WentX(w, q + 2 * t)
                        /\ y + b = WentY(w, q) + WentY(w, q + 1 * t) + WentY(w, q + 2 * t)
    OBVIOUS
  <2>2. a = WentX(w, q + 2 * t) /\ b = WentY(w, q + 2 * t)
    BY <1>4, <2>1
  <2>3. /\ x = WentX(w, q) + WentX(w, q + 1 * t) /\ y = WentY(w, q) + WentY(w, q + 1 * t)
    BY <2>1 DEF WayIs
  <2>4. QED BY <2>2, <2>3
<1>9. n + 1 = 4 =>
        /\ x + a = WentX(w, q) + WentX(w, q + 1 * t) + WentX(w, q + 2 * t) + WentX(w, q + 3 * t)
        /\ y + b = WentY(w, q) + WentY(w, q + 1 * t) + WentY(w, q + 2 * t) + WentY(w, q + 3 * t)
  <2>1. SUFFICES ASSUME n = 3
        PROVE
        /\ x + a = WentX(w, q) + WentX(w, q + 1 * t) + WentX(w, q + 2 * t) + WentX(w, q + 3 * t)
        /\ y + b = WentY(w, q) + WentY(w, q + 1 * t) + WentY(w, q + 2 * t) + WentY(w, q + 3 * t)
    OBVIOUS
  <2>2. a = WentX(w, q + 3 * t) /\ b = WentY(w, q + 3 * t)
    BY <1>4, <2>1
  <2>3. /\ x = WentX(w, q) + WentX(w, q + 1 * t) + WentX(w, q + 2 * t)
        /\ y = WentY(w, q) + WentY(w, q + 1 * t) + WentY(w, q + 2 * t)
    BY <2>1 DEF WayIs
  <2>4. QED BY <2>2, <2>3
<1>10. t = 0 => x + a = (n + 1) * WentX(w, q) /\ y + b = (n + 1) * WentY(w, q)
  <2>1. SUFFICES ASSUME t = 0
                 PROVE  x + a = (n + 1) * WentX(w, q) /\ y + b = (n + 1) * WentY(w, q)
    OBVIOUS
  <2>2. q + n * t = q
    BY <2>1
  <2>3. a = WentX(w, q) /\ b = WentY(w, q) /\ x = n * WentX(w, q) /\ y = n * WentY(w, q)
    BY <1>4, <2>1, <2>2 DEF WayIs
  <2>4. x + a = n * a + a /\ y + b = n * b + b
    BY <2>3
  <2>5. \A i \in Int : n * i + i = (n + 1) * i
    OBVIOUS
  <2>6. QED BY <2>3, <2>4, <2>5
<1>11. WayIs(w, n + 1, q, t, x + a, y + b)
  BY <1>5, <1>6, <1>7, <1>8, <1>9, <1>10 DEF WayIs
<1>12. QED BY <1>4, <1>11

\* Four turns by no whole one lead back.
LEMMA FourTurnsClose ==
  ASSUME NEW w \in [1..4 -> Vectors], NEW q \in Int, NEW t \in Int, t % 4 # 0,
         NEW x \in Int, NEW y \in Int, WayIs(w, 4, q, t, x, y)
  PROVE  x = 0 /\ y = 0
<1>1. PICK a, b \in Int : a = SumX(w) /\ b = SumY(w)
  BY WheelsAre, RobotVelIs
<1>2. q + 1 * t \in Int /\ q + 2 * t \in Int /\ q + 3 * t \in Int
  OBVIOUS
<1>3. PICK c0, c1, c2, c3, s0, s1, s2, s3 \in Int :
        /\ c0 = Kin!Cos(q) /\ c1 = Kin!Cos(q + 1 * t) /\ c2 = Kin!Cos(q + 2 * t)
        /\ c3 = Kin!Cos(q + 3 * t)
        /\ s0 = Kin!Sin(q) /\ s1 = Kin!Sin(q + 1 * t) /\ s2 = Kin!Sin(q + 2 * t)
        /\ s3 = Kin!Sin(q + 3 * t)
  BY <1>2, TurnsAreIntegers
<1>4. c0 + c1 + c2 + c3 = 0 /\ s0 + s1 + s2 + s3 = 0
  <2>1. PICK r0, r1, r2, r3 \in 0..3 :
          r0 = q % 4 /\ r1 = (q + 1 * t) % 4 /\ r2 = (q + 2 * t) % 4 /\ r3 = (q + 3 * t) % 4
    BY <1>2, QuarterTurns
  <2>2. PICK u \in 1..3 : u = t % 4
    BY QuarterTurns
  <2>3. r1 = (r0 + u) % 4 /\ r2 = (r0 + 2 * u) % 4 /\ r3 = (r0 + 3 * u) % 4
    BY <2>1, <2>2
  <2>4. /\ r0 = 0 => c0 = 1 /\ s0 = 0
        /\ r0 = 1 => c0 = 0 /\ s0 = 1
        /\ r0 = 2 => c0 = -1 /\ s0 = 0
        /\ r0 = 3 => c0 = 0 /\ s0 = -1
    BY <1>3, <2>1, QuarterTurns
  <2>5. /\ r1 = 0 => c1 = 1 /\ s1 = 0
        /\ r1 = 1 => c1 = 0 /\ s1 = 1
        /\ r1 = 2 => c1 = -1 /\ s1 = 0
        /\ r1 = 3 => c1 = 0 /\ s1 = -1
    BY <1>2, <1>3, <2>1, QuarterTurns
  <2>6. /\ r2 = 0 => c2 = 1 /\ s2 = 0
        /\ r2 = 1 => c2 = 0 /\ s2 = 1
        /\ r2 = 2 => c2 = -1 /\ s2 = 0
        /\ r2 = 3 => c2 = 0 /\ s2 = -1
    BY <1>2, <1>3, <2>1, QuarterTurns
  <2>7. /\ r3 = 0 => c3 = 1 /\ s3 = 0
        /\ r3 = 1 => c3 = 0 /\ s3 = 1
        /\ r3 = 2 => c3 = -1 /\ s3 = 0
        /\ r3 = 3 => c3 = 0 /\ s3 = -1
    BY <1>2, <1>3, <2>1, QuarterTurns
  <2>8. CASE u = 1
    BY <2>3, <2>4, <2>5, <2>6, <2>7, <2>8
  <2>9. CASE u = 2
    BY <2>3, <2>4, <2>5, <2>6, <2>7, <2>9
  <2>10. CASE u = 3
    BY <2>3, <2>4, <2>5, <2>6, <2>7, <2>10
  <2>11. QED BY <2>8, <2>9, <2>10
<1>5. x = (c0 * a - s0 * b) + (c1 * a - s1 * b) + (c2 * a - s2 * b) + (c3 * a - s3 * b)
      /\ y = (s0 * a + c0 * b) + (s1 * a + c1 * b) + (s2 * a + c2 * b) + (s3 * a + c3 * b)
  BY <1>1, <1>3 DEF WayIs, WentX, WentY
<1>6. x = a * (c0 + c1 + c2 + c3) - b * (s0 + s1 + s2 + s3)
      /\ y = a * (s0 + s1 + s2 + s3) + b * (c0 + c1 + c2 + c3)
  BY <1>5
<1>7. a * 0 = 0 /\ b * 0 = 0
  OBVIOUS
<1>8. QED BY <1>4, <1>6, <1>7

\* Ahead of the rover, seen from the heading q.
AheadX(q, x, y) == Kin!Cos(q) * x + Kin!Sin(q) * y
AheadY(q, x, y) == Kin!Cos(q) * y - Kin!Sin(q) * x

LEMMA TwoQuarterTurns ==
  ASSUME NEW w \in [1..4 -> Vectors], NEW q \in Int, NEW x \in Int, NEW y \in Int,
         WayIs(w, 2, q, 1, x, y)
  PROVE  AheadX(q, x, y) = SumX(w) - SumY(w) /\ AheadY(q, x, y) = SumX(w) + SumY(w)
<1>1. PICK a, b \in Int : a = SumX(w) /\ b = SumY(w)
  BY WheelsAre, RobotVelIs
<1>2. q + 1 * 1 = q + 1 /\ q + 1 \in Int
  OBVIOUS
<1>3. PICK c0, c1, s0, s1 \in Int :
        c0 = Kin!Cos(q) /\ c1 = Kin!Cos(q + 1) /\ s0 = Kin!Sin(q) /\ s1 = Kin!Sin(q + 1)
  BY <1>2, TurnsAreIntegers
<1>4. \/ c0 = 1 /\ s0 = 0 /\ c1 = 0 /\ s1 = 1
      \/ c0 = 0 /\ s0 = 1 /\ c1 = -1 /\ s1 = 0
      \/ c0 = -1 /\ s0 = 0 /\ c1 = 0 /\ s1 = -1
      \/ c0 = 0 /\ s0 = -1 /\ c1 = 1 /\ s1 = 0
  <2>1. q % 4 \in 0..3 /\ (q + 1) % 4 = IF q % 4 = 3 THEN 0 ELSE (q % 4) + 1
    BY SMT
  <2>2. /\ q % 4 = 0 => c0 = 1 /\ s0 = 0
        /\ q % 4 = 1 => c0 = 0 /\ s0 = 1
        /\ q % 4 = 2 => c0 = -1 /\ s0 = 0
        /\ q % 4 = 3 => c0 = 0 /\ s0 = -1
    BY <1>3, QuarterTurns
  <2>3. /\ (q + 1) % 4 = 0 => c1 = 1 /\ s1 = 0
        /\ (q + 1) % 4 = 1 => c1 = 0 /\ s1 = 1
        /\ (q + 1) % 4 = 2 => c1 = -1 /\ s1 = 0
        /\ (q + 1) % 4 = 3 => c1 = 0 /\ s1 = -1
    BY <1>2, <1>3, QuarterTurns
  <2>4. QED BY <2>1, <2>2, <2>3
<1>5. x = (c0 * a - s0 * b) + (c1 * a - s1 * b) /\ y = (s0 * a + c0 * b) + (s1 * a + c1 * b)
  BY <1>1, <1>2, <1>3 DEF WayIs, WentX, WentY
<1>6. c0 * x + s0 * y = a - b /\ c0 * y - s0 * x = a + b
  BY <1>4, <1>5
<1>7. QED BY <1>1, <1>3, <1>6 DEF AheadX, AheadY

LEMMA StraightAhead ==
  ASSUME NEW w \in [1..4 -> Vectors], NEW n \in Nat, NEW q \in Int, NEW x \in Int, NEW y \in Int,
         WayIs(w, n, q, 0, x, y)
  PROVE  AheadX(q, x, y) = n * SumX(w) /\ AheadY(q, x, y) = n * SumY(w)
<1>1. PICK a, b \in Int : a = SumX(w) /\ b = SumY(w)
  BY WheelsAre, RobotVelIs
<1>2. PICK c, s \in Int : c = Kin!Cos(q) /\ s = Kin!Sin(q)
  BY TurnsAreIntegers
<1>3. \/ c = 1 /\ s = 0
      \/ c = 0 /\ s = 1
      \/ c = -1 /\ s = 0
      \/ c = 0 /\ s = -1
  BY <1>2, QuarterTurns
<1>4. x = n * (c * a - s * b) /\ y = n * (s * a + c * b)
  BY <1>1, <1>2 DEF WayIs, WentX, WentY
<1>5. c * x + s * y = n * a /\ c * y - s * x = n * b
  BY <1>3, <1>4
<1>6. QED BY <1>1, <1>2, <1>5 DEF AheadX, AheadY

LEMMA WholeTimes ==
  ASSUME NEW a, NEW c \in Int, NEW n \in Int, NEW d \in Pos, Is(a, n, d)
  PROVE  Is(Times(Whole(c), a), c * n, d)
<1>1. 1 \in Pos /\ c * 1 = c /\ 1 * d = d
  BY DEF Pos
<1>2. Is(Whole(c), c, 1)
  BY <1>1, WholeIs
<1>3. Is(Times(Whole(c), a), c * n, 1 * d)
  BY <1>1, <1>2, TimesIs
<1>4. QED BY <1>1, <1>3

\* The drive's velocity is known from its wheels, and so is its way since they changed.
Turn(w) == Kin!WheelVelToRobotVel(w)[3][1]
DriveInv ==
  /\ wheels \in [1..4 -> Vectors]
  /\ steered # <<>> =>
       steered \in Int \X Int \X Int /\ wheels = Kin!RobotVelToWheelVel(steered)
  /\ turns \in Nat
  /\ \E x, y, i, j, q \in Int :
       /\ Is(kPose[1], x, 4) /\ Is(kPose[2], y, 4)
       /\ Is(start[1], i, 4) /\ Is(start[2], j, 4) /\ start[3] = Whole(q)
       /\ kPose[3] = Whole(q + turns * Turn(wheels))
       /\ WayIs(wheels, turns, q, Turn(wheels), x - i, y - j)

LEMMA VelIs ==
  ASSUME NEW w \in [1..4 -> Vectors]
  PROVE  LET v == Kin!WheelVelToRobotVel(w)
         IN /\ SumX(w) \in Int /\ SumY(w) \in Int /\ Is(v[1], SumX(w), 4) /\ Is(v[2], SumY(w), 4)
            /\ Turn(w) \in Int /\ IsFrac(v[3])
  BY WheelsAre, RobotVelIs DEF Turn, Is, IsFrac

LEMMA NothingIsNoWay ==
  ASSUME NEW w \in [1..4 -> Vectors], NEW q \in Int, NEW t \in Int
  PROVE  WayIs(w, 0, q, t, 0, 0)
<1>1. WentX(w, q) \in Int /\ WentY(w, q) \in Int
  BY VelIs, TurnsAreIntegers DEF WentX, WentY
<1>2. 0 * WentX(w, q) = 0 /\ 0 * WentY(w, q) = 0
  BY <1>1
<1>3. QED BY <1>2 DEF WayIs

LEMMA PolygonHolds ==
  ASSUME DriveInv
  PROVE  Kin!PolygonCloses
<1>1. PICK x, y, i, j, q \in Int :
        /\ Is(kPose[1], x, 4) /\ Is(kPose[2], y, 4)
        /\ Is(start[1], i, 4) /\ Is(start[2], j, 4) /\ start[3] = Whole(q)
        /\ WayIs(wheels, turns, q, Turn(wheels), x - i, y - j)
  BY DEF DriveInv
<1>2. wheels \in [1..4 -> Vectors] /\ turns \in Nat /\ 4 \in Pos
  BY DEF DriveInv, Pos
<1>3. PICK v : v = Kin!WheelVelToRobotVel(wheels)
  OBVIOUS
<1>4. PICK a, b, t \in Int : /\ a = SumX(wheels) /\ b = SumY(wheels) /\ t = Turn(wheels)
                             /\ t = v[3][1] /\ Is(v[1], a, 4) /\ Is(v[2], b, 4)
  BY <1>2, <1>3, VelIs DEF Turn
<1>5. PICK by : by = [k \in 1..2 |-> Minus(kPose[k], start[k])]
  OBVIOUS
<1>6. PICK e, f \in Int : /\ e = x - i /\ f = y - j /\ Is(by[1], e, 4) /\ Is(by[2], f, 4)
                          /\ WayIs(wheels, turns, q, t, e, f)
  <2>1. by[1] = Minus(kPose[1], start[1]) /\ by[2] = Minus(kPose[2], start[2])
    BY <1>5
  <2>2. Is(by[1], x - i, 4) /\ Is(by[2], y - j, 4)
    BY <1>1, <1>2, <2>1, MinusIs
  <2>3. x - i \in Int /\ y - j \in Int
    OBVIOUS
  <2>4. QED BY <1>1, <1>4, <2>2, <2>3
<1>7. start[3][1] = q
  BY <1>1 DEF Whole
<1>8. PICK c, s \in Int : c = Kin!Cos(q) /\ s = Kin!Sin(q)
  BY TurnsAreIntegers
<1>9. PICK ahead : ahead = <<Plus(Times(Whole(c), by[1]), Times(Whole(s), by[2])),
                             Minus(Times(Whole(c), by[2]), Times(Whole(s), by[1]))>>
  OBVIOUS
<1>10. Is(ahead[1], AheadX(q, e, f), 4) /\ Is(ahead[2], AheadY(q, e, f), 4)
  <2>1. /\ Is(Times(Whole(c), by[1]), c * e, 4) /\ Is(Times(Whole(s), by[2]), s * f, 4)
        /\ Is(Times(Whole(c), by[2]), c * f, 4) /\ Is(Times(Whole(s), by[1]), s * e, 4)
    BY <1>2, <1>6, WholeTimes
  <2>2. c * e \in Int /\ s * f \in Int /\ c * f \in Int /\ s * e \in Int
    OBVIOUS
  <2>3. Is(ahead[1], c * e + s * f, 4)
    BY <1>2, <1>9, <2>1, <2>2, PlusIs
  <2>4. Is(ahead[2], c * f - s * e, 4)
    BY <1>2, <1>9, <2>1, <2>2, MinusIs
  <2>5. QED BY <1>8, <2>3, <2>4 DEF AheadX, AheadY
<1>11. v[3][1] % 4 # 0 /\ turns = 4 => by = <<Zero, Zero>>
  <2>1. SUFFICES ASSUME t % 4 # 0, turns = 4 PROVE by = <<Zero, Zero>>
    BY <1>4
  <2>2. e = 0 /\ f = 0
    BY <1>2, <1>6, <2>1, FourTurnsClose
  <2>3. Is(Zero, 0, 4)
    BY <1>2, OneIs
  <2>4. by[1] = Zero /\ by[2] = Zero
    BY <1>2, <1>6, <2>2, <2>3, IsUnique
  <2>5. QED BY <1>5, <2>4
<1>12. v[3] = One /\ turns = 2 => ahead = <<Minus(v[1], v[2]), Plus(v[1], v[2])>>
  <2>1. SUFFICES ASSUME v[3] = One, turns = 2
                 PROVE  ahead = <<Minus(v[1], v[2]), Plus(v[1], v[2])>>
    OBVIOUS
  <2>2. t = 1
    BY <1>4, <2>1 DEF One, Whole
  <2>3. AheadX(q, e, f) = a - b /\ AheadY(q, e, f) = a + b
    BY <1>2, <1>4, <1>6, <2>1, <2>2, TwoQuarterTurns
  <2>4. Is(Minus(v[1], v[2]), a - b, 4) /\ Is(Plus(v[1], v[2]), a + b, 4)
    BY <1>2, <1>4, MinusIs, PlusIs
  <2>5. a - b \in Int /\ a + b \in Int
    OBVIOUS
  <2>6. ahead[1] = Minus(v[1], v[2]) /\ ahead[2] = Plus(v[1], v[2])
    BY <1>2, <1>10, <2>3, <2>4, <2>5, IsUnique
  <2>7. QED BY <1>9, <2>6
<1>13. v[3] = Zero => ahead = <<Times(Whole(turns), v[1]), Times(Whole(turns), v[2])>>
  <2>1. SUFFICES ASSUME v[3] = Zero
                 PROVE  ahead = <<Times(Whole(turns), v[1]), Times(Whole(turns), v[2])>>
    OBVIOUS
  <2>2. t = 0
    BY <1>4, <2>1 DEF Zero, Whole
  <2>3. AheadX(q, e, f) = turns * a /\ AheadY(q, e, f) = turns * b
    BY <1>2, <1>4, <1>6, <2>2, StraightAhead
  <2>4. Is(Times(Whole(turns), v[1]), turns * a, 4) /\ Is(Times(Whole(turns), v[2]), turns * b, 4)
    BY <1>2, <1>4, WholeTimes
  <2>5. turns * a \in Int /\ turns * b \in Int
    BY <1>2
  <2>6. ahead[1] = Times(Whole(turns), v[1]) /\ ahead[2] = Times(Whole(turns), v[2])
    BY <1>2, <1>10, <2>3, <2>4, <2>5, IsUnique
  <2>7. QED BY <1>9, <2>6
<1>14. QED BY <1>3, <1>5, <1>7, <1>8, <1>9, <1>11, <1>12, <1>13, KinIsFractions
           DEF Kin!PolygonCloses

LEMMA StandKeeps ==
  ASSUME DriveInv, wheels' \in [1..4 -> Vectors], start' = kPose, turns' = 0, kPose' = kPose,
         steered' # <<>> =>
           steered' \in Int \X Int \X Int /\ wheels' = Kin!RobotVelToWheelVel(steered')
  PROVE  DriveInv'
<1>1. PICK x, y, q \in Int : /\ Is(kPose[1], x, 4) /\ Is(kPose[2], y, 4) /\ kPose[3] = Whole(q)
  <2>1. PICK x, y, q \in Int : /\ Is(kPose[1], x, 4) /\ Is(kPose[2], y, 4)
                               /\ kPose[3] = Whole(q + turns * Turn(wheels))
    BY DEF DriveInv
  <2>2. turns \in Int /\ Turn(wheels) \in Int
    BY VelIs DEF DriveInv
  <2>3. q + turns * Turn(wheels) \in Int
    BY <2>2
  <2>4. QED BY <2>1, <2>3
<1>2. PICK t \in Int : t = Turn(wheels')
  BY VelIs
<1>3. WayIs(wheels', 0, q, t, 0, 0)
  BY NothingIsNoWay
<1>4. x - x = 0 /\ y - y = 0 /\ q + 0 * t = q
  OBVIOUS
<1>5. \E x1, y1, i, j, q1 \in Int :
       /\ Is(kPose'[1], x1, 4) /\ Is(kPose'[2], y1, 4)
       /\ Is(start'[1], i, 4) /\ Is(start'[2], j, 4) /\ start'[3] = Whole(q1)
       /\ kPose'[3] = Whole(q1 + turns' * Turn(wheels'))
       /\ WayIs(wheels', turns', q1, Turn(wheels'), x1 - i, y1 - j)
  <2>1. WayIs(wheels', turns', q, Turn(wheels'), x - x, y - y)
    BY <1>2, <1>3, <1>4
  <2>2. kPose'[3] = Whole(q + turns' * Turn(wheels'))
    BY <1>1, <1>2, <1>4
  <2>3. /\ Is(kPose'[1], x, 4) /\ Is(kPose'[2], y, 4)
        /\ Is(start'[1], x, 4) /\ Is(start'[2], y, 4) /\ start'[3] = Whole(q)
    BY <1>1
  <2>4. QED BY <2>1, <2>2, <2>3, Zenon
<1>6. QED BY <1>5 DEF DriveInv

LEMMA DriveInvInit ==
  ASSUME Kin!Init
  PROVE  DriveInv
<1>1. /\ wheels = Kin!RobotVelToWheelVel(<<0, 0, 0>>) /\ kPose = <<Zero, Zero, Zero>>
      /\ start = kPose /\ turns = 0 /\ steered = <<0, 0, 0>>
  BY KinIsFractions DEF Kin!Init
<1>2. <<0, 0, 0>> \in Int \X Int \X Int
  OBVIOUS
<1>3. wheels \in [1..4 -> Vectors]
  BY <1>1, WheelVelsAre
<1>4. Is(Zero, 0, 4) /\ Zero = Whole(0)
  BY OneIs DEF Pos, Zero
<1>5. PICK t \in Int : t = Turn(wheels)
  BY <1>3, VelIs
<1>6. WayIs(wheels, turns, 0, Turn(wheels), 0 - 0, 0 - 0)
  <2>1. 0 - 0 = 0
    OBVIOUS
  <2>2. QED BY <1>1, <1>3, <1>5, <2>1, NothingIsNoWay
<1>7. kPose[3] = Whole(0 + turns * Turn(wheels))
  <2>1. 0 + 0 * t = 0
    OBVIOUS
  <2>2. QED BY <1>1, <1>4, <1>5, <2>1
<1>8. /\ Is(kPose[1], 0, 4) /\ Is(kPose[2], 0, 4)
      /\ Is(start[1], 0, 4) /\ Is(start[2], 0, 4) /\ start[3] = Whole(0) /\ 0 \in Int
  BY <1>1, <1>4
<1>9. \E x, y, i, j, q \in Int :
       /\ Is(kPose[1], x, 4) /\ Is(kPose[2], y, 4)
       /\ Is(start[1], i, 4) /\ Is(start[2], j, 4) /\ start[3] = Whole(q)
       /\ kPose[3] = Whole(q + turns * Turn(wheels))
       /\ WayIs(wheels, turns, q, Turn(wheels), x - i, y - j)
  BY <1>6, <1>7, <1>8, Zenon
<1>10. turns \in Nat
  BY <1>1
<1>11. QED BY <1>1, <1>2, <1>3, <1>9, <1>10 DEF DriveInv

LEMMA AdvanceKeeps ==
  ASSUME DriveInv, Kin!Advance
  PROVE  DriveInv'
<1>1. PICK x, y, i, j, q \in Int :
        /\ Is(kPose[1], x, 4) /\ Is(kPose[2], y, 4)
        /\ Is(start[1], i, 4) /\ Is(start[2], j, 4) /\ start[3] = Whole(q)
        /\ kPose[3] = Whole(q + turns * Turn(wheels))
        /\ WayIs(wheels, turns, q, Turn(wheels), x - i, y - j)
  BY DEF DriveInv
<1>2. wheels \in [1..4 -> Vectors] /\ turns \in Nat /\ 4 \in Pos
  BY DEF DriveInv, Pos
<1>3. PICK v : v = Kin!WheelVelToRobotVel(wheels)
  OBVIOUS
<1>4. PICK a, b, t \in Int :
        /\ a = SumX(wheels) /\ b = SumY(wheels) /\ t = Turn(wheels) /\ t = v[3][1]
        /\ Is(v[1], a, 4) /\ Is(v[2], b, 4) /\ IsFrac(v[3])
  BY <1>2, <1>3, VelIs DEF Turn
<1>5. /\ v[3][2] = 1 /\ kPose' = Kin!GetNextPose(wheels, kPose) /\ turns' = turns + 1
      /\ wheels' = wheels /\ start' = start /\ steered' = steered
  BY <1>3 DEF Kin!Advance
<1>6. PICK h \in Int : h = q + turns * t
  BY <1>2
<1>7. PICK c, s \in Int : c = Kin!Cos(h) /\ s = Kin!Sin(h)
  BY TurnsAreIntegers
<1>8. kPose[3] = Whole(h) /\ kPose[3][1] = h
  BY <1>1, <1>4, <1>6 DEF Whole
<1>9. PICK u : u = <<Minus(Times(Whole(c), v[1]), Times(Whole(s), v[2])),
                     Plus(Times(Whole(s), v[1]), Times(Whole(c), v[2])), v[3]>>
  OBVIOUS
<1>10. kPose' = [k \in 1..3 |-> Plus(kPose[k], u[k])]
  <2>1. u = Kin!GetPoseUpdate(wheels, kPose[3][1])
    BY <1>3, <1>7, <1>8, <1>9, KinIsFractions DEF Kin!GetPoseUpdate
  <2>2. QED BY <1>5, <2>1, KinIsFractions DEF Kin!GetNextPose
<1>11. PICK e, f \in Int : /\ e = WentX(wheels, h) /\ f = WentY(wheels, h)
                           /\ e = c * a - s * b /\ f = s * a + c * b
  BY <1>4, <1>7 DEF WentX, WentY
<1>12. Is(u[1], e, 4) /\ Is(u[2], f, 4)
  <2>1. /\ Is(Times(Whole(c), v[1]), c * a, 4) /\ Is(Times(Whole(s), v[2]), s * b, 4)
        /\ Is(Times(Whole(s), v[1]), s * a, 4) /\ Is(Times(Whole(c), v[2]), c * b, 4)
    BY <1>2, <1>4, WholeTimes
  <2>2. c * a \in Int /\ s * b \in Int /\ s * a \in Int /\ c * b \in Int
    OBVIOUS
  <2>3. Is(u[1], c * a - s * b, 4)
    BY <1>2, <1>9, <2>1, <2>2, MinusIs
  <2>4. Is(u[2], s * a + c * b, 4)
    BY <1>2, <1>9, <2>1, <2>2, PlusIs
  <2>5. QED BY <1>11, <2>3, <2>4
<1>13. Is(kPose'[1], x + e, 4) /\ Is(kPose'[2], y + f, 4)
  <2>1. kPose'[1] = Plus(kPose[1], u[1]) /\ kPose'[2] = Plus(kPose[2], u[2])
    BY <1>10
  <2>2. Is(Plus(kPose[1], u[1]), x + e, 4)
    BY <1>1, <1>2, <1>12, PlusIs
  <2>3. Is(Plus(kPose[2], u[2]), y + f, 4)
    BY <1>1, <1>2, <1>12, PlusIs
  <2>4. QED BY <2>1, <2>2, <2>3
<1>14. kPose'[3] = Whole(h + t)
  <2>1. kPose'[3] = Plus(Whole(h), v[3])
    BY <1>8, <1>9, <1>10
  <2>2. Is(v[3], t, 1) /\ 1 \in Pos
    BY <1>4, <1>5, IsOwn DEF Pos
  <2>3. Is(Whole(h), h, 1)
    <3>1. h * 1 = h
      OBVIOUS
    <3>2. QED BY <2>2, <3>1, WholeIs
  <2>4. Is(Plus(Whole(h), v[3]), h + t, 1)
    BY <2>2, <2>3, PlusIs
  <2>5. Is(Whole(h + t), h + t, 1) /\ h + t \in Int
    <3>1. (h + t) * 1 = h + t /\ h + t \in Int
      OBVIOUS
    <3>2. QED BY <2>2, <3>1, WholeIs
  <2>6. QED BY <2>1, <2>2, <2>4, <2>5, IsUnique
<1>15. h + t = q + (turns + 1) * t
  BY <1>2, <1>6
<1>16. WayIs(wheels, turns + 1, q, t, (x - i) + e, (y - j) + f)
  <2>1. WayIs(wheels, turns, q, t, x - i, y - j) /\ x - i \in Int /\ y - j \in Int
    BY <1>1, <1>4
  <2>2. QED BY <1>2, <1>6, <1>11, <2>1, WayGoesOn
<1>17. (x - i) + e = (x + e) - i /\ (y - j) + f = (y + f) - j
       /\ x + e \in Int /\ y + f \in Int /\ turns + 1 \in Nat
  BY <1>2
<1>18. Turn(wheels') = t
  BY <1>4, <1>5
<1>19. \E x1, y1, i1, j1, q1 \in Int :
       /\ Is(kPose'[1], x1, 4) /\ Is(kPose'[2], y1, 4)
       /\ Is(start'[1], i1, 4) /\ Is(start'[2], j1, 4) /\ start'[3] = Whole(q1)
       /\ kPose'[3] = Whole(q1 + turns' * Turn(wheels'))
       /\ WayIs(wheels', turns', q1, Turn(wheels'), x1 - i1, y1 - j1)
  <2>1. WayIs(wheels', turns', q, Turn(wheels'), (x + e) - i, (y + f) - j)
    BY <1>5, <1>16, <1>17, <1>18
  <2>2. kPose'[3] = Whole(q + turns' * Turn(wheels'))
    BY <1>5, <1>14, <1>15, <1>18
  <2>3. /\ Is(kPose'[1], x + e, 4) /\ Is(kPose'[2], y + f, 4)
        /\ Is(start'[1], i, 4) /\ Is(start'[2], j, 4) /\ start'[3] = Whole(q)
    BY <1>1, <1>5, <1>13
  <2>4. x + e \in Int /\ y + f \in Int
    BY <1>17
  <2>5. QED BY <2>1, <2>2, <2>3, <2>4, Zenon
<1>20. turns' \in Nat
  BY <1>5, <1>17
<1>21. (/\ wheels \in [1..4 -> Vectors]
        /\ steered # <<>> =>
             steered \in Int \X Int \X Int /\ wheels = Kin!RobotVelToWheelVel(steered))'
  BY <1>5 DEF DriveInv
<1>22. QED BY <1>19, <1>20, <1>21 DEF DriveInv

LEMMA DriveInvStep ==
  ASSUME DriveInv, Kin!DriveNext
  PROVE  DriveInv'
<1>1. ASSUME NEW v \in DriveVels, Kin!Steer(v)
      PROVE  DriveInv'
  <2>1. /\ wheels' = Kin!RobotVelToWheelVel(v) /\ steered' = v /\ start' = kPose /\ turns' = 0
        /\ kPose' = kPose
    BY <1>1 DEF Kin!Steer
  <2>2. v \in Int \X Int \X Int
    BY GearsAssumption
  <2>3. Kin!RobotVelToWheelVel(v) \in [1..4 -> Vectors]
    BY <2>2, WheelVelsAre
  <2>4. QED BY <2>1, <2>2, <2>3, StandKeeps
<1>2. ASSUME NEW k \in 1..4, NEW v \in Slips, Kin!Slip(k, v)
      PROVE  DriveInv'
  <2>1. /\ wheels' = [wheels EXCEPT ![k] = v] /\ steered' = <<>> /\ start' = kPose /\ turns' = 0
        /\ kPose' = kPose
    BY <1>2 DEF Kin!Slip
  <2>2. v \in Vectors
    <3>1. v \in Int \X Int
      BY GearsAssumption
    <3>2. QED BY <3>1 DEF Vectors
  <2>3. wheels' \in [1..4 -> Vectors]
    BY <2>1, <2>2 DEF DriveInv
  <2>4. QED BY <2>1, <2>3, StandKeeps
<1>3. QED BY <1>1, <1>2, AdvanceKeeps DEF Kin!DriveNext

(***************************************************************************)
(* The filters.                                                            *)
(***************************************************************************)
LEMMA FilterIsFractions ==
  /\ \A n, d : Filter!Frac(n, d) = Frac(n, d)
  /\ \A a, b : /\ Filter!Plus(a, b) = Plus(a, b)
               /\ Filter!Minus(a, b) = Minus(a, b)
               /\ Filter!Times(a, b) = Times(a, b)
               /\ Filter!Over(a, b) = Over(a, b)
               /\ Filter!Less(a, b) <=> Less(a, b)
  /\ \A a : /\ Filter!Norm(a) = Norm(a) /\ Filter!Whole(a) = Whole(a)
            /\ Filter!Ceiling(a) = Ceiling(a)
  /\ Filter!Zero = Zero /\ Filter!One = One
<1>1. Filter!Gcd = Gcd
  BY DEF Filter!Gcd, Gcd
<1>2. \A a : Filter!Size(a) = Size(a)
  BY DEF Filter!Size, Size
<1>3. \A n, d : Filter!Frac(n, d) = Frac(n, d)
  BY <1>1, <1>2 DEF Filter!Frac, Frac
<1>4. \A a, b : Filter!Plus(a, b) = Plus(a, b)
  BY <1>1, <1>3 DEF Filter!Plus, Plus
<1>5. \A a, b : Filter!Minus(a, b) = Minus(a, b)
  BY <1>4 DEF Filter!Minus, Minus
<1>6. \A a, b : Filter!Times(a, b) = Times(a, b)
  BY <1>3 DEF Filter!Times, Times
<1>7. \A a, b : Filter!Over(a, b) = Over(a, b)
  BY <1>6 DEF Filter!Over, Over
<1>8. \A a : Filter!Norm(a) = Norm(a) /\ Filter!Whole(a) = Whole(a)
  BY <1>2 DEF Filter!Norm, Norm, Filter!Whole, Whole
<1>9. Filter!Zero = Zero /\ Filter!One = One
  BY <1>8 DEF Filter!Zero, Zero, Filter!One, One
<1>10. \A a, b : Filter!Less(a, b) <=> Less(a, b)
  BY DEF Filter!Less, Less
<1>11. \A a : Filter!Ceiling(a) = Ceiling(a)
  BY DEF Filter!Ceiling, Ceiling
<1>12. QED BY <1>3, <1>4, <1>5, <1>6, <1>7, <1>8, <1>9, <1>10, <1>11

\* Whole turns are added.
LEMMA TurnedIs ==
  ASSUME NEW a, NEW n \in Int, NEW d \in Pos, NEW k \in Int, Is(a, n, d)
  PROVE  Is(Filter!Turned(a, k), n + 360 * (k * d), d)
<1>1. Is(Whole(360 * k), (360 * k) * d, d)
  BY WholeIs
<1>2. (360 * k) * d = 360 * (k * d)
  BY DEF Pos
<1>3. 360 * (k * d) \in Int
  BY DEF Pos
<1>4. QED BY <1>1, <1>2, <1>3, PlusIs, FilterIsFractions DEF Filter!Turned

LEMMA WrappedIs ==
  ASSUME NEW a, NEW n \in Int, NEW d \in Pos, Is(a, n, d)
  PROVE  \E k \in Int : Is(Filter!Wrapped(a), n + 360 * (k * d), d)
<1>1. a[1] \in Int /\ a[2] \in Pos
  BY DEF Is, IsFrac
<1>2. a[1] - 180 * a[2] \in Int /\ 360 * a[2] \in Pos
  BY <1>1 DEF Pos
<1>3. PICK c \in Int : c = Ceiling(Frac(a[1] - 180 * a[2], 360 * a[2]))
  BY <1>2, FracIs, CeilingIs
<1>4. - c \in Int /\ Is(Filter!Turned(a, - c), n + 360 * ((- c) * d), d)
  BY TurnedIs
<1>5. Filter!Wrapped(a) = Filter!Turned(a, - c)
  BY <1>3, FilterIsFractions DEF Filter!Wrapped
<1>6. QED BY <1>4, <1>5

\* The number of whole turns between two headings.
LEMMA TurnsAre ==
  ASSUME NEW a, NEW b, NEW n \in Int, NEW m \in Int, NEW d \in Pos, Is(a, n, d), Is(b, m, d)
  PROVE  LET up == Ceiling(Over(Minus(Minus(b, Whole(180)), a), Whole(360)))
         IN up \in Int /\ \A c \in Int : up <= c <=> (m - 180 * d) - n <= 360 * (c * d)
<1>1. Is(Whole(180), 180 * d, d) /\ Is(Whole(360), 360 * d, d)
  BY WholeIs
<1>2. 180 * d \in Int /\ 360 * d \in Pos /\ m - 180 * d \in Int
  BY DEF Pos
<1>3. Is(Minus(b, Whole(180)), m - 180 * d, d)
  BY <1>1, <1>2, MinusIs
<1>4. Is(Minus(Minus(b, Whole(180)), a), (m - 180 * d) - n, d)
  BY <1>2, <1>3, MinusIs
<1>5. (m - 180 * d) - n \in Int
  BY <1>2
<1>6. Is(Over(Minus(Minus(b, Whole(180)), a), Whole(360)), (m - 180 * d) - n, 360 * d)
  BY <1>1, <1>2, <1>4, <1>5, OverIs
<1> DEFINE up == Ceiling(Over(Minus(Minus(b, Whole(180)), a), Whole(360)))
<1>7. up \in Int /\ \A c \in Int : up <= c <=> (m - 180 * d) - n <= c * (360 * d)
  BY <1>2, <1>5, <1>6, CeilingIs
<1>8. \A c \in Int : c * (360 * d) = 360 * (c * d)
  BY DEF Pos
<1>9. QED BY <1>7, <1>8

\* The heading that is less than a half turn off is found.
LEMMA ClosestIs ==
  ASSUME NEW a, NEW b, NEW n \in Int, NEW m \in Int, NEW d \in Pos, NEW k \in Int,
         Is(a, n, d), Is(b, m, d),
         - (180 * d) < (n + 360 * (k * d)) - m, (n + 360 * (k * d)) - m < 180 * d
  PROVE  Is(Filter!ClosestHeading(a, b), n + 360 * (k * d), d)
<1>1. PICK up \in Int :
        /\ up = Ceiling(Over(Minus(Minus(b, Whole(180)), a), Whole(360)))
        /\ \A c \in Int : up <= c <=> (m - 180 * d) - n <= 360 * (c * d)
  BY TurnsAre
<1>2. \A c \in Int : c * d \in Int /\ (c - 1) * d = c * d - d /\ (- c) * d = - (c * d)
  BY DEF Pos
<1>3. up = k
  <2>1. (m - 180 * d) - n <= 360 * (k * d)
    BY <1>2 DEF Pos
  <2>2. ~ ((m - 180 * d) - n <= 360 * ((k - 1) * d))
    BY <1>2 DEF Pos
  <2>3. up <= k /\ ~ (up <= k - 1)
    BY <1>1, <2>1, <2>2
  <2>4. QED BY <2>3
<1>4. PICK raised : raised = IF up > 0 THEN Filter!Turned(a, up) ELSE a
  OBVIOUS
<1>5. PICK r \in Int : Is(raised, r, d) /\ r = IF k > 0 THEN n + 360 * (k * d) ELSE n
  <2>1. Is(Filter!Turned(a, k), n + 360 * (k * d), d)
    BY TurnedIs
  <2>2. n + 360 * (k * d) \in Int
    BY <1>2
  <2>3. QED BY <1>3, <1>4, <2>1, <2>2
<1>6. PICK down \in Int :
        /\ down = Ceiling(Over(Minus(Minus(raised, b), Whole(180)), Whole(360)))
        /\ \A c \in Int : down <= c <=> (r - m) - 180 * d <= 360 * (c * d)
  <2>1. Is(Whole(180), 180 * d, d) /\ Is(Whole(360), 360 * d, d)
    BY WholeIs
  <2>2. 180 * d \in Int /\ 360 * d \in Pos
    BY DEF Pos
  <2>3. Is(Minus(raised, b), r - m, d) /\ r - m \in Int
    <3>1. Is(raised, r, d)
      BY <1>5
    <3>2. Is(Minus(raised, b), r - m, d)
      BY <3>1, MinusIs
    <3>3. QED BY <3>2
  <2>4. Is(Minus(Minus(raised, b), Whole(180)), (r - m) - 180 * d, d)
    BY <2>1, <2>2, <2>3, MinusIs
  <2>5. (r - m) - 180 * d \in Int
    BY <2>2
  <2>6. Is(Over(Minus(Minus(raised, b), Whole(180)), Whole(360)), (r - m) - 180 * d, 360 * d)
    BY <2>1, <2>2, <2>4, <2>5, OverIs
  <2> DEFINE low == Ceiling(Over(Minus(Minus(raised, b), Whole(180)), Whole(360)))
  <2>7. low \in Int /\ \A c \in Int : low <= c <=> (r - m) - 180 * d <= c * (360 * d)
    BY <2>2, <2>5, <2>6, CeilingIs
  <2>8. \A c \in Int : c * (360 * d) = 360 * (c * d)
    BY DEF Pos
  <2>9. QED BY <2>7, <2>8
<1>7. Filter!ClosestHeading(a, b) = IF down > 0 THEN Filter!Turned(raised, - down) ELSE raised
  BY <1>1, <1>4, <1>6, FilterIsFractions DEF Filter!ClosestHeading
<1>8. CASE k > 0
  <2>1. 0 * d = 0 /\ 180 * d \in Int
    BY DEF Pos
  <2>2. (r - m) - 180 * d <= 360 * (0 * d)
    BY <1>5, <1>8, <2>1
  <2>3. ~ (down > 0)
    BY <1>6, <2>2
  <2>4. QED BY <1>5, <1>7, <1>8, <2>3
<1>9. CASE ~ (k > 0)
  <2>1. down = - k
    <3>1. (r - m) - 180 * d <= 360 * ((- k) * d)
      BY <1>2, <1>5, <1>9 DEF Pos
    <3>2. ~ ((r - m) - 180 * d <= 360 * ((- k - 1) * d))
      <4>1. (- k - 1) * d = - (k * d) - d
        BY DEF Pos
      <4>2. QED BY <1>2, <1>5, <1>9, <4>1 DEF Pos
    <3>3. down <= - k /\ ~ (down <= - k - 1)
      BY <1>6, <3>1, <3>2
    <3>4. QED BY <3>3
  <2>2. CASE k < 0
    <3>1. - down = k
      BY <2>1
    <3>2. Is(Filter!Turned(raised, k), r + 360 * (k * d), d)
      BY <1>5, TurnedIs
    <3>3. QED BY <1>5, <1>7, <1>9, <2>1, <2>2, <3>1, <3>2
  <2>3. CASE k = 0
    <3>1. n + 360 * (k * d) = n
      BY <2>3 DEF Pos
    <3>2. QED BY <1>5, <1>7, <2>1, <2>3, <3>1
  <2>4. QED BY <1>9, <2>2, <2>3
<1>10. QED BY <1>8, <1>9

\* A heading that is counted through comes back from where atan2 cuts it off.
LEMMA ToPoseIs ==
  ASSUME NEW a, NEW b, NEW n \in Int, NEW m \in Int, NEW d \in Pos, NEW k \in Int,
         Is(a, n + 360 * (k * d), d), Is(b, m, d), - (180 * d) < n - m, n - m < 180 * d
  PROVE  Is(Filter!ClosestHeading(a, b), n, d) /\ Is(Filter!ToPose(a, b), n, d)
<1>1. \A j \in Int : j * d \in Int /\ (- j) * d = - (j * d)
  BY DEF Pos
<1>2. ASSUME NEW c, NEW j \in Int, Is(c, n + 360 * (j * d), d)
      PROVE  Is(Filter!ClosestHeading(c, b), n, d)
  <2>1. - j \in Int /\ n + 360 * (j * d) \in Int
        /\ (n + 360 * (j * d)) + 360 * ((- j) * d) = n
    BY <1>1
  <2>2. QED BY <1>2, <2>1, ClosestIs
<1>3. PICK i \in Int : Is(Filter!Wrapped(a), (n + 360 * (k * d)) + 360 * (i * d), d)
  BY <1>1, WrappedIs
<1>4. (n + 360 * (k * d)) + 360 * (i * d) = n + 360 * ((k + i) * d) /\ k + i \in Int
  <2>1. (k + i) * d = k * d + i * d
    BY DEF Pos
  <2>2. QED BY <1>1, <2>1
<1>5. QED BY <1>2, <1>3, <1>4 DEF Filter!ToPose

\* An estimate is as close to a heading as the measurements are.
CloseTo(a, t) ==
  \E n \in Int, d \in Pos :
    Is(a, n, d) /\ - (Error * d) <= n - t * d /\ n - t * d <= Error * d

LEMMA CloseToHolds ==
  ASSUME NEW a, NEW t \in Int, CloseTo(a, t)
  PROVE  ~ Less(Whole(Error), Norm(Minus(a, Whole(t))))
<1>1. PICK n \in Int, d \in Pos :
        Is(a, n, d) /\ - (Error * d) <= n - t * d /\ n - t * d <= Error * d
  BY DEF CloseTo
<1>2. Error \in Int /\ t * d \in Int /\ Error * d \in Int
  BY TurnsAssumption DEF Pos
<1>3. Is(Whole(t), t * d, d) /\ Is(Whole(Error), Error * d, d)
  BY <1>2, WholeIs
<1>4. Is(Minus(a, Whole(t)), n - t * d, d) /\ n - t * d \in Int
  <2>1. Is(Minus(a, Whole(t)), n - t * d, d)
    BY <1>1, <1>2, <1>3, MinusIs
  <2>2. QED BY <1>2, <2>1
<1>5. Is(Norm(Minus(a, Whole(t))), Size(n - t * d), d) /\ Size(n - t * d) \in Int
  BY <1>4, NormIs
<1>6. Size(n - t * d) <= Error * d
  BY <1>1, <1>2, <1>4, SizeIs
<1>7. QED BY <1>2, <1>3, <1>5, <1>6, LessIs

LEMMA WholeIsClose ==
  ASSUME NEW t \in Int, NEW e \in Filter!Errors
  PROVE  CloseTo(Whole(t + e), t)
<1>1. e \in Int /\ Error \in Int /\ - Error <= e /\ e <= Error /\ t + e \in Int /\ 1 \in Pos
  BY TurnsAssumption DEF Filter!Errors, Pos
<1>2. Is(Whole(t + e), (t + e) * 1, 1)
  BY <1>1, WholeIs
<1>3. (t + e) * 1 - t * 1 = e /\ Error * 1 = Error /\ (t + e) * 1 \in Int
  BY <1>1
<1>4. QED BY <1>1, <1>2, <1>3 DEF CloseTo

\* The steps of a filter turn the estimate by what the rover turns by.
LEMMA TurnKeepsClose ==
  ASSUME NEW a, NEW b, NEW t \in Int, NEW v \in Int, CloseTo(a, t),
         \A n \in Int, d \in Pos : Is(a, n, d) => Is(b, n + v * d, d)
  PROVE  CloseTo(b, t + v)
<1>1. PICK n \in Int, d \in Pos :
        Is(a, n, d) /\ - (Error * d) <= n - t * d /\ n - t * d <= Error * d
  BY DEF CloseTo
<1>2. v * d \in Int /\ t * d \in Int /\ (t + v) * d = t * d + v * d
  BY DEF Pos
<1>3. (n + v * d) - (t + v) * d = n - t * d /\ n + v * d \in Int
  BY <1>2
<1>4. QED BY <1>1, <1>3 DEF CloseTo

\* Between an estimate and a measurement is nothing worse than the two.
LEMMA GainKeepsClose ==
  ASSUME NEW a, NEW z, NEW gain, NEW t \in Int, NEW e \in Filter!Errors,
         NEW p \in Nat, NEW s \in Pos, CloseTo(a, t), Is(gain, p, s), p <= s,
         \A n \in Int, d \in Pos :
           /\ Is(a, n, d) /\ - (Error * d) <= n - t * d /\ n - t * d <= Error * d
           => Is(z, (t + e) * d, d)
  PROVE  CloseTo(Plus(a, Times(gain, Minus(z, a))), t)
<1>1. PICK n \in Int, d \in Pos :
        Is(a, n, d) /\ - (Error * d) <= n - t * d /\ n - t * d <= Error * d
  BY DEF CloseTo
<1>2. e \in Int /\ Error \in Nat /\ - Error <= e /\ e <= Error
  BY TurnsAssumption DEF Filter!Errors
<1>3. (t + e) * d \in Int /\ t * d \in Int /\ e * d \in Int /\ (t + e) * d = t * d + e * d
  BY <1>2 DEF Pos
<1>4. PICK x \in Int : x = n - t * d
  BY <1>3
<1>5. Is(Minus(z, a), e * d - x, d) /\ e * d - x \in Int
  <2>1. Is(Minus(z, a), (t + e) * d - n, d)
    BY <1>1, <1>3, MinusIs
  <2>2. (t + e) * d - n = e * d - x
    BY <1>3, <1>4
  <2>3. QED BY <1>3, <2>1, <2>2
<1>6. Is(Times(gain, Minus(z, a)), p * (e * d - x), s * d)
  BY <1>5, TimesIs
<1>7. Is(a, s * n, s * d) /\ s * d \in Pos
  BY <1>1, IsScaled, PosTimes
<1>8. p * (e * d - x) \in Int /\ s * n \in Int
  BY <1>5 DEF Pos
<1>9. Is(Plus(a, Times(gain, Minus(z, a))), s * n + p * (e * d - x), s * d)
  BY <1>6, <1>7, <1>8, PlusIs
<1>10. PICK ed \in Int, td \in Int, bound \in Nat :
         ed = e * d /\ td = t * d /\ bound = Error * d /\ - bound <= ed /\ ed <= bound
  <2>1. d * (- Error) <= d * e /\ d * e <= d * Error
    BY <1>2 DEF Pos
  <2>2. d * (- Error) = - (Error * d) /\ d * e = e * d /\ d * Error = Error * d
    BY <1>2 DEF Pos
  <2>3. Error * d \in Nat
    BY <1>2 DEF Pos
  <2>4. QED BY <1>3, <2>1, <2>2, <2>3
<1>11. t * (s * d) = s * td /\ Error * (s * d) = s * bound
  BY <1>2, <1>10 DEF Pos
<1>12. PICK q \in Nat : q = s - p
  BY DEF Pos
<1>13. (s * n + p * (e * d - x)) - t * (s * d) = q * x + p * ed
  <2>1. s * n = s * x + s * td
    <3>1. n = x + td
      BY <1>4, <1>10
    <3>2. QED BY <3>1 DEF Pos
  <2>2. p * (ed - x) = p * ed - p * x
    OBVIOUS
  <2>3. q * x = s * x - p * x
    <3>1. s = q + p
      BY <1>12 DEF Pos
    <3>2. QED BY <3>1
  <2>4. s * td \in Int /\ s * x \in Int /\ p * ed \in Int /\ p * x \in Int
    BY DEF Pos
  <2>5. QED BY <1>10, <1>11, <2>1, <2>2, <2>3, <2>4
<1>14. - (s * bound) <= q * x + p * ed /\ q * x + p * ed <= s * bound
  <2>1. - bound <= x /\ x <= bound
    BY <1>1, <1>4, <1>10
  <2>2. q * (- bound) <= q * x /\ q * x <= q * bound
    BY <2>1
  <2>3. p * (- bound) <= p * ed /\ p * ed <= p * bound
    BY <1>10
  <2>4. s * bound = q * bound + p * bound
        /\ q * (- bound) = - (q * bound) /\ p * (- bound) = - (p * bound)
    <3>1. s = q + p
      BY <1>12 DEF Pos
    <3>2. QED BY <3>1
  <2>5. q * bound \in Int /\ p * bound \in Int /\ q * x \in Int /\ p * ed \in Int
    OBVIOUS
  <2>6. QED BY <2>2, <2>3, <2>4, <2>5
<1>15. s * n + p * (e * d - x) \in Int
  BY <1>8
<1>16. QED BY <1>7, <1>9, <1>11, <1>13, <1>14, <1>15 DEF CloseTo

\* What is measured is found again, however many turns are off.
LEMMA MeasuredIs ==
  ASSUME NEW a, NEW t \in Int, NEW e \in Filter!Errors, NEW n \in Int, NEW d \in Pos,
         Is(a, n, d), - (Error * d) <= n - t * d, n - t * d <= Error * d
  PROVE  LET heading == Filter!Wrapped(Whole(t + e))
         IN /\ Is(Filter!ClosestHeading(heading, a), (t + e) * d, d)
            /\ Is(Filter!ToPose(heading, a), (t + e) * d, d)
<1>1. e \in Int /\ Error \in 0..89 /\ - Error <= e /\ e <= Error /\ t + e \in Int
  BY TurnsAssumption DEF Filter!Errors
<1>2. (t + e) * d \in Int /\ t * d \in Int /\ e * d \in Int /\ (t + e) * d = t * d + e * d
  BY <1>1 DEF Pos
<1>3. Is(Whole(t + e), (t + e) * d, d)
  BY <1>1, WholeIs
<1>4. PICK k \in Int : Is(Filter!Wrapped(Whole(t + e)), (t + e) * d + 360 * (k * d), d)
  BY <1>2, <1>3, WrappedIs
<1>5. - (180 * d) < (t + e) * d - n /\ (t + e) * d - n < 180 * d
  <2>1. d * (- Error) <= d * e /\ d * e <= d * Error /\ d * Error <= d * 89
    BY <1>1 DEF Pos
  <2>2. d * (- Error) = - (Error * d) /\ d * e = e * d /\ d * Error = Error * d
        /\ d * 89 = 89 * d
    BY <1>1 DEF Pos
  <2>3. PICK x \in Int, y \in Int, z \in Int : x = t * d /\ y = e * d /\ z = Error * d
    BY <1>1, <1>2 DEF Pos
  <2>4. - z <= y /\ y <= z /\ z <= 89 * d
    BY <2>1, <2>2, <2>3, Zenon
  <2>5. - z <= n - x /\ n - x <= z /\ (t + e) * d = x + y
    BY <1>2, <2>3, Zenon
  <2>6. - (180 * d) < (x + y) - n /\ (x + y) - n < 180 * d
    BY <2>4, <2>5 DEF Pos
  <2>7. QED BY <2>5, <2>6, Zenon
<1>6. QED BY <1>2, <1>4, <1>5, ToPoseIs

LEMMA OneTimes ==
  ASSUME NEW a, NEW n \in Int, NEW d \in Pos, Is(a, n, d)
  PROVE  Is(Times(One, a), n, d) /\ Is(Times(a, One), n, d)
<1>1. Is(One, 1, 1) /\ 1 \in Pos
  BY OneIs DEF Pos
<1>2. Is(Times(One, a), 1 * n, 1 * d) /\ Is(Times(a, One), n * 1, d * 1)
  BY <1>1, TimesIs
<1>3. 1 * n = n /\ n * 1 = n /\ 1 * d = d /\ d * 1 = d
  BY DEF Pos
<1>4. QED BY <1>2, <1>3

NonNegative(a) == \E n \in Nat, d \in Pos : Is(a, n, d)
Positive(a) == \E n \in Pos, d \in Pos : Is(a, n, d)

LEMMA SumOfNonNegatives ==
  ASSUME NEW a, NEW b, NonNegative(b)
  PROVE  /\ NonNegative(a) => NonNegative(Plus(a, b))
         /\ Positive(a) => Positive(Plus(a, b))
<1>1. PICK m \in Nat, e \in Pos : Is(b, m, e)
  BY DEF NonNegative
<1>2. ASSUME NEW n \in Nat, NEW d \in Pos, Is(a, n, d)
      PROVE  Is(Plus(a, b), n * e + m * d, d * e)
  <2>1. Is(a, n * e, d * e) /\ Is(b, m * d, d * e)
    BY <1>1, <1>2, IsCommon
  <2>2. n * e \in Int /\ m * d \in Int /\ d * e \in Pos
    BY PosTimes DEF Pos
  <2>3. QED BY <2>1, <2>2, PlusIs
<1>3. \A n \in Nat, d \in Pos :
        /\ n * e + m * d \in Nat /\ d * e \in Pos
        /\ n \in Pos => n * e + m * d \in Pos
  <2>1. \A n \in Nat, d \in Pos : n * e \in Nat /\ m * d \in Nat /\ d * e \in Pos
    BY PosTimes DEF Pos
  <2>2. \A n \in Pos : n * e \in Pos
    BY PosTimes
  <2>3. \A x \in Pos, y \in Nat : x + y \in Pos
    BY DEF Pos
  <2>4. QED BY <2>1, <2>2, <2>3
<1>4. NonNegative(a) => NonNegative(Plus(a, b))
  BY <1>2, <1>3 DEF NonNegative
<1>5. Positive(a) => Positive(Plus(a, b))
  <2>1. Pos \subseteq Nat
    BY DEF Pos
  <2>2. QED BY <1>2, <1>3, <2>1 DEF Positive
<1>6. QED BY <1>4, <1>5

\* A variance stays none below zero.
LEMMA SquareIsNonNegative ==
  ASSUME NEW a, NEW q, IsFrac(a), NonNegative(q)
  PROVE  NonNegative(Times(Times(a, q), a))
<1>1. PICK n \in Int, d \in Pos : Is(a, n, d)
  BY IsOwn
<1>2. PICK m \in Nat, e \in Pos : Is(q, m, e)
  BY DEF NonNegative
<1>3. Is(Times(a, q), n * m, d * e) /\ d * e \in Pos /\ n * m \in Int
  BY <1>1, <1>2, TimesIs, PosTimes
<1>4. Is(Times(Times(a, q), a), (n * m) * n, (d * e) * d) /\ (d * e) * d \in Pos
  BY <1>1, <1>3, TimesIs, PosTimes
<1>5. (n * m) * n \in Nat
  <2>1. n * n \in Nat
    BY SMT
  <2>2. (n * m) * n = (n * n) * m
    OBVIOUS
  <2>3. \A x, y \in Nat : x * y \in Nat
    OBVIOUS
  <2>4. QED BY <2>1, <2>2, <2>3
<1>6. QED BY <1>4, <1>5 DEF NonNegative

\* What the drive makes of the velocities of its wheels.
LEMMA StateIs ==
  ASSUME NEW x, NEW u, NEW w, NEW e \in Pos, NEW n \in Int, Is(x, n, e * WheelBase),
         NEW a1 \in Int, NEW a2 \in Int, Is(u[1], a1, e), Is(u[2], a2, e),
         NEW b1 \in Int, NEW b2 \in Int, Is(w[1], b1, e), Is(w[2], b2, e)
  PROVE  Is(Filter!StateFunc(x, u, w), n + ((a2 + b2) - (a1 + b1)), e * WheelBase)
<1>1. WheelBase \in Pos /\ e * WheelBase \in Pos
  BY TurnsAssumption, PosTimes DEF Pos
<1>2. Is(Plus(u[1], w[1]), a1 + b1, e) /\ Is(Plus(u[2], w[2]), a2 + b2, e)
  BY PlusIs
<1>3. a1 + b1 \in Int /\ a2 + b2 \in Int /\ (a2 + b2) - (a1 + b1) \in Int
  OBVIOUS
<1>4. Is(Minus(Plus(u[2], w[2]), Plus(u[1], w[1])), (a2 + b2) - (a1 + b1), e)
  BY <1>2, <1>3, MinusIs
<1>5. Is(Whole(WheelBase), WheelBase * e, e) /\ WheelBase * e \in Pos
  <2>1. WheelBase \in Int
    BY <1>1 DEF Pos
  <2>2. Is(Whole(WheelBase), WheelBase * e, e)
    BY <2>1, WholeIs
  <2>3. QED BY <1>1, <2>2, PosTimes
<1>6. Is(Over(Minus(Plus(u[2], w[2]), Plus(u[1], w[1])), Whole(WheelBase)),
         (a2 + b2) - (a1 + b1), WheelBase * e)
  BY <1>3, <1>4, <1>5, OverIs
<1>7. WheelBase * e = e * WheelBase
  BY <1>1 DEF Pos
<1>8. Filter!StateFunc(x, u, w)
        = Plus(x, Over(Minus(Plus(u[2], w[2]), Plus(u[1], w[1])), Whole(WheelBase)))
  BY FilterIsFractions DEF Filter!StateFunc, Filter!GetNextPose
<1>9. QED BY <1>1, <1>3, <1>6, <1>7, <1>8, PlusIs

\* A central difference.
LEMMA JacobianIs ==
  ASSUME NEW f, NEW g, NEW n \in Int, NEW m \in Int, NEW d \in Pos, Is(f, n, d), Is(g, m, d)
  PROVE  Is(Filter!NumericalJacobian(f, g), n - m, 2 * d)
<1>1. Is(Minus(f, g), n - m, d) /\ n - m \in Int
  <2>1. Is(Minus(f, g), n - m, d)
    BY MinusIs
  <2>2. QED BY <2>1
<1>2. QED BY <1>1, HalfIs, FilterIsFractions DEF Filter!NumericalJacobian

LEMMA JacobiansAre ==
  ASSUME NEW x, NEW u, NEW e \in Pos, NEW n \in Int, Is(x, n, e * WheelBase),
         NEW a1 \in Int, NEW a2 \in Int, Is(u[1], a1, e), Is(u[2], a2, e)
  PROVE  /\ Filter!StateFuncJacobianX(x, u) = One
         /\ IsFrac(Filter!StateFuncJacobianW(x, u)[1])
         /\ IsFrac(Filter!StateFuncJacobianW(x, u)[2])
<1>1. WheelBase \in Pos /\ e * WheelBase \in Pos
  BY TurnsAssumption, PosTimes DEF Pos
<1>2. PICK k \in Pos : k = e * WheelBase
  BY <1>1
<1>3. Is(One, e, e) /\ Is(Zero, 0, e) /\ Is(One, k, k)
  BY OneIs
<1>4. Is(Minus(Zero, One), 0 - e, e) /\ 0 - e \in Int
  BY <1>3, MinusIs DEF Pos
<1>5. ASSUME NEW y, NEW m \in Int, Is(y, m, k)
      PROVE  Is(Filter!StateFunc(y, u, <<Zero, Zero>>), m + (a2 - a1), k)
  <2>1. Is(Filter!StateFunc(y, u, <<Zero, Zero>>), m + ((a2 + 0) - (a1 + 0)), e * WheelBase)
    <3>1. Is(<<Zero, Zero>>[1], 0, e) /\ Is(<<Zero, Zero>>[2], 0, e) /\ 0 \in Int
      BY <1>3
    <3>2. Is(y, m, e * WheelBase)
      BY <1>2, <1>5
    <3>3. QED BY <3>1, <3>2, StateIs
  <2>2. (a2 + 0) - (a1 + 0) = a2 - a1
    OBVIOUS
  <2>3. QED BY <1>2, <2>1, <2>2
<1>6. Filter!StateFuncJacobianX(x, u) = One
  <2>1. Is(Plus(x, One), n + k, k) /\ Is(Minus(x, One), n - k, k)
        /\ n + k \in Int /\ n - k \in Int
    <3>1. k \in Int /\ n + k \in Int /\ n - k \in Int
      BY DEF Pos
    <3>2. Is(x, n, k)
      BY <1>2
    <3>3. Is(Plus(x, One), n + k, k)
      BY <1>3, <3>1, <3>2, PlusIs
    <3>4. Is(Minus(x, One), n - k, k)
      BY <1>3, <3>1, <3>2, MinusIs
    <3>5. QED BY <3>1, <3>3, <3>4
  <2>2. PICK f, g : /\ f = Filter!StateFunc(Plus(x, One), u, <<Zero, Zero>>)
                    /\ g = Filter!StateFunc(Minus(x, One), u, <<Zero, Zero>>)
    OBVIOUS
  <2>3. Is(f, (n + k) + (a2 - a1), k) /\ Is(g, (n - k) + (a2 - a1), k)
    BY <1>5, <2>1, <2>2
  <2>4. (n + k) + (a2 - a1) \in Int /\ (n - k) + (a2 - a1) \in Int
        /\ ((n + k) + (a2 - a1)) - ((n - k) + (a2 - a1)) = 2 * k /\ 2 * k \in Pos
    BY DEF Pos
  <2>5. Is(Filter!NumericalJacobian(f, g), 2 * k, 2 * k)
    BY <2>3, <2>4, JacobianIs
  <2>6. Is(One, 2 * k, 2 * k)
    BY <2>4, OneIs
  <2>7. Filter!NumericalJacobian(f, g) = One
    BY <2>4, <2>5, <2>6, IsUnique DEF Pos
  <2>8. QED BY <2>2, <2>7, FilterIsFractions DEF Filter!StateFuncJacobianX
<1>7. ASSUME NEW w, NEW b1 \in Int, NEW b2 \in Int, Is(w[1], b1, e), Is(w[2], b2, e)
      PROVE  \E m \in Int : Is(Filter!StateFunc(x, u, w), m, k)
  <2>1. Is(Filter!StateFunc(x, u, w), n + ((a2 + b2) - (a1 + b1)), k)
    BY <1>2, <1>7, StateIs
  <2>2. n + ((a2 + b2) - (a1 + b1)) \in Int
    OBVIOUS
  <2>3. QED BY <2>1, <2>2
<1>8. ASSUME NEW v, NEW w, \E m \in Int : Is(v, m, k), \E m \in Int : Is(w, m, k)
      PROVE  IsFrac(Filter!NumericalJacobian(v, w))
  <2>1. PICK i, j \in Int : Is(v, i, k) /\ Is(w, j, k)
    BY <1>8
  <2>2. QED BY <2>1, JacobianIs DEF Is
<1>9. PICK l1, l2, r1, r2 :
        /\ l1 = Filter!StateFunc(x, u, <<One, Zero>>)
        /\ l2 = Filter!StateFunc(x, u, <<Minus(Zero, One), Zero>>)
        /\ r1 = Filter!StateFunc(x, u, <<Zero, One>>)
        /\ r2 = Filter!StateFunc(x, u, <<Zero, Minus(Zero, One)>>)
  OBVIOUS
<1>10. /\ \E m \in Int : Is(l1, m, k)
       /\ \E m \in Int : Is(l2, m, k)
       /\ \E m \in Int : Is(r1, m, k)
       /\ \E m \in Int : Is(r2, m, k)
  <2>1. /\ Is(<<One, Zero>>[1], e, e) /\ Is(<<One, Zero>>[2], 0, e)
        /\ Is(<<Zero, One>>[1], 0, e) /\ Is(<<Zero, One>>[2], e, e)
        /\ Is(<<Minus(Zero, One), Zero>>[1], 0 - e, e) /\ Is(<<Minus(Zero, One), Zero>>[2], 0, e)
        /\ Is(<<Zero, Minus(Zero, One)>>[1], 0, e) /\ Is(<<Zero, Minus(Zero, One)>>[2], 0 - e, e)
        /\ e \in Int /\ 0 \in Int
    BY <1>3, <1>4 DEF Pos
  <2>2. \E m \in Int : Is(l1, m, k)
    BY <1>4, <1>7, <1>9, <2>1
  <2>3. \E m \in Int : Is(l2, m, k)
    BY <1>4, <1>7, <1>9, <2>1
  <2>4. \E m \in Int : Is(r1, m, k)
    BY <1>4, <1>7, <1>9, <2>1
  <2>5. \E m \in Int : Is(r2, m, k)
    BY <1>4, <1>7, <1>9, <2>1
  <2>6. QED BY <2>2, <2>3, <2>4, <2>5
<1>11. IsFrac(Filter!NumericalJacobian(l1, l2)) /\ IsFrac(Filter!NumericalJacobian(r1, r2))
  BY <1>8, <1>10
<1>12. QED BY <1>6, <1>9, <1>11, FilterIsFractions DEF Filter!StateFuncJacobianW

LEMMA WheelVelIs ==
  ASSUME NEW v \in Int, NEW d \in Pos
  PROVE  LET u == Filter!RobotVelToWheelVel(v)
         IN /\ Is(u[1], - (WheelBase * (v * d)), 2 * d)
            /\ Is(u[2], WheelBase * (v * d), 2 * d)
<1>1. WheelBase \in Int /\ 2 \in Pos /\ WheelBase * v \in Int /\ - (WheelBase * v) \in Int
  BY TurnsAssumption DEF Pos
<1>2. /\ Is(Frac(- (WheelBase * v), 2), - (WheelBase * v), 2)
      /\ Is(Frac(WheelBase * v, 2), WheelBase * v, 2)
  BY <1>1, FracIs
<1>3. /\ Is(Frac(- (WheelBase * v), 2), d * (- (WheelBase * v)), d * 2)
      /\ Is(Frac(WheelBase * v, 2), d * (WheelBase * v), d * 2)
  BY <1>1, <1>2, IsScaled
<1>4. d * (- (WheelBase * v)) = - (WheelBase * (v * d)) /\ d * (WheelBase * v) = WheelBase * (v * d)
      /\ d * 2 = 2 * d
  BY <1>1 DEF Pos
<1>5. Filter!RobotVelToWheelVel(v) = <<Frac(- (WheelBase * v), 2), Frac(WheelBase * v, 2)>>
  BY FilterIsFractions DEF Filter!RobotVelToWheelVel
<1>6. QED BY <1>3, <1>4, <1>5

\* The drive turns the rover by the velocity that its wheels are given.
LEMMA WheelsTurn ==
  ASSUME NEW x, NEW v \in Int, NEW n \in Int, NEW d \in Pos, Is(x, n, d)
  PROVE  Is(Filter!StateFunc(x, Filter!RobotVelToWheelVel(v), <<Zero, Zero>>), n + v * d, d)
<1>1. WheelBase \in Pos /\ 2 * WheelBase \in Pos /\ 2 * d \in Pos
  BY TurnsAssumption DEF Pos
<1>2. PICK a \in Int : a = WheelBase * (v * d)
  BY <1>1 DEF Pos
<1>3. PICK u : u = Filter!RobotVelToWheelVel(v)
  OBVIOUS
<1>4. Is(u[1], - a, 2 * d) /\ Is(u[2], a, 2 * d)
  BY <1>2, <1>3, WheelVelIs
<1>5. Is(<<Zero, Zero>>[1], 0, 2 * d) /\ Is(<<Zero, Zero>>[2], 0, 2 * d)
  BY <1>1, OneIs
<1>6. Is(x, (2 * WheelBase) * n, (2 * d) * WheelBase) /\ (2 * WheelBase) * n \in Int
  <2>1. Is(x, (2 * WheelBase) * n, (2 * WheelBase) * d)
    BY <1>1, IsScaled
  <2>2. (2 * WheelBase) * d = (2 * d) * WheelBase /\ (2 * WheelBase) * n \in Int
    BY <1>1 DEF Pos
  <2>3. QED BY <2>1, <2>2
<1>7. - a \in Int /\ 0 \in Int
  OBVIOUS
<1>8. Is(Filter!StateFunc(x, u, <<Zero, Zero>>),
         (2 * WheelBase) * n + ((a + 0) - (- a + 0)), (2 * d) * WheelBase)
  BY <1>1, <1>4, <1>5, <1>6, <1>7, StateIs
<1>9. (2 * WheelBase) * n + ((a + 0) - (- a + 0)) = (2 * WheelBase) * (n + v * d)
      /\ (2 * d) * WheelBase = (2 * WheelBase) * d /\ n + v * d \in Int
  <2>1. PICK k \in Int, w \in Int : k = v * d /\ w = WheelBase
    BY <1>1 DEF Pos
  <2>2. (2 * w) * n + ((w * k + 0) - (- (w * k) + 0)) = (2 * w) * (n + k)
    OBVIOUS
  <2>3. (2 * d) * w = (2 * w) * d /\ n + k \in Int
    BY DEF Pos
  <2>4. QED BY <1>2, <2>1, <2>2, <2>3
<1>10. QED BY <1>1, <1>3, <1>8, <1>9, IsScaled

LEMMA NoiseIsNonNegative ==
  ASSUME NEW a, IsFrac(a)
  PROVE  NonNegative(Times(Whole(NoiseGain * NoiseGain), Norm(a)))
<1>1. PICK n \in Int, d \in Pos : Is(a, n, d)
  BY IsOwn
<1>2. NoiseGain * NoiseGain \in Nat
  <2>1. \A x \in Int : x * x \in Nat
    BY SMT
  <2>2. QED BY <2>1, TurnsAssumption
<1>3. Is(Norm(a), Size(n), d) /\ Size(n) \in Nat
  BY <1>1, NormIs
<1>4. Is(Whole(NoiseGain * NoiseGain), (NoiseGain * NoiseGain) * 1, 1) /\ 1 \in Pos
  BY <1>2, WholeIs DEF Pos
<1>5. (NoiseGain * NoiseGain) * 1 = NoiseGain * NoiseGain
  BY <1>2
<1>6. Is(Times(Whole(NoiseGain * NoiseGain), Norm(a)), (NoiseGain * NoiseGain) * Size(n), 1 * d)
  BY <1>2, <1>3, <1>4, <1>5, TimesIs
<1>7. (NoiseGain * NoiseGain) * Size(n) \in Nat /\ 1 * d \in Pos
  <2>1. \A x, y \in Nat : x * y \in Nat
    OBVIOUS
  <2>2. QED BY <1>2, <1>3, <2>1 DEF Pos
<1>8. QED BY <1>6, <1>7 DEF NonNegative

LEMMA PredictEKFKeeps ==
  ASSUME NEW v \in Int, truth \in Int, CloseTo(xHat, truth), Positive(eCov),
         Filter!PredictEKF(Filter!RobotVelToWheelVel(v))
  PROVE  CloseTo(xHat', truth + v) /\ Positive(eCov')
<1>1. PICK u : u = Filter!RobotVelToWheelVel(v)
  OBVIOUS
<1>2. PICK F, L, Q : /\ F = Filter!StateFuncJacobianX(xHat, u)
                     /\ L = Filter!StateFuncJacobianW(xHat, u)
                     /\ Q = Filter!ProcessNoiseFunc(u)
  OBVIOUS
<1>3. /\ xHat' = Filter!StateFunc(xHat, u, <<Zero, Zero>>)
      /\ eCov' = Plus(Times(Times(F, eCov), F),
                      Plus(Times(Times(L[1], Q[1]), L[1]), Times(Times(L[2], Q[2]), L[2])))
  BY <1>1, <1>2, FilterIsFractions DEF Filter!PredictEKF
<1>4. CloseTo(xHat', truth + v)
  <2>1. \A n \in Int, d \in Pos : Is(xHat, n, d) => Is(xHat', n + v * d, d)
    BY <1>1, <1>3, WheelsTurn
  <2>2. QED BY <2>1, TurnKeepsClose
<1>5. PICK n \in Int, d \in Pos : Is(xHat, n, d)
  BY DEF CloseTo
<1>6. F = One /\ IsFrac(L[1]) /\ IsFrac(L[2])
  <2>1. WheelBase \in Pos /\ 2 * WheelBase \in Pos /\ 2 * d \in Pos
    BY TurnsAssumption DEF Pos
  <2>2. Is(xHat, (2 * WheelBase) * n, (2 * d) * WheelBase) /\ (2 * WheelBase) * n \in Int
    <3>1. Is(xHat, (2 * WheelBase) * n, (2 * WheelBase) * d)
      BY <1>5, <2>1, IsScaled
    <3>2. (2 * WheelBase) * d = (2 * d) * WheelBase /\ (2 * WheelBase) * n \in Int
      BY <2>1 DEF Pos
    <3>3. QED BY <3>1, <3>2
  <2>3. - (WheelBase * (v * d)) \in Int /\ WheelBase * (v * d) \in Int
    BY <2>1 DEF Pos
  <2>4. Is(u[1], - (WheelBase * (v * d)), 2 * d) /\ Is(u[2], WheelBase * (v * d), 2 * d)
    BY <1>1, WheelVelIs
  <2>5. QED BY <1>2, <2>1, <2>2, <2>3, <2>4, JacobiansAre
<1>7. NonNegative(Q[1]) /\ NonNegative(Q[2])
  <2>1. IsFrac(u[1]) /\ IsFrac(u[2])
    BY <1>1, <1>5, WheelVelIs DEF Is
  <2>2. Q[1] = Times(Whole(NoiseGain * NoiseGain), Norm(u[1]))
        /\ Q[2] = Times(Whole(NoiseGain * NoiseGain), Norm(u[2]))
    BY <1>2, FilterIsFractions DEF Filter!ProcessNoiseFunc
  <2>3. QED BY <2>1, <2>2, NoiseIsNonNegative
<1>8. NonNegative(Times(Times(L[1], Q[1]), L[1])) /\ NonNegative(Times(Times(L[2], Q[2]), L[2]))
  BY <1>6, <1>7, SquareIsNonNegative
<1>9. Positive(Times(Times(F, eCov), F))
  <2>1. PICK p \in Pos, e \in Pos : Is(eCov, p, e)
    BY DEF Positive
  <2>2. p \in Int
    BY DEF Pos
  <2>3. Is(Times(One, eCov), p, e)
    BY <2>1, <2>2, OneTimes
  <2>4. Is(Times(Times(One, eCov), One), p, e)
    BY <2>2, <2>3, OneTimes
  <2>5. QED BY <1>6, <2>4 DEF Positive
<1>10. Positive(eCov')
  BY <1>3, <1>8, <1>9, SumOfNonNegatives
<1>11. QED BY <1>4, <1>10

\* The weights of the measurements since the variance was b, when each has the variance r.
WeightsAre(a, b, r, c) ==
  \E p, q, e \in Pos : Is(a, p, e) /\ Is(b, q, e) /\ p * (r * e + c * q) = q * (r * e)

LEMMA WeightsStart ==
  ASSUME NEW a, NEW r \in Pos, Positive(a)
  PROVE  WeightsAre(a, a, r, 0)
<1>1. PICK p \in Pos, e \in Pos : Is(a, p, e)
  BY DEF Positive
<1>2. r * e + 0 * p = r * e
  BY DEF Pos
<1>3. QED BY <1>1, <1>2 DEF WeightsAre

LEMMA WeightsHold ==
  ASSUME NEW a, NEW b, NEW r \in Pos, NEW c \in Nat, WeightsAre(a, b, r, c)
  PROVE  Times(a, Plus(Whole(r), Times(Whole(c), b))) = Times(b, Whole(r))
<1>1. PICK p, q, e \in Pos : Is(a, p, e) /\ Is(b, q, e) /\ p * (r * e + c * q) = q * (r * e)
  BY DEF WeightsAre
<1>2. p \in Int /\ q \in Int /\ r \in Int /\ 1 \in Pos
  BY DEF Pos
<1>3. r * e \in Int /\ c * q \in Int /\ r * e + c * q \in Int /\ e * e \in Pos
  BY PosTimes DEF Pos
<1>4. Is(Whole(r), r * e, e)
  BY <1>2, WholeIs
<1>5. Is(Times(Whole(c), b), c * q, e)
  <2>1. Is(Whole(c), c * 1, 1) /\ c * 1 = c
    BY <1>2, WholeIs
  <2>2. Is(Times(Whole(c), b), c * q, 1 * e)
    BY <1>1, <1>2, <2>1, TimesIs
  <2>3. 1 * e = e
    BY DEF Pos
  <2>4. QED BY <2>2, <2>3
<1>6. Is(Plus(Whole(r), Times(Whole(c), b)), r * e + c * q, e)
  BY <1>3, <1>4, <1>5, PlusIs
<1>7. Is(Times(a, Plus(Whole(r), Times(Whole(c), b))), p * (r * e + c * q), e * e)
  BY <1>1, <1>2, <1>3, <1>6, TimesIs
<1>8. Is(Times(b, Whole(r)), q * (r * e), e * e)
  BY <1>1, <1>2, <1>3, <1>4, TimesIs
<1>9. q * (r * e) \in Int
  BY <1>2, <1>3
<1>10. QED BY <1>1, <1>3, <1>7, <1>8, <1>9, IsUnique

\* The gain is the variance's share of the sum of both.
LEMMA GainIs ==
  ASSUME NEW a, NEW p \in Pos, NEW e \in Pos, NEW r \in Pos, Is(a, p, e)
  PROVE  LET S == Plus(Times(Times(One, a), One), Times(Times(One, Whole(r)), One))
         IN Is(Over(Times(One, a), S), p, p + r * e) /\ p + r * e \in Pos
<1>1. p \in Int /\ r \in Int /\ r * e \in Pos /\ r * e \in Int /\ p + r * e \in Pos
  <2>1. r * e \in Pos
    BY PosTimes
  <2>2. \A x, y \in Pos : x + y \in Pos /\ x \in Int
    BY DEF Pos
  <2>3. QED BY <2>1, <2>2
<1>2. Is(Times(One, a), p, e) /\ Is(Times(One, Whole(r)), r * e, e)
  BY <1>1, WholeIs, OneTimes
<1>3. Is(Times(Times(One, a), One), p, e) /\ Is(Times(Times(One, Whole(r)), One), r * e, e)
  BY <1>1, <1>2, OneTimes
<1>4. Is(Plus(Times(Times(One, a), One), Times(Times(One, Whole(r)), One)), p + r * e, e)
  BY <1>1, <1>3, PlusIs
<1>5. QED BY <1>1, <1>2, <1>4, OverIs

LEMMA CorrectWeights ==
  ASSUME NEW a, NEW b, NEW r \in Pos, NEW c \in Nat, WeightsAre(a, b, r, c), NEW k,
         \A p, e \in Pos : Is(a, p, e) => Is(k, p, p + r * e)
  PROVE  WeightsAre(Times(Minus(One, Times(k, One)), a), b, r, c + 1)
<1>1. PICK p, q, e \in Pos : Is(a, p, e) /\ Is(b, q, e) /\ p * (r * e + c * q) = q * (r * e)
  BY DEF WeightsAre
<1>2. PICK w \in Pos : w = r * e
  BY PosTimes
<1>3. PICK s \in Pos : s = p + w
  BY DEF Pos
<1>4. p \in Int /\ q \in Int /\ w \in Int /\ s \in Int /\ s - p = w
  BY <1>3 DEF Pos
<1>5. Is(k, p, s)
  BY <1>1, <1>2, <1>3
<1>6. Is(Times(k, One), p, s) /\ Is(One, s, s)
  BY <1>4, <1>5, OneTimes, OneIs
<1>7. Is(Minus(One, Times(k, One)), w, s)
  <2>1. Is(Minus(One, Times(k, One)), s - p, s)
    BY <1>4, <1>6, MinusIs
  <2>2. QED BY <1>4, <2>1
<1>8. Is(Times(Minus(One, Times(k, One)), a), w * p, s * e) /\ s * e \in Pos /\ w * p \in Pos
  BY <1>1, <1>4, <1>7, TimesIs, PosTimes
<1>9. Is(b, s * q, s * e) /\ s * q \in Pos
  BY <1>1, <1>4, IsScaled, PosTimes
<1>10. (w * p) * (r * (s * e) + (c + 1) * (s * q)) = (s * q) * (r * (s * e))
  <2>1. r * (s * e) = s * w
    BY <1>2 DEF Pos
  <2>2. PICK y \in Int : y = c * q
    BY <1>4
  <2>3. (c + 1) * (s * q) = s * (y + q)
    <3>1. (c + 1) * (s * q) = s * (c * q + q)
      BY <1>4
    <3>2. QED BY <2>2, <3>1
  <2>4. p * (w + y) = q * w
    BY <1>1, <1>2, <2>2
  <2>5. (w * p) * (s * w + s * (y + q)) = (s * w) * (p * (w + y) + p * q)
    BY <1>4
  <2>6. p * (w + y) + p * q = q * s
    <3>1. q * w + p * q = q * (p + w)
      BY <1>4
    <3>2. QED BY <1>3, <2>4, <3>1
  <2>7. (s * w) * (q * s) = (s * q) * (s * w)
    BY <1>4
  <2>8. QED BY <2>1, <2>3, <2>5, <2>6, <2>7
<1>11. QED BY <1>8, <1>9, <1>10 DEF WeightsAre

LEMMA SquareOfStdDev ==
  /\ StdDev * StdDev \in Pos
  /\ Times(Whole(StdDev), Whole(StdDev)) = Whole(StdDev * StdDev)
<1>1. StdDev \in Pos /\ 1 \in Pos /\ StdDev \in Int
  BY TurnsAssumption DEF Pos
<1>2. StdDev * StdDev \in Pos /\ StdDev * StdDev \in Int
  BY <1>1, PosTimes DEF Pos
<1>3. Is(Whole(StdDev), StdDev * 1, 1) /\ StdDev * 1 = StdDev
  BY <1>1, WholeIs
<1>4. Is(Times(Whole(StdDev), Whole(StdDev)), StdDev * StdDev, 1 * 1)
  BY <1>1, <1>3, TimesIs
<1>5. Is(Whole(StdDev * StdDev), (StdDev * StdDev) * 1, 1)
  BY <1>1, <1>2, WholeIs
<1>6. (StdDev * StdDev) * 1 = StdDev * StdDev /\ 1 * 1 = 1
  BY <1>2
<1>7. QED BY <1>1, <1>2, <1>4, <1>5, <1>6, IsUnique

\* DARE stops after its first step when that moves by more than the tolerance.
LEMMA FirstIsLast ==
  ASSUME NEW a, NEW b, NEW q, NEW r,
         NEW d, d = Filter!Doubled(<<a, Filter!Over(Filter!Times(b, b), r), q>>),
         Filter!AboveTolerance(d[3], q)
  PROVE  Filter!DARE(a, b, q, r) = d[3]
<1>1. \A p1, p2 : Filter!AboveTolerance(p1, q) => Filter!LastStep(q, p1, p2) = p1
  BY Zenon DEF Filter!LastStep
<1>2. QED BY <1>1 DEF Filter!DARE

LEMMA GainMatrixIs ==
  \E p, s \in Pos : Is(Filter!GainMatrix, p, s) /\ p <= s
<1>1. PICK v \in Pos : v = StdDev * StdDev
  BY SquareOfStdDev
<1>2. v \in Int /\ 1 \in Pos /\ 2 \in Pos /\ 2 * v \in Pos /\ 3 * v \in Pos /\ 5 * v \in Pos
      /\ v * 1 = v /\ 1 * v = v
  BY DEF Pos
<1>3. Filter!ModelQ = Whole(v) /\ Filter!ModelR = Whole(v)
  BY <1>1, SquareOfStdDev, FilterIsFractions
  DEF Filter!ModelQ, Filter!ModelR, Filter!DiscretizeQ, Filter!DiscretizeR,
      Filter!CreateCovarianceMatrix
<1>4. Is(Whole(v), v, 1) /\ Is(Whole(v), v * 2, 2) /\ Is(One, 1, 1) /\ Is(One, v, v)
  BY <1>2, WholeIs, OneIs
<1>5. PICK f : f = <<One, Over(Times(One, One), Whole(v)), Whole(v)>>
  OBVIOUS
<1>6. Is(f[2], 1, v)
  <2>1. Is(Times(One, One), 1, 1)
    BY <1>2, <1>4, OneTimes
  <2>2. QED BY <1>2, <1>4, <1>5, <2>1, OverIs
<1>7. PICK d : d = Filter!Doubled(f)
  OBVIOUS
<1>8. PICK inv : inv = Over(One, Plus(One, Times(f[2], f[3])))
  OBVIOUS
<1>9. Is(inv, v, 2 * v)
  <2>1. Is(Times(f[2], f[3]), v, v)
    <3>1. Is(Times(f[2], f[3]), 1 * v, v * 1)
      BY <1>2, <1>4, <1>5, <1>6, TimesIs
    <3>2. QED BY <1>2, <3>1
  <2>2. Is(Plus(One, Times(f[2], f[3])), 2 * v, v)
    <3>1. Is(Plus(One, Times(f[2], f[3])), v + v, v)
      BY <1>2, <1>4, <2>1, PlusIs
    <3>2. v + v = 2 * v
      BY DEF Pos
    <3>3. QED BY <3>1, <3>2
  <2>3. QED BY <1>2, <1>4, <1>8, <2>2, OverIs
<1>10. d[3] = Plus(f[3], Times(Times(Times(f[1], f[3]), inv), f[1]))
  BY <1>7, <1>8, FilterIsFractions DEF Filter!Doubled
<1>11. Is(d[3], 3 * v, 2)
  <2>1. Is(Times(One, Whole(v)), v, 1)
    BY <1>2, <1>4, OneTimes
  <2>2. Is(Times(Times(One, Whole(v)), inv), v * v, 1 * (2 * v))
    BY <1>2, <1>9, <2>1, TimesIs
  <2>3. v * v \in Int /\ 1 * (2 * v) = 2 * v
    BY <1>2
  <2>4. Is(Times(Times(One, Whole(v)), inv), v * v, v * 2)
    BY <1>2, <2>2, <2>3
  <2>5. Is(Times(Times(One, Whole(v)), inv), v, 2)
    BY <1>2, <2>4, IsScaled
  <2>6. Is(Times(Times(Times(One, Whole(v)), inv), One), v, 2)
    BY <1>2, <2>5, OneTimes
  <2>7. Is(Plus(Whole(v), Times(Times(Times(One, Whole(v)), inv), One)), v * 2 + v, 2)
    BY <1>2, <1>4, <2>6, PlusIs
  <2>8. v * 2 + v = 3 * v
    BY <1>2
  <2>9. QED BY <1>5, <1>10, <2>7, <2>8
<1>12. PICK error : error = Over(Norm(Minus(d[3], Whole(v))), Norm(d[3]))
  OBVIOUS
<1>13. Is(error, v, 3 * v)
  <2>1. Is(Minus(d[3], Whole(v)), v, 2)
    <3>1. 3 * v \in Int /\ v * 2 \in Int /\ 3 * v - v * 2 = v
      BY <1>2
    <3>2. Is(Minus(d[3], Whole(v)), 3 * v - v * 2, 2)
      BY <1>2, <1>4, <1>11, <3>1, MinusIs
    <3>3. QED BY <3>1, <3>2
  <2>2. Size(v) = v /\ Size(3 * v) = 3 * v /\ 3 * v \in Int
    BY <1>2 DEF Size, Pos
  <2>3. Is(Norm(Minus(d[3], Whole(v))), v, 2) /\ Is(Norm(d[3]), 3 * v, 2)
    <3>1. Is(Norm(Minus(d[3], Whole(v))), Size(v), 2)
      BY <1>2, <2>1, NormIs
    <3>2. Is(Norm(d[3]), Size(3 * v), 2)
      BY <1>2, <1>11, <2>2, NormIs
    <3>3. QED BY <2>2, <3>1, <3>2
  <2>4. QED BY <1>2, <1>12, <2>3, OverIs
<1>14. Less(<<1, 10000>>, error)
  <2>1. Is(<<1, 10000>>, 1, 10000) /\ 10000 \in Pos
    <3>1. Coprime(1, 10000)
      <4>1. 1 = 1 * 1 + 10000 * 0
        OBVIOUS
      <4>2. QED BY <4>1 DEF Coprime
    <3>2. QED BY <3>1 DEF Is, IsFrac, Pos
  <2>2. Is(<<1, 10000>>, 1 * (3 * v), 10000 * (3 * v))
        /\ Is(error, v * 10000, 10000 * (3 * v))
    BY <1>2, <1>13, <2>1, IsCommon
  <2>3. 1 * (3 * v) < v * 10000 /\ 1 * (3 * v) \in Int /\ v * 10000 \in Int
        /\ 10000 * (3 * v) \in Pos
    BY DEF Pos
  <2>4. QED BY <2>2, <2>3, LessIs
<1>15. Filter!DARE(One, One, Whole(v), Whole(v)) = d[3]
  <2>1. f = <<One, Filter!Over(Filter!Times(One, One), Whole(v)), Whole(v)>>
    BY <1>5, FilterIsFractions
  <2>2. Filter!AboveTolerance(d[3], Whole(v))
    BY <1>12, <1>14, FilterIsFractions DEF Filter!AboveTolerance
  <2>3. QED BY <1>7, <2>1, <2>2, FirstIsLast
<1>16. Is(Filter!GainMatrix, 3 * v, 5 * v)
  <2>1. Is(Plus(d[3], Whole(v)), 5 * v, 2)
    <3>1. 3 * v \in Int /\ v * 2 \in Int /\ 3 * v + v * 2 = 5 * v
      BY <1>2
    <3>2. Is(Plus(d[3], Whole(v)), 3 * v + v * 2, 2)
      BY <1>2, <1>4, <1>11, <3>1, PlusIs
    <3>3. QED BY <3>1, <3>2
  <2>2. Is(Over(d[3], Plus(d[3], Whole(v))), 3 * v, 5 * v)
    BY <1>2, <1>11, <2>1, OverIs DEF Pos
  <2>3. Filter!GainMatrix = Over(d[3], Plus(d[3], Whole(v)))
    BY <1>3, <1>15, FilterIsFractions DEF Filter!GainMatrix
  <2>4. QED BY <2>2, <2>3
<1>17. 3 * v <= 5 * v
  BY DEF Pos
<1>18. QED BY <1>2, <1>16, <1>17

\* What the filter takes for the variance of a measurement.
MeasuredVar == IF est = "full" THEN StdDev ELSE StdDev * StdDev

FilterInv ==
  /\ est \in {"full", "single", "linear"} /\ truth \in Int /\ corrections \in Nat
  /\ CloseTo(xHat, truth)
  /\ est # "linear" => WeightsAre(eCov, eBase, MeasuredVar, corrections)

LEMMA MeasuredVarIs ==
  /\ MeasuredVar \in Pos
  /\ est = "full" => Filter!NoiseCovMatX(Filter!Whole(StdDev)) = Whole(MeasuredVar)
  /\ est # "full" => Filter!NoiseCovMat(Filter!Whole(StdDev)) = Whole(MeasuredVar)
  /\ est = "single" => Filter!CreateCovarianceMatrix(Filter!Whole(StdDev)) = Whole(MeasuredVar)
<1>1. StdDev \in Pos
  BY TurnsAssumption DEF Pos
<1>2. QED BY <1>1, SquareOfStdDev, FilterIsFractions
           DEF MeasuredVar, Filter!NoiseCovMatX, Filter!NoiseCovMat, Filter!CreateCovarianceMatrix

LEMMA FilterInvHolds ==
  ASSUME FilterInv
  PROVE  Filter!HeadingFollowsRover /\ Filter!WeightsAddUp("single")
<1>1. Filter!HeadingFollowsRover
  <2>1. ~ Less(Whole(Error), Norm(Minus(xHat, Whole(truth))))
    BY CloseToHolds DEF FilterInv
  <2>2. QED BY <2>1, FilterIsFractions DEF Filter!HeadingFollowsRover
<1>2. Filter!WeightsAddUp("single")
  <2>1. SUFFICES ASSUME est = "single"
        PROVE  LET R == Filter!CreateCovarianceMatrix(Filter!Whole(StdDev))
               IN Times(eCov, Plus(R, Times(Whole(corrections), eBase))) = Times(eBase, R)
    BY FilterIsFractions DEF Filter!WeightsAddUp
  <2>2. PICK r \in Pos : r = MeasuredVar /\ WeightsAre(eCov, eBase, r, corrections)
    BY <2>1, MeasuredVarIs DEF FilterInv
  <2>3. Times(eCov, Plus(Whole(r), Times(Whole(corrections), eBase))) = Times(eBase, Whole(r))
    BY <2>2, WeightsHold DEF FilterInv
  <2>4. Filter!CreateCovarianceMatrix(Filter!Whole(StdDev)) = Whole(r)
    BY <2>1, <2>2, MeasuredVarIs
  <2>5. QED BY <2>3, <2>4
<1>3. QED BY <1>1, <1>2

LEMMA WholeIsPositive ==
  ASSUME NEW n \in Pos
  PROVE  Positive(Whole(n))
<1>1. n \in Int /\ 1 \in Pos /\ n * 1 = n
  BY DEF Pos
<1>2. Is(Whole(n), n * 1, 1)
  BY <1>1, WholeIs
<1>3. QED BY <1>1, <1>2 DEF Positive

LEMMA FilterInvInit == Filter!Init => FilterInv
<1> SUFFICES ASSUME Filter!Init PROVE FilterInv
  OBVIOUS
<1>1. /\ est \in {"full", "single", "linear"} /\ xHat = Zero /\ eCov = Whole(InitialVar)
      /\ truth = 0 /\ eBase = eCov /\ corrections = 0
  BY FilterIsFractions DEF Filter!Init
<1>2. CloseTo(xHat, truth)
  <2>1. Is(Zero, 0, 1) /\ 1 \in Pos
    BY OneIs DEF Pos
  <2>2. - (Error * 1) <= 0 - 0 * 1 /\ 0 - 0 * 1 <= Error * 1 /\ 0 \in Int
    BY TurnsAssumption
  <2>3. QED BY <1>1, <2>1, <2>2 DEF CloseTo
<1>3. WeightsAre(eCov, eBase, MeasuredVar, corrections)
  <2>1. InitialVar \in Pos
    BY TurnsAssumption DEF Pos
  <2>2. QED BY <1>1, <2>1, WholeIsPositive, MeasuredVarIs, WeightsStart
<1>4. QED BY <1>1, <1>2, <1>3 DEF FilterInv

LEMMA PredictKeeps ==
  ASSUME FilterInv, NEW v \in ThetaVels, Filter!Predict(v)
  PROVE  FilterInv'
<1>1. /\ est' = est /\ truth' = truth + v /\ eBase' = eCov' /\ corrections' = 0
      /\ IF est = "linear" THEN Filter!PredictKF(Filter!GetPoseDiff(xHat, v))
         ELSE Filter!PredictEKF(Filter!RobotVelToWheelVel(v))
  BY DEF Filter!Predict, Filter!Step
<1>2. v \in -179..179 /\ v \in Int /\ truth \in Int /\ CloseTo(xHat, truth)
  BY TurnsAssumption DEF FilterInv
<1>3. CASE est = "linear"
  <2>1. xHat' = Plus(xHat, Minus(Filter!ToPose(Plus(Whole(v), xHat), xHat), xHat))
    BY <1>1, <1>3, FilterIsFractions DEF Filter!PredictKF, Filter!GetPoseDiff
  <2>2. ASSUME NEW n \in Int, NEW d \in Pos, Is(xHat, n, d)
        PROVE  Is(xHat', n + v * d, d)
    <3>1. PICK k \in Int : k = v * d
      BY <1>2 DEF Pos
    <3>2. - (180 * d) < k /\ k < 180 * d
      <4>1. d * (-179) <= d * v /\ d * v <= d * 179
        BY <1>2 DEF Pos
      <4>2. d * v = v * d /\ d * 179 = 179 * d /\ d * (-179) = - (179 * d)
        BY <1>2 DEF Pos
      <4>3. QED BY <3>1, <4>1, <4>2 DEF Pos
    <3>3. PICK a : a = Plus(Whole(v), xHat)
      OBVIOUS
    <3>4. Is(a, k + n, d)
      <4>1. Is(Whole(v), k, d)
        BY <1>2, <3>1, WholeIs
      <4>2. QED BY <2>2, <3>3, <4>1, PlusIs
    <3>5. Is(Filter!ToPose(a, xHat), n + k, d)
      <4>1. 0 * d = 0
        BY DEF Pos
      <4>2. (n + k) + 360 * 0 = k + n /\ n + k \in Int /\ 0 \in Int /\ (n + k) - n = k
        OBVIOUS
      <4>3. Is(a, (n + k) + 360 * (0 * d), d)
        BY <3>4, <4>1, <4>2, Zenon
      <4>4. - (180 * d) < (n + k) - n /\ (n + k) - n < 180 * d
        BY <3>2, <4>2, Zenon
      <4>5. QED BY <2>2, <4>2, <4>3, <4>4, ToPoseIs, Zenon
    <3>6. n + k \in Int /\ (n + k) - n = k
      OBVIOUS
    <3>7. Is(Minus(Filter!ToPose(a, xHat), xHat), (n + k) - n, d)
      BY <2>2, <3>5, <3>6, MinusIs
    <3>8. Is(Plus(xHat, Minus(Filter!ToPose(a, xHat), xHat)), n + k, d)
      BY <2>2, <3>6, <3>7, PlusIs
    <3>9. QED BY <2>1, <3>1, <3>3, <3>8
  <2>3. CloseTo(xHat', truth + v)
    BY <1>2, <2>2, TurnKeepsClose
  <2>4. truth' \in Int /\ corrections' \in Nat
    BY <1>1, <1>2
  <2>5. est' = "linear" /\ CloseTo(xHat, truth)'
    BY <1>1, <1>3, <2>3 DEF CloseTo
  <2>6. QED BY <2>4, <2>5 DEF FilterInv
<1>4. CASE est # "linear"
  <2>1. Positive(eCov)
    BY <1>4 DEF FilterInv, WeightsAre, Positive
  <2>2. CloseTo(xHat', truth + v) /\ Positive(eCov')
    BY <1>1, <1>2, <1>4, <2>1, PredictEKFKeeps
  <2>3. MeasuredVar' = MeasuredVar
    BY <1>1 DEF MeasuredVar
  <2>4. WeightsAre(eCov', eCov', MeasuredVar, 0)
    BY <2>2, MeasuredVarIs, WeightsStart
  <2>5. WeightsAre(eCov, eBase, MeasuredVar, corrections)'
    BY <1>1, <2>3, <2>4 DEF WeightsAre
  <2>6. CloseTo(xHat, truth)'
    BY <1>1, <2>2 DEF CloseTo
  <2>7. truth' \in Int /\ corrections' \in Nat /\ est' \in {"full", "single", "linear"}
    BY <1>1, <1>2 DEF FilterInv
  <2>8. QED BY <2>5, <2>6, <2>7 DEF FilterInv
<1>5. QED BY <1>3, <1>4

LEMMA CorrectEKFKeeps ==
  ASSUME truth \in Int, CloseTo(xHat, truth), NEW r \in Pos, NEW c \in Nat,
         WeightsAre(eCov, eBase, r, c), NEW e \in Filter!Errors, NEW z,
         \A n \in Int, d \in Pos :
           /\ Is(xHat, n, d) /\ - (Error * d) <= n - truth * d /\ n - truth * d <= Error * d
           => Is(z, (truth + e) * d, d),
         Filter!CorrectEKF(z, Whole(r))
  PROVE  CloseTo(xHat', truth) /\ WeightsAre(eCov', eBase, r, c + 1)
<1>1. PICK S : S = Plus(Times(Times(One, eCov), One), Times(Times(One, Whole(r)), One))
  OBVIOUS
<1>2. PICK k : k = Over(Times(One, eCov), S)
  OBVIOUS
<1>3. /\ xHat' = Plus(xHat, Times(k, Minus(z, xHat)))
      /\ eCov' = Times(Minus(One, Times(k, One)), eCov)
  BY <1>1, <1>2, FilterIsFractions
  DEF Filter!CorrectEKF, Filter!OutputFuncJacobianX, Filter!OutputFuncJacobianV
<1>4. ASSUME NEW p \in Pos, NEW d \in Pos, Is(eCov, p, d)
      PROVE  Is(k, p, p + r * d) /\ p + r * d \in Pos
  BY <1>1, <1>2, <1>4, GainIs
<1>5. PICK p, d \in Pos : Is(eCov, p, d)
  BY DEF WeightsAre
<1>6. PICK s \in Pos : s = p + r * d /\ Is(k, p, s) /\ p <= s /\ p \in Nat
  <2>1. r * d \in Pos
    BY PosTimes
  <2>2. p <= p + r * d /\ p \in Nat
    BY <2>1 DEF Pos
  <2>3. QED BY <1>4, <1>5, <2>2
<1>7. CloseTo(xHat', truth)
  BY <1>3, <1>6, GainKeepsClose
<1>8. WeightsAre(eCov', eBase, r, c + 1)
  <2>1. \A q, w \in Pos : Is(eCov, q, w) => Is(k, q, q + r * w)
    BY <1>4
  <2>2. QED BY <1>3, <2>1, CorrectWeights
<1>9. QED BY <1>7, <1>8

LEMMA CorrectKeeps ==
  ASSUME FilterInv, NEW e \in Filter!Errors,
         Filter!Correct(Filter!Wrapped(Filter!Whole(truth + e)))
  PROVE  FilterInv'
<1>1. PICK heading : heading = Filter!Wrapped(Whole(truth + e))
  OBVIOUS
<1>2. /\ est' = est /\ truth' = truth /\ eBase' = eBase /\ corrections' = corrections + 1
      /\ \/ est = "full" /\ Filter!CorrectHeading(heading)
         \/ est = "single" /\ Filter!CorrectEKF(Filter!ToPose(heading, xHat),
                                                Filter!NoiseCovMat(Filter!Whole(StdDev)))
         \/ est = "linear" /\ Filter!CorrectKF(Filter!ToPose(heading, xHat))
  BY <1>1, FilterIsFractions DEF Filter!Correct, Filter!Step
<1>3. PICK r \in Pos : r = MeasuredVar
  BY MeasuredVarIs
<1>4. truth \in Int /\ corrections \in Nat /\ CloseTo(xHat, truth)
      /\ (est # "linear" => WeightsAre(eCov, eBase, r, corrections))
  BY <1>3 DEF FilterInv
<1>5. ASSUME NEW n \in Int, NEW d \in Pos,
             Is(xHat, n, d), - (Error * d) <= n - truth * d, n - truth * d <= Error * d
      PROVE  /\ Is(Filter!ClosestHeading(heading, xHat), (truth + e) * d, d)
             /\ Is(Filter!ToPose(heading, xHat), (truth + e) * d, d)
  BY <1>1, <1>4, <1>5, MeasuredIs
<1>6. ASSUME NEW z, est # "linear", Filter!CorrectEKF(z, Whole(r)),
             z \in {Filter!ClosestHeading(heading, xHat), Filter!ToPose(heading, xHat)}
      PROVE  CloseTo(xHat', truth) /\ WeightsAre(eCov', eBase, r, corrections + 1)
  <2>1. \A n \in Int, d \in Pos :
          /\ Is(xHat, n, d) /\ - (Error * d) <= n - truth * d /\ n - truth * d <= Error * d
          => Is(z, (truth + e) * d, d)
    BY <1>5, <1>6
  <2>2. QED BY <1>4, <1>6, <2>1, CorrectEKFKeeps
<1>7. CloseTo(xHat', truth) /\ (est # "linear" => WeightsAre(eCov', eBase, r, corrections + 1))
  <2>1. CASE est = "full" /\ Filter!CorrectHeading(heading)
    <3>1. Filter!CorrectEKF(Filter!ClosestHeading(heading, xHat), Whole(r))
      BY <1>3, <2>1, MeasuredVarIs DEF Filter!CorrectHeading
    <3>2. QED BY <1>6, <2>1, <3>1
  <2>2. CASE est = "single" /\ Filter!CorrectEKF(Filter!ToPose(heading, xHat),
                                                 Filter!NoiseCovMat(Filter!Whole(StdDev)))
    <3>1. Filter!CorrectEKF(Filter!ToPose(heading, xHat), Whole(r))
      BY <1>3, <2>2, MeasuredVarIs
    <3>2. QED BY <1>6, <2>2, <3>1
  <2>3. CASE est = "linear" /\ Filter!CorrectKF(Filter!ToPose(heading, xHat))
    <3>1. PICK z : z = Filter!ToPose(heading, xHat)
      OBVIOUS
    <3>2. xHat' = Plus(xHat, Times(Filter!GainMatrix, Minus(z, xHat)))
      BY <2>3, <3>1, FilterIsFractions DEF Filter!CorrectKF
    <3>3. PICK p, s \in Pos : Is(Filter!GainMatrix, p, s) /\ p <= s
      BY GainMatrixIs
    <3>4. \A n \in Int, d \in Pos :
            /\ Is(xHat, n, d) /\ - (Error * d) <= n - truth * d /\ n - truth * d <= Error * d
            => Is(z, (truth + e) * d, d)
      BY <1>5, <3>1
    <3>5. p \in Nat
      BY DEF Pos
    <3>6. CloseTo(xHat', truth)
      BY <1>4, <3>2, <3>3, <3>4, <3>5, GainKeepsClose
    <3>7. QED BY <2>3, <3>6
  <2>4. QED BY <1>2, <2>1, <2>2, <2>3
<1>8. MeasuredVar' = MeasuredVar
  BY <1>2 DEF MeasuredVar
<1>9. CloseTo(xHat, truth)'
  BY <1>2, <1>7 DEF CloseTo
<1>10. (est # "linear" => WeightsAre(eCov, eBase, MeasuredVar, corrections))'
  BY <1>2, <1>3, <1>7, <1>8 DEF WeightsAre
<1>11. (est \in {"full", "single", "linear"} /\ truth \in Int /\ corrections \in Nat)'
  BY <1>2, <1>4 DEF FilterInv
<1>12. QED BY <1>9, <1>10, <1>11 DEF FilterInv

LEMMA ResetKeeps ==
  ASSUME FilterInv, NEW e \in Filter!Errors,
         NEW p \in {Filter!Whole(InitialVar), Filter!CreateCovarianceMatrix(Filter!Whole(StdDev))},
         Filter!Reset(Filter!Whole(truth + e), p)
  PROVE  FilterInv'
<1>1. /\ est' = est /\ truth' = truth /\ xHat' = Whole(truth + e) /\ eCov' = p
      /\ eBase' = eCov' /\ corrections' = 0
  BY FilterIsFractions DEF Filter!Reset, Filter!Step
<1>2. Positive(p)
  <2>1. p \in {Whole(InitialVar), Whole(StdDev * StdDev)}
    BY FilterIsFractions, SquareOfStdDev DEF Filter!CreateCovarianceMatrix
  <2>2. InitialVar \in Pos
    BY TurnsAssumption DEF Pos
  <2>3. QED BY <2>1, <2>2, SquareOfStdDev, WholeIsPositive
<1>3. CloseTo(xHat, truth)'
  <2>1. CloseTo(Whole(truth + e), truth)
    BY WholeIsClose DEF FilterInv
  <2>2. QED BY <1>1, <2>1 DEF CloseTo
<1>4. WeightsAre(eCov, eBase, MeasuredVar, corrections)'
  <2>1. WeightsAre(p, p, MeasuredVar, 0)
    BY <1>2, MeasuredVarIs, WeightsStart
  <2>2. MeasuredVar' = MeasuredVar
    BY <1>1 DEF MeasuredVar
  <2>3. QED BY <1>1, <2>1, <2>2 DEF WeightsAre
<1>5. (est \in {"full", "single", "linear"} /\ truth \in Int /\ corrections \in Nat)'
  BY <1>1 DEF FilterInv
<1>6. QED BY <1>3, <1>4, <1>5 DEF FilterInv

LEMMA FilterInvStep == FilterInv /\ Filter!Next => FilterInv'
<1> SUFFICES ASSUME FilterInv, Filter!Next PROVE FilterInv'
  OBVIOUS
<1>1. CASE \E w \in ThetaVels : Filter!Predict(w)
  BY <1>1, PredictKeeps
<1>2. CASE \E e \in Filter!Errors : Filter!Correct(Filter!Wrapped(Filter!Whole(truth + e)))
  BY <1>2, CorrectKeeps
<1>3. CASE \E e \in Filter!Errors,
             p \in {Filter!Whole(InitialVar),
                    Filter!CreateCovarianceMatrix(Filter!Whole(StdDev))} :
             Filter!Reset(Filter!Whole(truth + e), p)
  BY <1>3, ResetKeeps
<1>4. QED BY <1>1, <1>2, <1>3 DEF Filter!Next

(***************************************************************************)
(* The theorem.                                                            *)
(***************************************************************************)
NumericsInv == WristInv /\ DriveInv /\ FilterInv

LEMMA NumericsInvInit == MissionInit => NumericsInv
<1> SUFFICES ASSUME MissionInit PROVE NumericsInv
  OBVIOUS
<1>1. Kin!Init /\ Filter!Init
  BY DEF MissionInit
<1>2. WristInv
  <2>1. gear \in GearPowers \X GearPowers /\ joint = Kin!GearPowerToJointPower(gear)
    BY <1>1 DEF Kin!Init
  <2>2. QED BY <2>1, WristInvInit
<1>3. QED BY <1>1, <1>2, DriveInvInit, FilterInvInit DEF NumericsInv

LEMMA NumericsInvStep == NumericsInv /\ [MissionNext]_missionVars => NumericsInv'
<1> SUFFICES ASSUME NumericsInv, [MissionNext]_missionVars PROVE NumericsInv'
  OBVIOUS
<1>1. WristInv'
  <2>1. CASE UNCHANGED wristVars
    BY <2>1 DEF NumericsInv, WristInv, wristVars
  <2>2. CASE Kin!WristNext
    BY <2>2, WristInvStep
  <2>3. QED BY <2>1, <2>2 DEF MissionNext, missionVars
<1>2. DriveInv'
  <2>1. CASE UNCHANGED driveVars
    <3>1. UNCHANGED <<wheels, kPose, start, turns, steered>>
      BY <2>1 DEF driveVars
    <3>2. QED BY <3>1 DEF NumericsInv, DriveInv
  <2>2. CASE Kin!DriveNext
    BY <2>2, DriveInvStep DEF NumericsInv
  <2>3. QED BY <2>1, <2>2 DEF MissionNext, missionVars
<1>3. FilterInv'
  <2>1. CASE UNCHANGED filterVars
    BY <2>1 DEF NumericsInv, FilterInv, CloseTo, WeightsAre, MeasuredVar, filterVars
  <2>2. CASE Filter!Next
    BY <2>2, FilterInvStep DEF NumericsInv
  <2>3. QED BY <2>1, <2>2 DEF MissionNext, missionVars
<1>4. QED BY <1>1, <1>2, <1>3 DEF NumericsInv

LEMMA NumericsInvHolds == NumericsInv => EstimatesFollowRover
<1> SUFFICES ASSUME NumericsInv PROVE EstimatesFollowRover
  OBVIOUS
<1>1. Kin!WristKeepsRatio
  BY WristInvHolds DEF NumericsInv
<1>2. Kin!BestVelocity
  BY BestVelocityHolds DEF NumericsInv, DriveInv
<1>3. Kin!PolygonCloses
  BY PolygonHolds DEF NumericsInv
<1>4. Filter!HeadingFollowsRover /\ Filter!WeightsAddUp("single")
  BY FilterInvHolds DEF NumericsInv
<1>5. QED BY <1>1, <1>2, <1>3, <1>4 DEF EstimatesFollowRover

\* DiffWristKinematics.cpp, SwerveDriveKinematics.cpp, DiffDriveKinematics.cpp, filters/: no
\* gear is given more than full power and the joint goes the way that was asked; the velocity of
\* the drive explains its wheels best and leads over the polygon that it should; and however
\* often the rover passes the half turn, the estimated heading is as close to its own as the
\* measurements are; PoseEstimator's variance has an inverse that is the sum of their weights.
THEOREM EstimatesFollowRoverAlways == MissionSpec => []EstimatesFollowRover
<1>1. MissionSpec => []NumericsInv
  BY NumericsInvInit, NumericsInvStep, PTL DEF MissionSpec
<1>2. QED BY <1>1, NumericsInvHolds, PTL
=============================================================================
