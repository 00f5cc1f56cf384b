-------------------------- MODULE ModularArithmetic --------------------------
(* Facts about \div and % by a positive number.                             *)
EXTENDS Integers, TLAPS

\* Division by a positive number.
LEMMA Division ==
    ASSUME NEW m \in Nat \ {0}, NEW x \in Int
    PROVE  /\ x = (x \div m) * m + (x % m)
           /\ x \div m \in Int
           /\ x % m \in 0 .. m - 1
<1>1. x % m = x - m * (x \div m)
  OBVIOUS
<1>2. x \div m \in Int
  OBVIOUS
<1>3. x % m \in 0 .. m - 1
  OBVIOUS
<1> DEFINE q == x \div m
           r == x % m
<1>4. q \in Int /\ r \in 0 .. m - 1 /\ r = x - m * q
  BY <1>1, <1>2, <1>3
<1> HIDE DEF q, r
<1>5. x = q * m + r
  BY <1>4
<1> QED BY <1>2, <1>3, <1>5 DEF q, r

\* A multiple of m smaller than m in absolute value is zero.
LEMMA SmallMultiple ==
    ASSUME NEW m \in Nat \ {0}, NEW d \in Int, d * m \in -(m - 1) .. m - 1
    PROVE  d = 0
<1>1. d >= 1 => d * m >= m
  OBVIOUS
<1>2. d <= -1 => d * m <= -m
  OBVIOUS
<1> QED BY <1>1, <1>2

\* A quotient and a remainder in range are the quotient and the remainder.
LEMMA ModUnique ==
    ASSUME NEW m \in Nat \ {0}, NEW x \in Int, NEW q \in Int,
           NEW r \in 0 .. m - 1, x = q * m + r
    PROVE  x % m = r
<1> DEFINE d == x \div m
<1>1. x = d * m + (x % m) /\ x % m \in 0 .. m - 1 /\ d \in Int
  BY Division
<1> HIDE DEF d
<1>2. (q - d) * m = (x % m) - r
  BY <1>1
<1>3. q - d = 0
  BY <1>1, <1>2, SmallMultiple
<1> QED BY <1>1, <1>3

\* The remainder of a sum, and of a difference, of two numbers below m.
LEMMA ModSum ==
    ASSUME NEW m \in Nat \ {0}, NEW x \in 0 .. 2 * m - 1
    PROVE  x % m = IF x < m THEN x ELSE x - m
<1>1. CASE x < m
  <2>1. x = 0 * m + x /\ x \in 0 .. m - 1
    BY <1>1
  <2> QED BY <1>1, <2>1, ModUnique
<1>2. CASE x >= m
  <2>1. x = 1 * m + (x - m) /\ x - m \in 0 .. m - 1
    BY <1>2
  <2>2. x % m = x - m
    BY <2>1, ModUnique
  <2> QED BY <1>2, <2>2
<1> QED BY <1>1, <1>2

LEMMA ModDifference ==
    ASSUME NEW m \in Nat \ {0}, NEW x \in -m .. m - 1
    PROVE  x % m = IF x >= 0 THEN x ELSE x + m
<1>1. CASE x >= 0
  <2>1. x = 0 * m + x /\ x \in 0 .. m - 1
    BY <1>1
  <2> QED BY <1>1, <2>1, ModUnique
<1>2. CASE x < 0
  <2>1. x = (-1) * m + (x + m) /\ x + m \in 0 .. m - 1
    BY <1>2
  <2>2. x % m = x + m
    BY <2>1, ModUnique
  <2> QED BY <1>2, <2>2
<1> QED BY <1>1, <1>2

\* Numbers that differ by a multiple of m have the same remainder.
LEMMA ModCongruent ==
    ASSUME NEW m \in Nat \ {0}, NEW x \in Int, NEW y \in Int, NEW d \in Int,
           x = d * m + y
    PROVE  x % m = y % m
<1> DEFINE q == y \div m
           r == y % m
<1>1. y = q * m + r /\ r \in 0 .. m - 1 /\ q \in Int
  BY Division
<1> HIDE DEF q, r
<1>2. x = (d + q) * m + r
  BY <1>1
<1>3. x % m = r
  BY <1>1, <1>2, ModUnique
<1> QED BY <1>3 DEF r

\* Reducing modulo a multiple of m first changes no remainder by m.
LEMMA ModOfMultiple ==
    ASSUME NEW m \in Nat \ {0}, NEW n \in Nat \ {0},
           \E w \in Nat \ {0} : n = w * m
    PROVE  \A x, k \in Int : (x + k) % m = ((x % n) + k) % m
<1> SUFFICES ASSUME NEW x \in Int, NEW k \in Int
             PROVE  (x + k) % m = ((x % n) + k) % m
  OBVIOUS
<1>0. PICK w \in Nat \ {0} : n = w * m
  OBVIOUS
<1> DEFINE d == x \div n
           y == x % n
<1>1. x = d * n + y /\ y \in Int /\ d \in Int
  <2>1. x = d * n + y /\ y \in 0 .. n - 1 /\ d \in Int
    BY Division
  <2> HIDE DEF d, y
  <2> QED BY <2>1
<1> HIDE DEF d, y
<1>2. d * n = (d * w) * m
  <2>1. d * (w * m) = (d * w) * m
    BY <1>1
  <2> QED BY <1>0, <2>1
<1> DEFINE e == d * w
<1>3. e \in Int /\ d * n = e * m
  <2>1. d * w \in Int
    BY <1>1
  <2> QED BY <2>1, <1>2, Zenon
<1> HIDE DEF e
<1> DEFINE f == x + k
           g == y + k
<1>4. f = e * m + g /\ f \in Int /\ g \in Int
  BY <1>1, <1>3
<1> HIDE DEF f, g
<1>5. f % m = g % m
  BY <1>3, <1>4, ModCongruent
<1> QED BY <1>5 DEF y, f, g

\* Equal remainders of numbers less than m apart mean equal numbers.
LEMMA ModInjective ==
    ASSUME NEW m \in Nat \ {0}, NEW x \in Int, NEW y \in Int,
           x - y \in -(m - 1) .. m - 1, x % m = y % m
    PROVE  x = y
<1> DEFINE a == x \div m
           b == y \div m
           r == x % m
<1>1. x = a * m + r /\ y = b * m + r /\ a \in Int /\ b \in Int /\ r \in Int
  BY Division
<1> HIDE DEF a, b, r
<1>2. (a - b) * m = x - y
  BY <1>1
<1>3. a - b = 0
  BY <1>1, <1>2, SmallMultiple
<1> QED BY <1>1, <1>3

\* A number is below p if p is not contained in it.
LEMMA NoQuotient ==
    ASSUME NEW n \in Nat, NEW p \in Nat \ {0}
    PROVE  n \div p = 0 <=> n < p
<1> DEFINE q == n \div p
<1>1. n = q * p + (n % p) /\ q \in Int /\ n % p \in 0 .. p - 1
  BY Division
<1> HIDE DEF q
<1>2. q >= 1 => q * p >= p
  BY <1>1
<1>3. q <= -1 => q * p <= -p
  BY <1>1
<1>4. q = 0 => q * p = 0
  BY <1>1
<1> QED  BY <1>1, <1>2, <1>3, <1>4 DEF q

\* A quotient and a remainder in range are the quotient and the remainder.
LEMMA DivUnique ==
    ASSUME NEW m \in Nat \ {0}, NEW x \in Int, NEW q \in Int,
           NEW r \in 0 .. m - 1, x = q * m + r
    PROVE  x \div m = q
<1> DEFINE e == x \div m
<1>1. x = e * m + (x % m) /\ e \in Int /\ x % m \in 0 .. m - 1
  BY Division
<1> HIDE DEF e
<1>2. (e - q) * m = r - (x % m)
  BY <1>1
<1>3. e - q = 0
  BY <1>1, <1>2, SmallMultiple
<1> QED  BY <1>1, <1>3 DEF e

\* A quotient by p is twice the quotient by twice p, and perhaps one.
LEMMA HalfQuotient ==
    ASSUME NEW n \in Nat, NEW p \in Nat \ {0}
    PROVE  /\ n \div p \in Nat
           /\ n \div (2 * p) \in Nat
           /\ n \div p = 2 * (n \div (2 * p)) + ((n \div p) % 2)
<1> DEFINE q == n \div p
           h == q \div 2
           s == q % 2
           r == n % p
<1>1. n = q * p + r /\ q \in Int /\ r \in 0 .. p - 1
  BY Division
<1>2. q = h * 2 + s /\ h \in Int /\ s \in 0 .. 1
  <2> HIDE DEF q
  <2> QED  BY <1>1, Division
<1>3. s * p = 0 \/ s * p = p
  <2> HIDE DEF s
  <2> QED  BY <1>2
<1> HIDE DEF q, h, s, r
<1>4. q \in Nat /\ h \in Nat
  <2>1. q < 0 => q * p <= -p
    BY <1>1
  <2>2. q >= 0
    BY <1>1, <2>1
  <2> QED  BY <2>2, <1>1, <1>2
<1>5. n = h * (2 * p) + (s * p + r)
  <2>1. q * p = (h * 2) * p + s * p
    BY <1>2
  <2>2. (h * 2) * p = h * (2 * p)
    BY <1>2
  <2>3. s * p \in Int /\ h * (2 * p) \in Int /\ (h * 2) * p \in Int
    BY <1>2
  <2> DEFINE x == s * p
             y == h * (2 * p)
             z == (h * 2) * p
  <2>4. n = q * p + r /\ q * p = z + x /\ z = y
    BY <2>1, <2>2, <1>1
  <2>5. x \in Int /\ y \in Int /\ z \in Int /\ r \in Int
    BY <2>3, <1>1
  <2> HIDE DEF x, y, z
  <2>6. n = (y + x) + r
    BY <2>4
  <2>7. n = y + (x + r)
    BY <2>5, <2>6
  <2> QED  BY <2>7 DEF x, y
<1>6. 2 * p \in Nat \ {0} /\ s * p + r \in 0 .. 2 * p - 1
  BY <1>1, <1>3
<1>7. n \div (2 * p) = h
  <2> DEFINE t == s * p + r
             m == 2 * p
  <2>1. n = h * m + t /\ m \in Nat \ {0} /\ t \in 0 .. m - 1
    BY <1>5, <1>6
  <2> HIDE DEF t, m
  <2>2. n \div m = h
    BY <1>2, <2>1, DivUnique
  <2> QED  BY <2>2 DEF m
<1>8. q = 2 * h + s
  BY <1>1, <1>2
<1>9. n \div (2 * p) \in Nat
  BY <1>4, <1>7
<1> QED  BY <1>4, <1>7, <1>8, <1>9, Zenon DEF q, s
=============================================================================
