---------------------------- MODULE ModuloFacts ----------------------------
(***************************************************************************)
(* Remainders, for the indices and counters of the kernel's ring buffers.  *)
(***************************************************************************)
EXTENDS Integers, TLAPS

\* Multiples of a natural grow with the factor.
LEMMA Multiple ==
  ASSUME NEW m \in Nat, NEW n \in Int
  PROVE  (n >= 1 => n * m >= m) /\ (n <= 0 => n * m <= 0) /\ (n <= -1 => n * m <= -m)
<1>1. n >= 1 => n * m >= m
  OBVIOUS
<1>2. n <= 0 => n * m <= 0
  OBVIOUS
<1>3. n <= -1 => n * m <= -m
  <2>1. (n + 1) * m = n * m + m
    OBVIOUS
  <2>2. n + 1 <= 0 => (n + 1) * m <= 0
    OBVIOUS
  <2> QED BY <2>1, <2>2
<1> QED BY <1>1, <1>2, <1>3

\* A number and its remainder differ by a multiple of the divisor.
LEMMA ModDef ==
  ASSUME NEW a \in Int, NEW m \in Nat \ {0}
  PROVE  \E q \in Int, r \in 0 .. m - 1 : a % m = r /\ a = q * m + r
<1>1. a % m \in 0 .. m - 1 /\ a \div m \in Int
  OBVIOUS
<1>2. a % m = a - m * (a \div m)
  BY Z3
<1>3. PICK q \in Int, r \in 0 .. m - 1 : r = a % m /\ q = a \div m
  BY <1>1, Zenon
<1>4. r = a - m * q
  BY <1>2, <1>3, Zenon
<1>5. a = q * m + r
  BY <1>4
<1>6. a % m = r
  BY <1>3, Zenon
<1> QED BY <1>5, <1>6, Zenon

\* The remainder is the only number of its range that does.
LEMMA ModUnique ==
  ASSUME NEW a \in Int, NEW m \in Nat \ {0}, NEW q \in Int, NEW r \in 0 .. m - 1,
         a = q * m + r
  PROVE  a % m = r
<1>1. PICK p \in Int, s \in 0 .. m - 1 : a % m = s /\ a = p * m + s
  BY ModDef, Zenon
<1>2. a = p * m + s
  BY <1>1, Zenon
<1>3. (p - q) * m = r - s
  BY <1>2
<1>4. (p - q >= 1 => r - s >= m) /\ (p - q <= -1 => r - s <= -m)
  BY <1>3, Multiple
<1>5. p = q
  BY <1>4
<1>6. r = s
  BY <1>2, <1>5
<1> QED BY <1>1, <1>6, Zenon

\* Numbers that differ by a multiple of the divisor have one remainder.
LEMMA ModSame ==
  ASSUME NEW b \in Int, NEW m \in Nat \ {0}, NEW q \in Int
  PROVE  (b + q * m) % m = b % m
<1>0. PICK a \in Int : a = b + q * m
  OBVIOUS
<1>1. PICK p \in Int, r \in 0 .. m - 1 : b % m = r /\ b = p * m + r
  BY ModDef, Zenon
<1>2. b = p * m + r
  BY <1>1, Zenon
<1>3. PICK t \in Int : a = t * m + r
  BY <1>0, <1>2
<1>4. a % m = r
  BY <1>3, ModUnique, Zenon
<1> QED BY <1>0, <1>1, <1>4, Zenon

\* A remainder may be taken before an addition.
LEMMA ModAdd ==
  ASSUME NEW a \in Int, NEW b \in Int, NEW m \in Nat \ {0}
  PROVE  ((a % m) + b) % m = (a + b) % m
<1>1. PICK q \in Int, r \in 0 .. m - 1 : a % m = r /\ a = q * m + r
  BY ModDef, Zenon
<1>2. a = q * m + r
  BY <1>1, Zenon
<1>3. PICK x \in Int, y \in Int : x = a + b /\ y = r + b /\ x = y + q * m
  BY <1>2
<1>4. x % m = y % m
  <2>1. (y + q * m) % m = y % m
    BY ModSame, Zenon
  <2>2. x = y + q * m
    BY <1>3, Zenon
  <2> QED BY <2>1, <2>2, Zenon
<1> QED BY <1>1, <1>3, <1>4, Zenon

\* A number of the range is its own remainder.
LEMMA ModSmall ==
  ASSUME NEW m \in Nat \ {0}, NEW a \in 0 .. m - 1
  PROVE  a % m = a
<1>1. a = 0 * m + a /\ a \in Int /\ 0 \in Int
  OBVIOUS
<1> QED BY <1>1, ModUnique, Zenon

\* Wrapping at a multiple of the divisor does not change the remainder.
LEMMA ModWrap ==
  ASSUME NEW a \in Int, NEW m \in Nat \ {0}, NEW w \in Nat \ {0}, w % m = 0
  PROVE  (a % w) % m = a % m
<1>1. PICK q \in Int, r \in 0 .. w - 1 : a % w = r /\ a = q * w + r
  BY ModDef, Zenon
<1>2. w \in Int
  OBVIOUS
<1>3. PICK k \in Int, z \in 0 .. m - 1 : w % m = z /\ w = k * m + z
  BY <1>2, ModDef, Zenon
<1>4. a = q * w + r /\ w = k * m + z /\ z = 0
  BY <1>1, <1>3, Zenon
<1>5. PICK t \in Int : a = r + t * m
  <2>1. q * w = (q * k) * m /\ q * k \in Int
    BY <1>4
  <2> QED BY <1>4, <2>1
<1>6. r \in Int
  OBVIOUS
<1>7. a % m = r % m
  BY <1>5, <1>6, ModSame, Zenon
<1> QED BY <1>1, <1>7, Zenon

\* Less than a divisor apart, different numbers have different remainders.
LEMMA ModWindow ==
  ASSUME NEW a \in Int, NEW b \in Int, NEW m \in Nat \ {0}, a < b, b < a + m
  PROVE  a % m # b % m
<1>1. SUFFICES ASSUME a % m = b % m PROVE FALSE
  OBVIOUS
<1>2. PICK p \in Int, r \in 0 .. m - 1 : a % m = r /\ a = p * m + r
  BY ModDef, Zenon
<1>3. PICK q \in Int, s \in 0 .. m - 1 : b % m = s /\ b = q * m + s
  BY ModDef, Zenon
<1>4. a = p * m + r /\ b = q * m + r
  BY <1>1, <1>2, <1>3, Zenon
<1>5. b - a = (q - p) * m
  BY <1>4
<1>6. (q - p >= 1 => b - a >= m) /\ (q - p <= 0 => b - a <= 0)
  BY <1>5, Multiple
<1> QED BY <1>6
=============================================================================
