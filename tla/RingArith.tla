----------------------------- MODULE RingArith -----------------------------
(***************************************************************************)
(* The arithmetic of a ring of n cells indexed by a free-running position: *)
(* facts about p % n that the proofs about such rings cite.                *)
(***************************************************************************)
EXTENDS Integers, TLAPS

\* Quotient and remainder.
LEMMA DivMod ==
  ASSUME NEW n \in Nat, n > 0, NEW p \in Int
  PROVE  /\ p % n = p - n * (p \div n)
         /\ p \div n \in Int /\ p % n \in 0 .. n - 1
  OBVIOUS

\* Two positions in the same cell are at least a lap apart.
LEMMA SameCell ==
  ASSUME NEW n \in Nat, n > 0, NEW p \in Nat, NEW q \in Nat, p % n = q % n, p < q
  PROVE  q >= p + n
<1> DEFINE a == p \div n
           b == q \div n
<1>1. a \in Int /\ b \in Int /\ p % n = p - n * a /\ q % n = q - n * b
  BY DivMod
<1> HIDE DEF a, b
<1>2. q - p = n * b - n * a /\ n * a \in Int /\ n * b \in Int
  BY <1>1
<1>3. n * b - n * a = n * (b - a)
  BY <1>1
<1>4. n * (b - a) > 0
  BY <1>2, <1>3
<1>5. b - a > 0
  BY <1>1, <1>4
<1>6. n * (b - a) >= n
  BY <1>1, <1>5
<1>7. QED
  BY <1>2, <1>3, <1>6

\* A position and the same position one lap later are in the same cell.
LEMMA NextLap ==
  ASSUME NEW n \in Nat, n > 0, NEW p \in Nat PROVE (p + n) % n = p % n
<1> DEFINE a == p \div n
           b == (p + n) \div n
           r == p % n
           s == (p + n) % n
<1>1. /\ a \in Int /\ b \in Int /\ r \in 0 .. n - 1 /\ s \in 0 .. n - 1
      /\ r = p - n * a /\ s = (p + n) - n * b
  BY DivMod, p + n \in Nat
<1> HIDE DEF a, b, r, s
<1>2. s - r = n * (a + 1 - b) /\ a + 1 - b \in Int
  BY <1>1
<1>3. CASE a + 1 - b >= 1
  <2>1. n * (a + 1 - b) >= n
    BY <1>2, <1>3
  <2>2. QED
    BY <1>1, <1>2, <2>1
<1>4. CASE a + 1 - b <= -1
  <2>1. n * (a + 1 - b) <= -n
    BY <1>2, <1>4
  <2>2. QED
    BY <1>1, <1>2, <2>1
<1>5. CASE a + 1 - b = 0
  BY <1>1, <1>2, <1>5 DEF r, s
<1>6. QED
  BY <1>2, <1>3, <1>4, <1>5

\* The positions of one lap have cells of their own.
LEMMA OneLap ==
  ASSUME NEW n \in Nat, n > 0, NEW p \in Nat, NEW q \in Nat, p % n = q % n,
         p < q + n, q < p + n
  PROVE  p = q
  BY SameCell

\* A remainder is determined by its position in its lap.
LEMMA Remainder ==
  ASSUME NEW n \in Nat, n > 0, NEW q \in Int, NEW r \in 0 .. n - 1
  PROVE  (n * q + r) % n = r
<1> DEFINE p == n * q + r
           b == p \div n
           s == p % n
<1>1. b \in Int /\ s \in 0 .. n - 1 /\ s = p - n * b
  BY DivMod
<1>2. n * q \in Int /\ n * b \in Int
  BY <1>1
<1>3. s - r = n * q - n * b
  BY <1>1, <1>2
<1> HIDE DEF b, s
<1>4. n * q - n * b = n * (q - b) /\ q - b \in Int
  BY <1>1
<1>5. CASE q - b >= 1
  <2>1. n * (q - b) >= n
    BY <1>4, <1>5
  <2>2. QED
    BY <1>1, <1>3, <1>4, <2>1
<1>6. CASE q - b <= -1
  <2>1. n * (q - b) <= -n
    BY <1>4, <1>6
  <2>2. QED
    BY <1>1, <1>3, <1>4, <2>1
<1>7. CASE q - b = 0
  BY <1>1, <1>3, <1>4, <1>7 DEF s
<1>8. QED
  BY <1>4, <1>5, <1>6, <1>7

\* Any n positions in a row visit every cell.
LEMMA EveryCell ==
  ASSUME NEW n \in Nat, n > 0, NEW p \in Nat, NEW d \in Nat
  PROVE  \E i \in d .. d + n - 1 : i % n = p % n
<1> DEFINE a == d \div n
           s == d % n
           r == p % n
<1>1. a \in Int /\ s \in 0 .. n - 1 /\ d = n * a + s /\ r \in 0 .. n - 1 /\ n * a \in Int
  BY DivMod
<1> HIDE DEF a, s, r
<1>2. CASE r >= s
  <2>1. n * a + r \in d .. d + n - 1
    BY <1>1, <1>2
  <2>2. n * a + r \in Nat
    BY <2>1
  <2>3. (n * a + r) % n = r
    BY <1>1, <2>2, Remainder
  <2>4. QED
    BY <2>1, <2>3 DEF r
<1>3. CASE r < s
  <2>1. n * (a + 1) = n * a + n /\ a + 1 \in Int
    BY <1>1
  <2>2. n * (a + 1) + r \in d .. d + n - 1
    BY <1>1, <1>3, <2>1
  <2>3. n * (a + 1) + r \in Nat
    BY <2>2
  <2>4. (n * (a + 1) + r) % n = r
    BY <1>1, <2>1, <2>3, Remainder
  <2>5. QED
    BY <2>2, <2>4 DEF r
<1>4. QED
  BY <1>1, <1>2, <1>3

\* The successor of a remainder.
LEMMA NextCell ==
  ASSUME NEW n \in Nat, n > 0, NEW p \in Nat PROVE ((p % n) + 1) % n = (p + 1) % n
<1> DEFINE a == p \div n
           r == p % n
<1>1. a \in Int /\ r \in 0 .. n - 1 /\ p = n * a + r
  BY DivMod
<1> HIDE DEF a, r
<1>2. n * a \in Int /\ n * (a + 1) = n * a + n
  BY <1>1
<1>3. CASE r + 1 < n
  <2>1. p + 1 = n * a + (r + 1) /\ r + 1 = n * 0 + (r + 1) /\ r + 1 \in 0 .. n - 1
    BY <1>1, <1>2, <1>3
  <2>2. (n * a + (r + 1)) % n = r + 1 /\ (n * 0 + (r + 1)) % n = r + 1
    BY <1>1, <2>1, Remainder
  <2> QED BY <2>1, <2>2 DEF r
<1>4. CASE r + 1 = n
  <2>1. p + 1 = n * (a + 1) + 0 /\ r + 1 = n * 1 + 0 /\ a + 1 \in Int
    BY <1>1, <1>2, <1>4
  <2>2. (n * (a + 1) + 0) % n = 0 /\ (n * 1 + 0) % n = 0
    BY <2>1, Remainder
  <2> QED BY <2>1, <2>2 DEF r
<1> QED BY <1>1, <1>3, <1>4

\* The distance of two positions less than a lap apart shows in their remainders.
LEMMA CellDistance ==
  ASSUME NEW n \in Nat, n > 0, NEW p \in Nat, NEW q \in Nat, p - q \in 0 .. n - 1
  PROVE  ((p % n) - (q % n)) % n = p - q
<1> DEFINE a == p \div n
           b == q \div n
           r == p % n
           s == q % n
<1>1. a \in Int /\ r \in Int /\ r = p - n * a
  BY DivMod
<1>2. b \in Int /\ s \in Int /\ s = q - n * b
  BY DivMod
<1> HIDE DEF a, b, r, s
<1>3. n * a \in Int /\ n * b \in Int /\ n * (b - a) = n * b - n * a /\ b - a \in Int
  BY <1>1, <1>2
<1>4. r - s = n * (b - a) + (p - q)
  BY <1>1, <1>2, <1>3
<1>5. (n * (b - a) + (p - q)) % n = p - q
  BY <1>3, Remainder
<1> QED BY <1>4, <1>5 DEF r, s

\* A remainder of a remainder, when one modulus divides the other.
LEMMA CellOfCell ==
  ASSUME NEW n \in Nat, n > 0, NEW m \in Nat, m > 0, m % n = 0, NEW p \in Nat
  PROVE  (p % m) % n = p % n
<1> DEFINE k == m \div n
           a == p \div m
           s == p % m
           b == s \div n
           r == s % n
<1>1. k \in Int /\ m = n * k
  BY DivMod
<1>2. a \in Int /\ s \in Int /\ p = m * a + s
  BY DivMod
<1> HIDE DEF k, a, s
<1>3. b \in Int /\ r \in 0 .. n - 1 /\ s = n * b + r
  BY <1>2, DivMod
<1> HIDE DEF b, r
<1>4. m * a = n * (k * a) /\ k * a \in Int
  BY <1>1, <1>2
<1>5. n * (k * a + b) = n * (k * a) + n * b /\ k * a + b \in Int /\ n * b \in Int /\ n * (k * a) \in Int
  BY <1>3, <1>4
<1>6. p = n * (k * a + b) + r
  BY <1>2, <1>3, <1>4, <1>5
<1>7. (n * (k * a + b) + r) % n = r
  BY <1>3, <1>5, Remainder
<1> QED BY <1>6, <1>7 DEF r, s

\* Positions in the same cell move on to the same cell.
LEMMA SumOfCells ==
  ASSUME NEW n \in Nat, n > 0, NEW p \in Int, NEW q \in Int, NEW k \in Int, p % n = q % n
  PROVE  (p + k) % n = (q + k) % n
<1> DEFINE a == p \div n
           b == q \div n
           r == q % n
           c == (q + k) \div n
           s == (q + k) % n
<1>1. a \in Int /\ b \in Int /\ r \in Int /\ p = n * a + r /\ q = n * b + r
  BY DivMod
<1>2. c \in Int /\ s \in 0 .. n - 1 /\ q + k = n * c + s
  BY DivMod, q + k \in Int
<1> HIDE DEF a, b, r, c
<1>3. /\ n * (a - b + c) = n * a - n * b + n * c /\ a - b + c \in Int
      /\ n * a \in Int /\ n * b \in Int /\ n * c \in Int
  BY <1>1, <1>2
<1> HIDE DEF s
<1>4. p + k = n * (a - b + c) + s
  BY <1>1, <1>2, <1>3
<1>5. (n * (a - b + c) + s) % n = s
  BY <1>2, <1>3, Remainder
<1> QED BY <1>4, <1>5 DEF s

\* The first lap.
LEMMA FirstLap == ASSUME NEW n \in Nat, n > 0, NEW r \in 0 .. n - 1 PROVE r % n = r
<1> DEFINE q == 0
<1>1. q \in Int /\ n * q + r = r
  OBVIOUS
<1> HIDE DEF q
<1>2. (n * q + r) % n = r
  BY <1>1, Remainder
<1> QED BY <1>1, <1>2
=============================================================================
