----------------------------- MODULE Arithmetic -----------------------------
(***************************************************************************)
(* Facts about numbers that several of the proofs need: multiples of a     *)
(* size and the blocks between them (pages, sectors, lines, accesses), what*)
(* is left when a number wraps, and the least and the greatest of a set.   *)
(***************************************************************************)
EXTENDS Integers, WellFoundedInduction, TLAPS

-----------------------------------------------------------------------------
(* Multiples of a size.                                                    *)

LEMMA ProductGrows ==
  ASSUME NEW n \in Nat, NEW j \in Int, NEW k \in Int, j <= k
  PROVE  n * j <= n * k
<1> DEFINE d == k - j
<1>1. d \in Nat /\ k = j + d
  OBVIOUS
<1> HIDE DEF d
<1>2. n * k = n * j + n * d
  BY <1>1
<1>3. n * d >= 0 /\ n * d \in Int /\ n * j \in Int
  BY <1>1
<1> QED
  BY <1>2, <1>3

LEMMA Divided ==
  ASSUME NEW n \in Nat \ {0}, NEW a \in Int
  PROVE  /\ a \div n \in Int /\ a % n \in 0..(n - 1)
         /\ a = n * (a \div n) + (a % n)
<1>1. a % n \in Int /\ a % n >= 0 /\ a % n < n
  OBVIOUS
<1>2. a \div n \in Int
  OBVIOUS
<1>3. a = n * (a \div n) + (a % n)
  OBVIOUS
<1> QED
  BY <1>1, <1>2, <1>3

\* The quotient and the rest are the only ones.
LEMMA DividedOnce ==
  ASSUME NEW n \in Nat \ {0}, NEW q \in Int, NEW r \in 0..(n - 1)
  PROVE  (n * q + r) \div n = q /\ (n * q + r) % n = r
OBVIOUS

LEMMA TimesIsMultiple ==
  ASSUME NEW n \in Nat \ {0}, NEW k \in Int
  PROVE  n * k \in Int /\ (n * k) % n = 0
<1>1. n * k + 0 = n * k /\ n * k \in Int /\ 0 \in 0..(n - 1)
  OBVIOUS
<1>2. (n * k + 0) % n = 0
  BY <1>1, DividedOnce
<1> QED
  BY <1>1, <1>2

\* Between two multiples that differ there is a block.
LEMMA NextMultiple ==
  ASSUME NEW n \in Nat \ {0}, NEW a \in Int, NEW b \in Int,
         a % n = 0, b % n = 0, a < b
  PROVE  a + n <= b
<1> DEFINE j == a \div n
           k == b \div n
<1>1. j \in Int /\ k \in Int /\ a = n * j /\ b = n * k
  BY Divided
<1> HIDE DEF j, k
<1>2. j < k
  <2>1. SUFFICES ASSUME k <= j PROVE FALSE
    BY <1>1
  <2>2. n * k <= n * j
    BY <2>1, <1>1, ProductGrows
  <2> QED
    BY <2>2, <1>1
<1>3. n * (j + 1) <= n * k
  BY <1>1, <1>2, ProductGrows
<1>4. n * (j + 1) = n * j + n
  BY <1>1
<1> QED
  BY <1>1, <1>3, <1>4

LEMMA MultiplesAdd ==
  ASSUME NEW n \in Nat \ {0}, NEW a \in Int, NEW b \in Int,
         a % n = 0, b % n = 0
  PROVE  (a + b) % n = 0 /\ (a - b) % n = 0
<1> DEFINE j == a \div n
           k == b \div n
<1>1. j \in Int /\ k \in Int /\ a = n * j /\ b = n * k
  BY Divided
<1> HIDE DEF j, k
<1>2. a + b = n * (j + k) /\ a - b = n * (j - k)
  BY <1>1
<1> QED
  BY <1>1, <1>2, TimesIsMultiple

\* The block of size n that a lies in begins at a - (a % n).
LEMMA TopOf ==
  ASSUME NEW n \in Nat \ {0}, NEW a \in Int
  PROVE  /\ a - (a % n) \in Int /\ (a - (a % n)) % n = 0
         /\ a - (a % n) <= a /\ a < a - (a % n) + n
<1>1. a = n * (a \div n) + (a % n) /\ a % n \in 0..(n - 1) /\ a \div n \in Int
  BY Divided
<1>2. a - (a % n) = n * (a \div n) /\ a - (a % n) \in Int
  BY <1>1
<1>3. (a - (a % n)) % n = 0
  BY <1>1, <1>2, TimesIsMultiple
<1> QED
  BY <1>1, <1>2, <1>3

\* The cells of the block at t: they have its beginning and its number.
LEMMA InBlock ==
  ASSUME NEW n \in Nat \ {0}, NEW t \in Int, t % n = 0, NEW a \in Int
  PROVE  /\ a - (a % n) = t <=> t <= a /\ a < t + n
         /\ a \div n = t \div n <=> t <= a /\ a < t + n
<1> DEFINE k == t \div n
<1>1. k \in Int /\ t = n * k
  BY Divided
<1> HIDE DEF k
<1>2. ASSUME t <= a, a < t + n
      PROVE  a \div n = k /\ a % n = a - t
  <2>1. a - t \in 0..(n - 1) /\ a = n * k + (a - t)
    BY <1>1, <1>2
  <2>2. (n * k + (a - t)) \div n = k /\ (n * k + (a - t)) % n = a - t
    BY <2>1, <1>1, DividedOnce
  <2> QED
    BY <2>1, <2>2
<1>3. t \div n = k
  BY <1>1, <1>2
<1>4. a = n * (a \div n) + (a % n) /\ a % n \in 0..(n - 1) /\ a \div n \in Int
  BY Divided
<1>5. a \div n = k => t <= a /\ a < t + n
  BY <1>1, <1>4
<1>6. a - (a % n) = t => t <= a /\ a < t + n
  BY <1>4
<1> QED
  BY <1>2, <1>3, <1>5, <1>6, <1>4

\* No block reaches over a multiple of its size.
LEMMA BlockWithin ==
  ASSUME NEW n \in Nat \ {0}, NEW m \in Int, m % n = 0, NEW a \in Int
  PROVE  /\ m <= a => m <= a - (a % n)
         /\ a < m => a - (a % n) + n <= m
<1> SUFFICES ASSUME NEW t \in Int, t = a - (a % n)
             PROVE  (m <= a => m <= t) /\ (a < m => t + n <= m)
  BY TopOf, Zenon
<1>1. t % n = 0 /\ t <= a /\ a < t + n
  BY TopOf
<1>2. ASSUME m <= a PROVE m <= t
  <2>1. SUFFICES ASSUME t < m PROVE FALSE
    BY <1>1
  <2> QED
    BY <2>1, <1>1, <1>2, NextMultiple
<1>3. ASSUME a < m PROVE t + n <= m
  <2>1. t < m
    BY <1>1, <1>3
  <2> QED
    BY <2>1, <1>1, NextMultiple
<1> QED
  BY <1>2, <1>3

\* Multiples of a multiple.
LEMMA MultipleOfMultiple ==
  ASSUME NEW n \in Nat \ {0}, NEW m \in Nat \ {0}, m % n = 0, NEW a \in Int, a % m = 0
  PROVE  a % n = 0
<1> DEFINE j == m \div n
           k == a \div m
<1>1. j \in Int /\ k \in Int /\ m = n * j /\ a = m * k
  BY Divided
<1> HIDE DEF j, k
<1>2. a = n * (j * k) /\ j * k \in Int
  BY <1>1
<1> QED
  BY <1>2, TimesIsMultiple

\* What is between 0 and n is its own rest.
LEMMA OwnRest ==
  ASSUME NEW n \in Nat \ {0}, NEW a \in 0..(n - 1)
  PROVE  a % n = a /\ (-1) % n = n - 1
<1>1. a = n * 0 + a /\ -1 = n * (-1) + (n - 1) /\ n - 1 \in 0..(n - 1)
  OBVIOUS
<1>2. (n * 0 + a) % n = a
  BY DividedOnce
<1>3. (n * (-1) + (n - 1)) % n = n - 1
  BY <1>1, DividedOnce
<1> QED
  BY <1>1, <1>2, <1>3

\* A multiple of both sizes takes a multiple to a multiple: an address that wraps stays
\* aligned.
LEMMA RestOfMultiple ==
  ASSUME NEW n \in Nat \ {0}, NEW m \in Nat \ {0}, m % n = 0, NEW a \in Int, a % n = 0
  PROVE  (a % m) % n = 0
<1>1. PICK q \in Int : a = m * q + (a % m)  BY Divided
<1>2. a % m \in Int  BY Divided
<1>3. m * q \in Int /\ (m * q) % m = 0  BY TimesIsMultiple
<1>4. (m * q) % n = 0  BY <1>3, MultipleOfMultiple
<1>5. (a - m * q) % n = 0  BY <1>3, <1>4, MultiplesAdd
<1>6. a - m * q = a % m
  <2>1. PICK t \in Int : t = m * q  BY <1>3
  <2>2. PICK r \in Int : r = a % m  BY <1>2
  <2>3. a = t + r  BY <1>1, <2>1, <2>2
  <2>4. a - t = r  BY <2>3
  <2> QED  BY <2>1, <2>2, <2>4
<1> QED  BY <1>5, <1>6

\* The rest of a sum depends on the rest of a summand.
LEMMA RestOfSum ==
  ASSUME NEW n \in Nat \ {0}, NEW a \in Int, NEW b \in Int
  PROVE  ((a % n) + b) % n = (a + b) % n
<1>1. PICK q \in Int, r \in 0..(n - 1) : a = n * q + r /\ r = a % n  BY Divided
<1>2. r \in Int  OBVIOUS
<1>3. PICK p \in Int, s \in 0..(n - 1) : r + b = n * p + s /\ s = (r + b) % n
  <2>1. r + b \in Int  BY <1>2
  <2> QED  BY <2>1, Divided
<1>4. a + b = n * (q + p) + s
  <2>1. n * (q + p) = n * q + n * p /\ n * q \in Int /\ n * p \in Int /\ s \in Int  OBVIOUS
  <2>2. a = n * q + r /\ r + b = n * p + s  BY <1>1, <1>3
  <2> QED  BY <2>1, <2>2, <1>2
<1>5. (n * (q + p) + s) % n = s  BY DividedOnce
<1> QED  BY <1>1, <1>3, <1>4, <1>5

\* What is below a size but not below zero is its own rest.
LEMMA Below ==
  ASSUME NEW n \in Nat \ {0}, NEW a \in Nat, a < n
  PROVE  a % n = a
<1>1. a \in 0..(n - 1)  OBVIOUS
<1> QED  BY <1>1, OwnRest

-----------------------------------------------------------------------------
(* The least and the greatest.                                             *)

\* A set of natural numbers has a least element.
LEMMA LeastNatural ==
  ASSUME NEW T \in SUBSET Nat, T # {}
  PROVE  \E x \in T: \A y \in T: x <= y
<1> DEFINE R == OpToRel(<, Nat)
<1>1. IsWellFoundedOn(R, Nat)  BY NatLessThanWellFounded
<1>2. \A x, y \in Nat: y < x => <<y, x>> \in R  BY DEF OpToRel
<1> HIDE DEF R
<1>3. PICK x \in T: \A y \in T: <<y, x>> \notin R  BY <1>1, WFMin
<1>4. ASSUME NEW y \in T PROVE x <= y
  <2>1. x \in Nat /\ y \in Nat  OBVIOUS
  <2>2. ~(y < x)  BY <1>2, <1>3, <2>1
  <2> QED  BY <2>1, <2>2
<1> QED  BY <1>4

\* A set of natural numbers that has a bound has a greatest element.
LEMMA GreatestNatural ==
  ASSUME NEW T \in SUBSET Nat, T # {}, NEW n \in Nat, \A y \in T: y <= n
  PROVE  \E x \in T: \A y \in T: y <= x
<1> DEFINE U == {n - y: y \in T}
<1>1. U \in SUBSET Nat /\ U # {}
  <2>1. \A y \in T: y \in Nat /\ y <= n /\ n - y \in Nat  OBVIOUS
  <2> QED  BY <2>1, Zenon
<1>2. PICK u \in U: \A v \in U: u <= v
  <2> HIDE DEF U
  <2> QED  BY <1>1, LeastNatural
<1>3. PICK x \in T: u = n - x  OBVIOUS
<1>4. ASSUME NEW y \in T PROVE y <= x
  <2>1. n - x <= n - y  BY <1>2, <1>3
  <2>2. x \in Nat /\ y \in Nat  OBVIOUS
  <2> QED  BY <2>1, <2>2
<1> QED  BY <1>4
=============================================================================
