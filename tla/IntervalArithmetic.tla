------------------------- MODULE IntervalArithmetic -------------------------
(***************************************************************************)
(* Counting what is done every k-th sweep: lemmas about the remainder and  *)
(* the quotient of a sweep counter that the drivers advance by one, for an *)
(* interval of any length.  The provers do not divide by variables on      *)
(* their own.                                                              *)
(***************************************************************************)
EXTENDS Integers, TLAPS

LEMMA ProductAtLeast ==
  ASSUME NEW k \in Nat \ {0}, NEW d \in Int, d >= 1
  PROVE  k * d >= k
OBVIOUS

LEMMA Division ==
  ASSUME NEW n \in Int, NEW k \in Nat \ {0}
  PROVE  n \div k \in Int /\ n % k \in 0..(k - 1) /\ n = k * (n \div k) + (n % k)
OBVIOUS

LEMMA DivisionUnique ==
  ASSUME NEW k \in Nat \ {0}, NEW q1 \in Int, NEW q2 \in Int,
         NEW r1 \in 0..(k - 1), NEW r2 \in 0..(k - 1), k * q1 + r1 = k * q2 + r2
  PROVE  q1 = q2 /\ r1 = r2
<1>1. k * (q1 - q2) = r2 - r1 /\ k * (q2 - q1) = r1 - r2
  OBVIOUS
<1>2. ~(q1 - q2 >= 1)
  BY <1>1, ProductAtLeast
<1>3. ~(q2 - q1 >= 1)
  BY <1>1, ProductAtLeast
<1>4. q1 = q2
  BY <1>2, <1>3
<1> QED
  BY <1>4

(* One more sweep. *)
LEMMA OneMore ==
  ASSUME NEW n \in Nat, NEW k \in Nat \ {0}
  PROVE  /\ n % k = k - 1 => /\ (n + 1) % k = 0
                             /\ (n + 1) \div k = n \div k + 1
                             /\ k * ((n + 1) \div k) = n + 1
         /\ n % k # k - 1 => /\ (n + 1) % k = (n % k) + 1
                             /\ (n + 1) \div k = n \div k
<1> DEFINE q == n \div k
           r == n % k
           q1 == (n + 1) \div k
           r1 == (n + 1) % k
<1>1. q \in Int /\ r \in 0..(k - 1) /\ n = k * q + r
  BY Division
<1>2. q1 \in Int /\ r1 \in 0..(k - 1) /\ n + 1 = k * q1 + r1
  BY Division
<1> HIDE DEF q, r, q1, r1
<1>3. ASSUME r = k - 1 PROVE r1 = 0 /\ q1 = q + 1 /\ k * q1 = n + 1
  <2>1. n + 1 = k * (q + 1) + 0 /\ 0 \in 0..(k - 1) /\ q + 1 \in Int
    BY <1>1, <1>3
  <2>2. r1 = 0 /\ q1 = q + 1
    BY <2>1, <1>2, DivisionUnique
  <2> QED
    BY <2>1, <2>2
<1>4. ASSUME r # k - 1 PROVE r1 = r + 1 /\ q1 = q
  <2>1. n + 1 = k * q + (r + 1) /\ r + 1 \in 0..(k - 1)
    BY <1>1, <1>4
  <2> QED
    BY <2>1, <1>1, <1>2, DivisionUnique
<1> QED
  BY <1>3, <1>4 DEF q, r, q1, r1

(* Counters that agree modulo k still do after one more sweep.             *)
LEMMA InStepModulo ==
  ASSUME NEW a \in Nat, NEW b \in Nat, NEW k \in Nat \ {0}, a % k = b % k
  PROVE  (a + 1) % k = (b + 1) % k
<1>1. /\ a % k = k - 1 => (a + 1) % k = 0
      /\ a % k # k - 1 => (a + 1) % k = (a % k) + 1
  BY OneMore
<1>2. /\ b % k = k - 1 => (b + 1) % k = 0
      /\ b % k # k - 1 => (b + 1) % k = (b % k) + 1
  BY OneMore
<1> QED
  BY <1>1, <1>2

LEMMA Quotient ==
  ASSUME NEW n \in Int, NEW k \in Nat \ {0}
  PROVE  \E q \in Int : n = k * q + (n % k) /\ n % k \in 0..(k - 1)
BY Division

LEMMA RemainderIs ==
  ASSUME NEW k \in Nat \ {0}, NEW b \in Int, NEW u \in 0..(k - 1), NEW x \in Int, x = k * b + u
  PROVE  x % k = u
<1>1. PICK y \in Int, z \in 0..(k - 1) : x = k * y + z /\ z = x % k
  BY Quotient
<1>2. k * b + u = k * y + z
  BY <1>1
<1>3. u = z
  BY <1>2, DivisionUnique
<1> QED
  BY <1>1, <1>3

(* What is due every k * j-th time is due every k-th.                      *)
LEMMA DueOften ==
  ASSUME NEW n \in Nat, NEW k \in Nat \ {0}, NEW j \in Nat \ {0}, j % k = 0, n % j = 0
  PROVE  n % k = 0
<1>0. j \in Int /\ n \in Int
  OBVIOUS
<1>a. \E q \in Int : j = k * q + (j % k) /\ j % k \in 0..(k - 1)
  BY <1>0, Quotient
<1>b. \E q \in Int : n = j * q + (n % j) /\ n % j \in 0..(j - 1)
  BY <1>0, Quotient
<1>1. PICK a \in Int : j = k * a
  BY <1>a
<1>2. PICK b \in Int : n = j * b
  BY <1>b
<1>3. n = k * (a * b) + 0 /\ a * b \in Int /\ 0 \in 0..(k - 1)
  BY <1>1, <1>2
<1> QED
  BY <1>3, RemainderIs

(* Counters that agree modulo S agree modulo the divisors of S.            *)
LEMMA SameRemainder ==
  ASSUME NEW n \in Nat, NEW m \in Nat, NEW S \in Nat \ {0}, NEW k \in Nat \ {0},
         S % k = 0, n % S = m % S
  PROVE  n % k = m % k
<1>a. S \in Int
  OBVIOUS
<1>b. \E q \in Int : S = k * q + (S % k) /\ S % k \in 0..(k - 1)
  BY <1>a, Quotient
<1>c. n \in Int /\ n % S \in 0..(S - 1)
  BY Division
<1>1. PICK s \in Int : S = k * s
  BY <1>b
<1>2. PICK r \in Int : r = n % S
  BY <1>c
<1>d. \E q \in Int : r = k * q + (r % k) /\ r % k \in 0..(k - 1)
  BY Quotient
<1>3. PICK t \in Int, u \in 0..(k - 1) : r = k * t + u
  BY <1>d
<1>4. ASSUME NEW x \in Nat, x % S = r PROVE x % k = u
  <2>a. x \in Int
    OBVIOUS
  <2>b. \E q \in Int : x = S * q + (x % S) /\ x % S \in 0..(S - 1)
    BY <2>a, Quotient
  <2>1. PICK a \in Int : x = S * a + r
    BY <1>4, <2>b
  <2>2. S * a = k * (s * a) /\ s * a \in Int
    BY <1>1
  <2>3. PICK c \in Int : c = s * a
    BY <2>2
  <2>4. x = k * c + (k * t + u)
    BY <1>3, <2>1, <2>2, <2>3
  <2>5. k * c + (k * t + u) = k * (c + t) + u
    BY <1>3
  <2>6. c + t \in Int /\ x \in Int
    OBVIOUS
  <2> QED
    BY <2>4, <2>5, <2>6, RemainderIs
<1> QED
  BY <1>2, <1>4
=============================================================================
