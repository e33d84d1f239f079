------------------------------- MODULE Numbers ------------------------------
(***************************************************************************)
(* Whole numbers.  Remainders by a positive one: the ring of the SoapySDR  *)
(* driver, fm_modulator's sample buffer and the index of fl2k_file's input *)
(* all count in them.  The smallest number of a set, and what follows from *)
(* it about functions that are defined along 0 .. n.  The powers of two    *)
(* that a 32 bit integer holds.                                            *)
(***************************************************************************)
EXTENDS Integers, WellFoundedInduction, TLAPS

(* A remainder and its quotient. *)
LEMMA ModDef ==
  ASSUME NEW a \in Int, NEW n \in Nat \ {0}
  PROVE  /\ a % n \in 0 .. n - 1
         /\ \E q \in Int : a = n * q + (a % n)
<1>1. a % n \in 0 .. n - 1
  OBVIOUS
<1>2. a \div n \in Int /\ a = n * (a \div n) + (a % n)
  OBVIOUS
<1> QED BY <1>1, <1>2

(* The remainder is the only one. *)
LEMMA ModUnique ==
  ASSUME NEW n \in Nat \ {0}, NEW q \in Int, NEW r \in 0 .. n - 1
  PROVE  (n * q + r) % n = r
OBVIOUS

(* What is below the modulus is its own remainder. *)
LEMMA ModSmall ==
  ASSUME NEW n \in Nat \ {0}, NEW a \in 0 .. n - 1
  PROVE  a % n = a
OBVIOUS

(* Multiples of the modulus do not count. *)
LEMMA ModShift ==
  ASSUME NEW n \in Nat \ {0}, NEW a \in Int, NEW k \in Int
  PROVE  (a + n * k) % n = a % n
<1>1. PICK q \in Int : a = n * q + (a % n)
  BY ModDef
<1>2. a + n * k = n * (q + k) + (a % n) /\ q + k \in Int
  BY <1>1
<1>3. a % n \in 0 .. n - 1
  BY ModDef
<1>4. (n * (q + k) + (a % n)) % n = a % n
  BY <1>3, ModUnique
<1> QED BY <1>2, <1>4

(* One turn of the ring, either way. *)
LEMMA ModTurn ==
  ASSUME NEW n \in Nat \ {0}, NEW a \in Int
  PROVE  (a + n) % n = a % n /\ (a - n) % n = a % n
<1> DEFINE k == 1
           j == -1
<1>1. a + n = a + n * k /\ a - n = a + n * j /\ k \in Int /\ j \in Int
  OBVIOUS
<1> HIDE DEF k, j
<1>2. (a + n * k) % n = a % n /\ (a + n * j) % n = a % n
  BY <1>1, ModShift
<1> QED BY <1>1, <1>2

(* Congruent integers stay congruent when the same is added to both. *)
LEMMA ModAdd ==
  ASSUME NEW n \in Nat \ {0}, NEW a \in Int, NEW b \in Int, NEW c \in Int,
         a % n = b % n
  PROVE  (a + c) % n = (b + c) % n
<1>1. PICK q \in Int : a = n * q + (a % n)
  BY ModDef
<1>2. PICK p \in Int : b = n * p + (b % n)
  BY ModDef
<1> DEFINE d == b + c
<1> DEFINE k == q - p
<1>3. a + c = d + n * k /\ d \in Int /\ k \in Int
  BY <1>1, <1>2
<1> HIDE DEF d, k
<1>4. (d + n * k) % n = d % n
  BY <1>3, ModShift
<1> QED BY <1>3, <1>4 DEF d

(* Congruent integers nearer than the modulus are the same. *)
LEMMA ModClose ==
  ASSUME NEW n \in Nat \ {0}, NEW a \in Int, NEW b \in Int,
         a % n = b % n, a - b < n, b - a < n
  PROVE  a = b
<1>1. PICK q \in Int : a = n * q + (a % n)
  BY ModDef
<1>2. PICK p \in Int : b = n * p + (b % n)
  BY ModDef
<1>3. a - b = n * (q - p) /\ q - p \in Int
  BY <1>1, <1>2
<1> QED BY <1>3

(* A remainder by a multiple of the modulus changes nothing: an unsigned
   word that the modulus divides may overflow. *)
LEMMA ModMod ==
  ASSUME NEW n \in Nat \ {0}, NEW w \in Nat \ {0}, NEW a \in Int, w % n = 0
  PROVE  (a % w) % n = a % n
<1>1. PICK q \in Int : a = w * q + (a % w)
  BY ModDef
<1>2. PICK p \in Int : w = n * p
  BY ModDef
<1> DEFINE k == p * (-q)
<1>3. a % w = a + n * k /\ k \in Int
  BY <1>1, <1>2
<1> HIDE DEF k
<1>4. (a + n * k) % n = a % n
  BY <1>3, ModShift
<1> QED BY <1>3, <1>4

(* A step of an index round a ring, and the step back. *)
LEMMA ModStep ==
  ASSUME NEW n \in Nat \ {0}, NEW a \in 0 .. n - 1
  PROVE  /\ (a + 1) % n = IF a + 1 = n THEN 0 ELSE a + 1
         /\ (((a + 1) % n) - 1) % n = a
<1>1. CASE a + 1 = n
  <2>1. (a + 1) % n = 0
    <3>1. (n * 1 + 0) % n = 0
      BY ModUnique
    <3> QED BY <1>1, <3>1
  <2>2. (n * (-1) + a) % n = a
    BY ModUnique
  <2>3. 0 - 1 = n * (-1) + a
    BY <1>1
  <2> QED BY <1>1, <2>1, <2>2, <2>3
<1>2. CASE a + 1 # n
  <2>1. a + 1 \in 0 .. n - 1
    BY <1>2
  <2>2. (a + 1) % n = a + 1
    BY <2>1, ModSmall
  <2>3. (a + 1) - 1 = a /\ a % n = a
    BY ModSmall
  <2> QED BY <1>2, <2>2, <2>3
<1> QED BY <1>1, <1>2

-----------------------------------------------------------------------------
(* A set of natural numbers has a smallest one: the induction that a loop  *)
(* or a recursive function needs.                                          *)
LEMMA SmallestNat ==
  ASSUME NEW T, T \subseteq Nat, T # {}
  PROVE  \E n \in T : \A m \in T : n <= m
<1>1. IsWellFoundedOn(OpToRel(<, Nat), Nat)
  BY NatLessThanWellFounded
<1>2. \A n, m \in Nat : n < m => <<n, m>> \in OpToRel(<, Nat)
  BY DEF OpToRel
<1>3. \E R : /\ IsWellFoundedOn(R, Nat)
             /\ \A n, m \in Nat : n < m => <<n, m>> \in R
  BY ONLY <1>1, <1>2, Zenon
<1>4. PICK R : /\ IsWellFoundedOn(R, Nat)
               /\ \A n, m \in Nat : n < m => <<n, m>> \in R
  BY <1>3
<1>5. PICK n \in T : \A m \in T : ~ (<<m, n>> \in R)
  <2>1. IsWellFoundedOn(R, Nat)
    BY <1>4
  <2>2. T \subseteq Nat /\ T # {}
    OBVIOUS
  <2> QED BY ONLY <2>1, <2>2, WFMin, Zenon
<1>6. \A m \in T : ~ (m < n)
  BY <1>4, <1>5
<1> QED BY <1>6

(* Induction along 0 .. n: a set of numbers with 0 in it, and with every    *)
(* number whose predecessor is in it.                                      *)
LEMMA Induction ==
  ASSUME NEW n \in Nat, NEW Good, 0 \in Good,
         \A i \in 1 .. n : i - 1 \in Good => i \in Good
  PROVE  \A i \in 0 .. n : i \in Good
<1> DEFINE T == {i \in 0 .. n : i \notin Good}
<1>1. ASSUME T # {} PROVE FALSE
  <2>1. PICK i \in T : \A k \in T : i <= k
    <3>1. T \subseteq Nat
      OBVIOUS
    <3> HIDE DEF T
    <3> QED BY ONLY <3>1, <1>1, SmallestNat, Zenon
  <2>2. i \in 1 .. n /\ i - 1 \in 0 .. n /\ ~ (i <= i - 1)
    OBVIOUS
  <2>3. i - 1 \in Good
    BY <2>1, <2>2
  <2> QED BY <2>2, <2>3
<1> QED BY <1>1

(* A function whose value at i is made from that at i - 1 exists: what a   *)
(* LET of the model's that names one stands for.                           *)
MadeAlong(c, n, base, step) ==
  c[0] = base /\ \A i \in 1 .. n : c[i] = step[i][c[i - 1]]

LEMMA RecursionExists ==
  ASSUME NEW n \in Nat, NEW X, NEW base \in X,
         NEW step \in [1 .. n -> [X -> X]]
  PROVE  \E c \in [0 .. n -> X] : MadeAlong(c, n, base, step)
<1> USE DEF MadeAlong
<1> DEFINE Upto(m, c) == c \in [0 .. m -> X] /\ MadeAlong(c, m, base, step)
           Good == {m \in 0 .. n : \E c : Upto(m, c)}
<1>1. 0 \in Good
  <2>1. Upto(0, [i \in 0 .. 0 |-> base])
    OBVIOUS
  <2> HIDE DEF Upto
  <2> QED BY <2>1
<1>2. ASSUME NEW m \in 1 .. n, m - 1 \in Good PROVE m \in Good
  <2>1. PICK c : Upto(m - 1, c)
    BY <1>2
  <2> DEFINE d == [i \in 0 .. m |-> IF i = m THEN step[m][c[m - 1]] ELSE c[i]]
  <2>2. c[m - 1] \in X /\ step[m][c[m - 1]] \in X
    BY <2>1
  <2>3. d \in [0 .. m -> X] /\ d[0] = base
    BY <2>1, <2>2
  <2>4. ASSUME NEW i \in 1 .. m PROVE d[i] = step[i][d[i - 1]]
    <3>1. i - 1 \in 0 .. m /\ i - 1 # m /\ i \in 0 .. m
      OBVIOUS
    <3>2. d[i - 1] = c[i - 1]
      BY <3>1
    <3>3. CASE i = m
      BY <3>1, <3>2, <3>3
    <3>4. CASE i # m
      <4>1. i \in 1 .. m - 1
        BY <3>4
      <4> QED BY <2>1, <3>1, <3>2, <3>4, <4>1
    <3> QED BY <3>3, <3>4
  <2> HIDE DEF d
  <2>5. Upto(m, d)
    BY <2>3, <2>4
  <2> HIDE DEF Upto
  <2> QED BY <2>5
<1>3. PICK c : Upto(n, c)
  <2>1. n \in 0 .. n
    OBVIOUS
  <2> HIDE DEF Good
  <2>2. n \in Good
    BY ONLY n \in Nat, <1>1, <1>2, <2>1, Induction
  <2> USE DEF Good
  <2> HIDE DEF Upto
  <2> QED BY <2>2
<1> QED BY <1>3

-----------------------------------------------------------------------------
(* The quotient is the only number that leaves a remainder. *)
LEMMA DivUnique ==
  ASSUME NEW n \in Nat \ {0}, NEW q \in Int, NEW r \in 0 .. n - 1
  PROVE  (n * q + r) \div n = q
OBVIOUS

(* A common factor does not change a quotient. *)
LEMMA DivScale ==
  ASSUME NEW a \in Nat, NEW p \in Nat \ {0}, NEW c \in Nat \ {0}
  PROVE  (a * c) \div (p * c) = a \div p
<1> DEFINE q == a \div p
           r == a % p
           n == p * c
           t == r * c
<1>1. q \in Int /\ r \in 0 .. p - 1 /\ a = p * q + r
  OBVIOUS
<1> HIDE DEF q, r
<1>2. n \in Nat \ {0} /\ t \in 0 .. n - 1
  <2>1. r + 1 <= p /\ (r + 1) * c = t + c /\ n \in Int /\ t \in Int
    BY <1>1
  <2>2. (r + 1) * c <= n /\ 0 <= t /\ 0 < n
    BY <1>1
  <2> QED BY <2>1, <2>2
<1>3. a * c = n * q + t
  BY <1>1
<1> HIDE DEF n, t
<1>4. (n * q + t) \div n = q
  BY <1>1, <1>2, DivUnique
<1> QED BY <1>3, <1>4 DEF q, n

-----------------------------------------------------------------------------
(* Every power of two that a 32 bit integer holds is twice the one before. *)
(* The provers know a power only for a number given as such.               *)
Doubles(i, j, p, q) ==
  /\ (i = 0 /\ j = 1 => q = 2 * p) /\ (i = 1 /\ j = 2 => q = 2 * p)
  /\ (i = 2 /\ j = 3 => q = 2 * p) /\ (i = 3 /\ j = 4 => q = 2 * p)
  /\ (i = 4 /\ j = 5 => q = 2 * p) /\ (i = 5 /\ j = 6 => q = 2 * p)
  /\ (i = 6 /\ j = 7 => q = 2 * p) /\ (i = 7 /\ j = 8 => q = 2 * p)
  /\ (i = 8 /\ j = 9 => q = 2 * p) /\ (i = 9 /\ j = 10 => q = 2 * p)
  /\ (i = 10 /\ j = 11 => q = 2 * p) /\ (i = 11 /\ j = 12 => q = 2 * p)
  /\ (i = 12 /\ j = 13 => q = 2 * p) /\ (i = 13 /\ j = 14 => q = 2 * p)
  /\ (i = 14 /\ j = 15 => q = 2 * p) /\ (i = 15 /\ j = 16 => q = 2 * p)
  /\ (i = 16 /\ j = 17 => q = 2 * p) /\ (i = 17 /\ j = 18 => q = 2 * p)
  /\ (i = 18 /\ j = 19 => q = 2 * p) /\ (i = 19 /\ j = 20 => q = 2 * p)
  /\ (i = 20 /\ j = 21 => q = 2 * p) /\ (i = 21 /\ j = 22 => q = 2 * p)
  /\ (i = 22 /\ j = 23 => q = 2 * p) /\ (i = 23 /\ j = 24 => q = 2 * p)
  /\ (i = 24 /\ j = 25 => q = 2 * p) /\ (i = 25 /\ j = 26 => q = 2 * p)
  /\ (i = 26 /\ j = 27 => q = 2 * p) /\ (i = 27 /\ j = 28 => q = 2 * p)
  /\ (i = 28 /\ j = 29 => q = 2 * p) /\ (i = 29 /\ j = 30 => q = 2 * p)

(* Such a list of numbers stands for every pair of exponents. *)
LEMMA PowersDouble == \A i, j : Doubles(i, j, 2^i, 2^j)
<1>1. /\ 2^1 = 2 * 2^0 /\ 2^2 = 2 * 2^1 /\ 2^3 = 2 * 2^2
      /\ 2^4 = 2 * 2^3 /\ 2^5 = 2 * 2^4 /\ 2^6 = 2 * 2^5
      /\ 2^7 = 2 * 2^6 /\ 2^8 = 2 * 2^7 /\ 2^9 = 2 * 2^8
      /\ 2^10 = 2 * 2^9 /\ 2^11 = 2 * 2^10 /\ 2^12 = 2 * 2^11
      /\ 2^13 = 2 * 2^12 /\ 2^14 = 2 * 2^13 /\ 2^15 = 2 * 2^14
      /\ 2^16 = 2 * 2^15 /\ 2^17 = 2 * 2^16 /\ 2^18 = 2 * 2^17
      /\ 2^19 = 2 * 2^18 /\ 2^20 = 2 * 2^19 /\ 2^21 = 2 * 2^20
      /\ 2^22 = 2 * 2^21 /\ 2^23 = 2 * 2^22 /\ 2^24 = 2 * 2^23
      /\ 2^25 = 2 * 2^24 /\ 2^26 = 2 * 2^25 /\ 2^27 = 2 * 2^26
      /\ 2^28 = 2 * 2^27 /\ 2^29 = 2 * 2^28 /\ 2^30 = 2 * 2^29
  OBVIOUS
<1>2. ASSUME NEW i, NEW j PROVE Doubles(i, j, 2^i, 2^j)
  BY <1>1, Zenon DEF Doubles
<1> QED BY <1>2

(* A power of two is twice the one before. *)
LEMMA PowerStep ==
  ASSUME NEW i \in 0 .. 29
  PROVE  2^(i + 1) = 2 * 2^i
<1> DEFINE j == i + 1
           p == 2^i
           q == 2^j
<1>1. Doubles(i, j, p, q)
  BY PowersDouble
<1> HIDE DEF p, q
<1>2. q = 2 * p
  BY <1>1 DEF Doubles
<1> QED BY <1>2 DEF p, q, j

(* Powers of two are positive numbers. *)
LEMMA PowerType == \A i \in 0 .. 30 : 2^i \in Nat \ {0}
<1> DEFINE Good == {i \in 0 .. 30 : 2^i \in Nat \ {0}}
<1>1. 0 \in Good /\ 30 \in Nat
  OBVIOUS
<1>2. ASSUME NEW i \in 1 .. 30, i - 1 \in Good PROVE i \in Good
  <2> DEFINE j == i - 1
  <2>1. j \in 0 .. 29 /\ j + 1 = i /\ i \in 0 .. 30
    OBVIOUS
  <2> HIDE DEF j
  <2>2. 2^(j + 1) = 2 * 2^j
    BY <2>1, PowerStep
  <2>3. 2^j \in Nat \ {0}
    BY <1>2 DEF j
  <2> QED BY <2>1, <2>2, <2>3
<1> HIDE DEF Good
<1>3. \A i \in 0 .. 30 : i \in Good
  BY ONLY <1>1, <1>2, Induction
<1> QED BY <1>3 DEF Good

(* The power of a sum. *)
LEMMA PowerSum ==
  ASSUME NEW k \in 0 .. 30, NEW i \in 0 .. 30 - k
  PROVE  2^(i + k) = 2^i * 2^k
<1> DEFINE n == 30 - k
           Good == {m \in 0 .. n : 2^(m + k) = 2^m * 2^k}
<1>1. 0 \in Good /\ n \in Nat
  <2>1. 0 + k = k /\ 2^0 = 1 /\ 2^k \in Int /\ 0 \in 0 .. n
    BY PowerType
  <2> QED BY <2>1
<1>2. ASSUME NEW m \in 1 .. n, m - 1 \in Good PROVE m \in Good
  <2> DEFINE j == m - 1
             c == j + k
  <2>1. /\ j \in 0 .. 29 /\ j + 1 = m /\ m \in 0 .. n
        /\ c \in 0 .. 29 /\ c + 1 = m + k
    OBVIOUS
  <2>2. 2^c = 2^j * 2^k
    BY <1>2
  <2> HIDE DEF j, c
  <2>3. 2^(c + 1) = 2 * 2^c /\ 2^(j + 1) = 2 * 2^j
    BY <2>1, PowerStep
  <2>4. 2^j \in Int /\ 2^k \in Int
    BY <2>1, PowerType
  <2>5. 2 * (2^j * 2^k) = (2 * 2^j) * 2^k
    BY <2>4
  <2>6. 2^(m + k) = 2^m * 2^k
    BY <2>1, <2>2, <2>3, <2>5
  <2> QED BY <2>1, <2>6
<1> HIDE DEF Good, n
<1>3. \A m \in 0 .. n : m \in Good
  BY ONLY <1>1, <1>2, Induction
<1> QED BY <1>3 DEF Good, n

(* Two powers of two differ if their exponents do. *)
LEMMA PowersDiffer ==
  ASSUME NEW i \in 0 .. 30, NEW k \in 0 .. 30, i < k
  PROVE  2^i # 2^k
<1> DEFINE j == k - i - 1
<1>1. /\ j \in 0 .. 29 /\ j \in 0 .. 30 /\ j + 1 \in 0 .. 30 - i
      /\ (j + 1) + i = k
  OBVIOUS
<1> HIDE DEF j
<1>2. 2^k = 2^(j + 1) * 2^i /\ 2^(j + 1) = 2 * 2^j
  BY <1>1, PowerSum, PowerStep
<1>3. 2^j \in Nat \ {0} /\ 2^i \in Nat \ {0}
  BY <1>1, PowerType
<1> DEFINE p == 2^i
           q == 2^j
<1>4. 2^k = (2 * q) * p /\ q \in Nat \ {0} /\ p \in Nat \ {0}
  BY <1>2, <1>3
<1> HIDE DEF p, q
<1>5. (2 * q) * p # p
  <2>1. (2 * q) * p = q * p + q * p /\ q * p >= p
    BY <1>4
  <2> QED BY <1>4, <2>1
<1> QED BY <1>4, <1>5 DEF p
=============================================================================
