--------------------------- MODULE BslSplitProofs ---------------------------
(***************************************************************************)
(* Proofs about BslSplit and BslHeader, for every width of a field and of  *)
(* its step, every request, and all layers whose records agree with        *)
(* themselves: the ports of a 40G stream start, step and end as one stream *)
(* would, every frame size is sent, headers have no hole, and the FPGA is  *)
(* told the right places.  The arithmetic comes first: powers of two,      *)
(* remainders, and after how many steps a field has its first value again. *)
(***************************************************************************)
EXTENDS BslSplit, TLAPS, FiniteSetTheorems

-----------------------------------------------------------------------------
(* Induction over the natural numbers, for sets instead of predicates.     *)
LEMMA LeastNumber ==
  ASSUME NEW T, T \subseteq Nat, T # {}
  PROVE  \E n \in T : \A m \in T : n <= m
<1>1. PICK n \in T : \A m \in T : <<m, n>> \notin OpToRel(<, Nat)
  BY NatLessThanWellFounded, WFMin
<1>2. \A m \in T : ~ (m < n)
  BY <1>1 DEF OpToRel
<1> QED
  BY <1>2

(* A set of numbers that holds 0 and every next one holds them all. *)
LEMMA Induction ==
  ASSUME NEW S, 0 \in S, \A n \in Nat : n \in S => n + 1 \in S
  PROVE  Nat \subseteq S
<1> SUFFICES ASSUME Nat \ S # {} PROVE FALSE
  OBVIOUS
<1>1. PICK n \in Nat \ S : \A m \in Nat \ S : n <= m
  BY LeastNumber
<1>2. n # 0 /\ n - 1 \in Nat /\ n - 1 \notin Nat \ S
  BY <1>1
<1> QED
  BY <1>2

-----------------------------------------------------------------------------
(* Powers of two *)

Doubles(g, n) == /\ g \in [0 .. n -> Nat \ {0}] /\ g[0] = 1
                 /\ \A k \in 1 .. n : g[k] = 2 * g[k - 1]

(* The recursion of Power has a solution up to every number, ... *)
LEMMA DoublesExist == \A n \in Nat : \E g : Doubles(g, n)
<1> DEFINE S == {n \in Nat : \E g : Doubles(g, n)}
<1>1. 0 \in S
  <2>1. Doubles([k \in 0 .. 0 |-> 1], 0)
    BY DEF Doubles
  <2> QED
    BY <2>1
<1>2. ASSUME NEW n \in Nat, n \in S PROVE n + 1 \in S
  <2> PICK g : Doubles(g, n)
    BY <1>2
  <2> DEFINE h == [k \in 0 .. n + 1 |-> IF k = n + 1 THEN 2 * g[n] ELSE g[k]]
  <2>1. g[n] \in Nat \ {0} /\ 2 * g[n] \in Nat \ {0}
    BY DEF Doubles
  <2>2. /\ h \in [0 .. n + 1 -> Nat \ {0}] /\ h[n + 1] = 2 * g[n]
        /\ \A k \in 0 .. n : h[k] = g[k]
    BY <2>1 DEF Doubles
  <2>3. Doubles(h, n + 1)
    <3> HIDE DEF h
    <3>1. ASSUME NEW k \in 1 .. n + 1 PROVE h[k] = 2 * h[k - 1]
      <4>1. CASE k = n + 1
        BY <2>2, <4>1
      <4>2. CASE k \in 1 .. n
        BY <2>2, <4>2 DEF Doubles
      <4> QED
        BY <4>1, <4>2
    <3> QED
      BY <2>2, <3>1 DEF Doubles
  <2> QED
    BY <2>3
<1>3. Nat \subseteq S
  <2> HIDE DEF S
  <2> QED
    BY <1>1, <1>2, Induction
<1> QED
  BY <1>3

(* ... and any two of them agree where both are defined, ... *)
LEMMA DoublesAgree ==
  ASSUME NEW n \in Nat, NEW m \in Nat, NEW g, NEW h, Doubles(g, n), Doubles(h, m)
  PROVE  \A k \in Nat : k <= n /\ k <= m => g[k] = h[k]
<1> DEFINE S == {k \in Nat : k <= n /\ k <= m => g[k] = h[k]}
<1>1. 0 \in S
  BY DEF Doubles
<1>2. ASSUME NEW k \in Nat, k \in S PROVE k + 1 \in S
  BY <1>2 DEF Doubles
<1>3. Nat \subseteq S
  <2> HIDE DEF S
  <2> QED
    BY <1>1, <1>2, Induction
<1> QED
  BY <1>3

(* ... so that Power is the function that its definition describes. *)
LEMMA PowerDef == Power = [n \in Nat |-> IF n = 0 THEN 1 ELSE 2 * Power[n - 1]]
<1> DEFINE G(n) == CHOOSE g : Doubles(g, n)
           F == [n \in Nat |-> G(n)[n]]
<1>1. \A n \in Nat : Doubles(G(n), n)
  BY DoublesExist
<1>2. \A n \in Nat : F[n] = G(n)[n]
  OBVIOUS
<1> HIDE DEF G
<1>3. ASSUME NEW n \in Nat PROVE F[n] = IF n = 0 THEN 1 ELSE 2 * F[n - 1]
  <2>1. CASE n = 0
    BY <1>1, <2>1 DEF Doubles
  <2>2. CASE n # 0
    <3>1. n - 1 \in Nat /\ Doubles(G(n), n) /\ Doubles(G(n - 1), n - 1)
      BY <1>1, <2>2
    <3>2. G(n)[n - 1] = G(n - 1)[n - 1]
      BY <3>1, DoublesAgree
    <3>3. G(n)[n] = 2 * G(n)[n - 1]
      BY <2>2, <3>1 DEF Doubles
    <3> QED
      BY <1>2, <2>2, <3>1, <3>2, <3>3
  <2> QED
    BY <2>1, <2>2
<1>4. F = [n \in Nat |-> F[n]]
  OBVIOUS
<1> HIDE DEF F
<1>5. F = [n \in Nat |-> IF n = 0 THEN 1 ELSE 2 * F[n - 1]]
  BY <1>3, <1>4
<1> QED
  BY <1>5, Zenon DEF Power

(* Powers of two are positive. *)
LEMMA PowerType == \A n \in Nat : Power[n] \in Nat \ {0}
<1> DEFINE S == {n \in Nat : Power[n] \in Nat \ {0}}
<1>0. \A n \in Nat : Power[n] = IF n = 0 THEN 1 ELSE 2 * Power[n - 1]
  BY PowerDef
<1>1. 0 \in S
  BY <1>0
<1>2. ASSUME NEW n \in Nat, n \in S PROVE n + 1 \in S
  BY <1>0, <1>2
<1>3. Nat \subseteq S
  <2> HIDE DEF S
  <2> QED
    BY <1>1, <1>2, Induction
<1> QED
  BY <1>3

(* The recursion, for use. *)
LEMMA PowerAt ==
  /\ Power[0] = 1
  /\ \A n \in Nat : Power[n + 1] = 2 * Power[n] /\ Power[n] \in Nat \ {0}
<1>1. \A n \in Nat : Power[n] = IF n = 0 THEN 1 ELSE 2 * Power[n - 1]
  BY PowerDef
<1>2. ASSUME NEW n \in Nat PROVE Power[n + 1] = 2 * Power[n]
  <2>1. n + 1 \in Nat /\ n + 1 # 0 /\ (n + 1) - 1 = n
    OBVIOUS
  <2> QED
    BY <1>1, <2>1
<1> QED
  BY <1>1, <1>2, PowerType

(* The power of a sum is the product of the powers. *)
LEMMA PowerOfSum == \A m, n \in Nat : Power[m + n] = Power[m] * Power[n]
<1> SUFFICES ASSUME NEW m \in Nat PROVE \A n \in Nat : Power[m + n] = Power[m] * Power[n]
  OBVIOUS
<1> DEFINE S == {n \in Nat : Power[m + n] = Power[m] * Power[n]}
<1>1. 0 \in S
  BY PowerAt
<1>2. ASSUME NEW n \in Nat, n \in S PROVE n + 1 \in S
  <2>1. /\ Power[m + (n + 1)] = 2 * Power[m + n] /\ Power[n + 1] = 2 * Power[n]
        /\ Power[m] \in Nat /\ Power[n] \in Nat
    <3>1. m + n \in Nat /\ m + (n + 1) = (m + n) + 1
      OBVIOUS
    <3> QED
      BY <3>1, PowerAt
  <2>2. \A a, b \in Nat : 2 * (a * b) = a * (2 * b)
    OBVIOUS
  <2> QED
    BY <1>2, <2>1, <2>2
<1>3. Nat \subseteq S
  <2> HIDE DEF S
  <2> QED
    BY <1>1, <1>2, Induction
<1> QED
  BY <1>3

-----------------------------------------------------------------------------
(* Remainders *)

(* What the provers know of quotient and remainder. *)
LEMMA DivMod ==
  ASSUME NEW a \in Int, NEW m \in Nat \ {0}
  PROVE  /\ a % m \in Nat /\ a % m < m /\ a \div m \in Int
         /\ a = m * (a \div m) + (a % m)
OBVIOUS

(* The same with names for the two. *)
LEMMA Division ==
  \A a \in Int, m \in Nat \ {0} :
    \E q \in Int, r \in Nat : q = a \div m /\ r = a % m /\ r < m /\ a = m * q + r
<1> TAKE a \in Int, m \in Nat \ {0}
<1> PICK q \in Int, r \in Nat : q = a \div m /\ r = a % m
  BY DivMod
<1> QED
  BY DivMod

(* A positive number is multiplied to a natural one by a natural one. *)
LEMMA FactorNatural ==
  ASSUME NEW b \in Nat \ {0}, NEW q \in Int, b * q \in Nat
  PROVE  q \in Nat
<1>1. CASE q <= -1
  <2>1. b * q <= -b
    BY <1>1
  <2> QED
    BY <2>1
<1> QED
  BY <1>1

(* There is only one quotient and only one remainder. *)
LEMMA ModUnique ==
  ASSUME NEW a \in Int, NEW m \in Nat \ {0}, NEW q \in Int, NEW r \in Nat, r < m, a = m * q + r
  PROVE  a % m = r /\ a \div m = q
<1>1. PICK d \in Int, e \in Nat : d = a \div m /\ e = a % m /\ e < m /\ a = m * d + e
  BY DivMod
<1>2. m * (q - d) = e - r
  <2>1. m * (q - d) = m * q - m * d
    OBVIOUS
  <2>2. m * q \in Int /\ m * d \in Int
    OBVIOUS
  <2> QED
    BY <1>1, <2>1, <2>2
<1>3. q - d = 0
  <2> PICK k \in Int : k = q - d
    OBVIOUS
  <2>1. CASE k >= 1
    <3>1. m * k >= m
      BY <2>1
    <3> QED
      BY <1>1, <1>2, <3>1
  <2>2. CASE k <= -1
    <3>1. m * k <= -m
      BY <2>2
    <3> QED
      BY <1>1, <1>2, <3>1
  <2> QED
    BY <2>1, <2>2
<1> QED
  BY <1>1, <1>2, <1>3

(* Numbers that differ by a multiple of m have one remainder, and only     *)
(* these.                                                                  *)
LEMMA ModSame ==
  ASSUME NEW a \in Int, NEW b \in Int, NEW m \in Nat \ {0}, NEW q \in Int, a = b + m * q
  PROVE  a % m = b % m
<1>1. PICK d \in Int, e \in Nat : d = b \div m /\ e = b % m /\ e < m /\ b = m * d + e
  BY DivMod
<1>2. PICK k \in Int : k = d + q
  OBVIOUS
<1>3. a = m * k + e
  <2>1. m * (d + q) = m * d + m * q
    OBVIOUS
  <2>2. m * q \in Int /\ m * d \in Int
    OBVIOUS
  <2> QED
    BY <1>1, <1>2, <2>1, <2>2
<1>4. e < m
  BY <1>1
<1>5. a % m = e
  BY <1>3, <1>4, ModUnique, Zenon
<1> QED
  BY <1>1, <1>5, Zenon

(* Numbers with the same remainder are a multiple apart. *)
LEMMA ModDiffers ==
  ASSUME NEW a \in Int, NEW b \in Int, NEW m \in Nat \ {0}, a % m = b % m
  PROVE  \E q \in Int : a = b + m * q
<1>1. PICK d \in Int, e \in Nat : d = b \div m /\ e = b % m /\ e < m /\ b = m * d + e
  BY DivMod
<1>2. PICK c \in Int, f \in Nat : c = a \div m /\ f = a % m /\ a = m * c + f
  BY DivMod
<1>3. e = f
  BY <1>1, <1>2
<1>4. m * (c - d) = m * c - m * d /\ m * c \in Int /\ m * d \in Int
  OBVIOUS
<1>5. c - d \in Int /\ a = b + m * (c - d)
  BY <1>1, <1>2, <1>3, <1>4
<1> QED
  BY <1>5

Congruent(a, b, m) == \E q \in Int : a = b + m * q

(* Congruent numbers are those with the same remainder. *)
LEMMA ModCongruent ==
  ASSUME NEW a \in Int, NEW b \in Int, NEW m \in Nat \ {0}
  PROVE  Congruent(a, b, m) <=> a % m = b % m
<1>1. ASSUME Congruent(a, b, m) PROVE a % m = b % m
  <2> PICK q \in Int : a = b + m * q
    BY <1>1 DEF Congruent
  <2> QED
    BY ModSame
<1>2. ASSUME a % m = b % m PROVE Congruent(a, b, m)
  BY <1>2, ModDiffers DEF Congruent
<1> QED
  BY <1>1, <1>2

(* The remainder of a number below the modulus is the number. *)
LEMMA ModSmall ==
  ASSUME NEW a \in Nat, NEW m \in Nat \ {0}, a < m
  PROVE  a % m = a
<1>1. a = m * 0 + a
  OBVIOUS
<1> QED
  BY <1>1, ModUnique

(* A remainder in a sum. *)
LEMMA ModSum ==
  ASSUME NEW a \in Int, NEW b \in Int, NEW m \in Nat \ {0}
  PROVE  ((a % m) + b) % m = (a + b) % m
<1>1. PICK d \in Int, e \in Nat : d = a \div m /\ e = a % m /\ a = m * d + e
  BY DivMod
<1>2. m * d \in Int
  OBVIOUS
<1>3. PICK x \in Int, y \in Int : x = a + b /\ y = e + b
  OBVIOUS
<1>4. x = y + m * d
  BY <1>1, <1>2, <1>3
<1>5. Congruent(x, y, m)
  BY <1>4 DEF Congruent
<1>6. x % m = y % m
  BY <1>5, ModCongruent, Zenon
<1> QED
  BY <1>1, <1>3, <1>6

(* A remainder added or taken away. *)
LEMMA ModMoved ==
  ASSUME NEW a \in Int, NEW x \in Int, NEW m \in Nat \ {0}
  PROVE  \E d \in Nat : /\ d = x % m
                        /\ (a + d) % m = (a + x) % m
                        /\ (a - d) % m = (a - x) % m
                        /\ (a + m - d) % m = (a - x) % m
<1>1. PICK q \in Int, d \in Nat : d = x % m /\ x = m * q + d
  BY Division
<1>2. x = m * q + d
  BY <1>1
<1>3. PICK up \in Int, down \in Int : up = -q /\ down = q + 1
  OBVIOUS
<1>4. m * up = -(m * q) /\ m * down = m * q + m /\ m * q \in Int
  BY <1>3
<1>5. PICK a1 \in Int, b1 \in Int, a2 \in Int, b2 \in Int, a3 \in Int :
        /\ a1 = a + d /\ b1 = a + x /\ a2 = a - d /\ b2 = a - x /\ a3 = a + m - d
  OBVIOUS
<1>6. a1 = b1 + m * up /\ a2 = b2 + m * q /\ a3 = b2 + m * down
  BY <1>2, <1>4, <1>5
<1>7. Congruent(a1, b1, m) /\ Congruent(a2, b2, m) /\ Congruent(a3, b2, m)
  BY <1>6 DEF Congruent
<1>8. a1 % m = b1 % m /\ a2 % m = b2 % m /\ a3 % m = b2 % m
  BY <1>7, ModCongruent
<1> QED
  BY <1>1, <1>5, <1>8

(* Two digits are put together to a number and taken apart again. *)
LEMMA PutTogether ==
  ASSUME NEW m \in Nat \ {0}, NEW n \in Nat \ {0}, NEW u \in Nat, NEW v \in Nat, u < n, v < m
  PROVE  /\ m * u + v \in Nat /\ m * u + v < m * n
         /\ (m * u + v) % m = v /\ (m * u + v) \div m = u
<1>1. PICK a \in Nat : a = m * u + v
  OBVIOUS
<1>2. a % m = v /\ a \div m = u
  BY <1>1, ModUnique
<1>3. a < m * n
  <2>1. m * (u + 1) <= m * n
    OBVIOUS
  <2>2. m * (u + 1) = m * u + m /\ m * u \in Nat /\ m * n \in Nat
    OBVIOUS
  <2> QED
    BY <1>1, <2>1, <2>2
<1> QED
  BY <1>1, <1>2, <1>3

(* The remainder of a multiple to a multiple, and what is below it.        *)
LEMMA ModOfDigits ==
  ASSUME NEW m \in Nat \ {0}, NEW k \in Nat \ {0}, NEW x \in Int, NEW v \in Nat, v < m
  PROVE  (m * x + v) % (m * k) = m * (x % k) + v
<1>1. PICK q \in Int, r \in Nat : q = x \div k /\ r = x % k /\ r < k /\ x = k * q + r
  BY Division
<1>2. PICK n \in Nat \ {0}, y \in Nat : n = m * k /\ y = m * r + v /\ y < n
  <2>1. m * r + v \in Nat /\ m * r + v < m * k
    BY <1>1, PutTogether
  <2>2. m * k \in Nat \ {0}
    BY <2>1
  <2> QED
    BY <2>1, <2>2
<1>3. m * x + v = n * q + y
  <2>1. m * (k * q + r) = (m * k) * q + m * r /\ (m * k) * q \in Int /\ m * r \in Int
    OBVIOUS
  <2>2. m * x = m * (k * q + r) /\ n * q = (m * k) * q
    BY <1>1, <1>2
  <2>3. PICK i \in Int, j \in Int : i = n * q /\ j = m * r /\ m * x = i + j
    BY <2>1, <2>2
  <2> QED
    BY <1>2, <2>3
<1>4. PICK z \in Int : z = m * x + v
  OBVIOUS
<1>5. z % n = y
  BY <1>2, <1>3, <1>4, ModUnique
<1> QED
  BY <1>1, <1>2, <1>4, <1>5

(* The remainder of a remainder to a multiple. *)
LEMMA ModOfMod ==
  ASSUME NEW k \in Nat \ {0}, NEW w \in Nat \ {0}, NEW x \in Int
  PROVE  (x % (k * w)) % k = x % k
<1>1. PICK n \in Nat \ {0} : n = k * w
  OBVIOUS
<1>2. PICK q \in Int, r \in Nat : r = x % n /\ x = n * q + r
  BY Division
<1>3. PICK p \in Int : p = w * q
  OBVIOUS
<1>4. x = r + k * p
  <2>1. (k * w) * q = k * (w * q)
    OBVIOUS
  <2> QED
    BY <1>1, <1>2, <1>3, <2>1
<1>5. Congruent(x, r, k)
  BY <1>4 DEF Congruent
<1>6. PICK y \in Int : y = r
  OBVIOUS
<1>7. x % k = y % k
  BY <1>5, <1>6, ModCongruent
<1> QED
  BY <1>1, <1>2, <1>6, <1>7

(* The four of these facts that are needed of numbers made of products.    *)
Digit(m, k, x, v) == (m * x + v) % (m * k) = m * (x % k) + v
Moves(a, d, x, m) == (a + d) % m = (a + x) % m /\ (a - d) % m = (a - x) % m

LEMMA DigitIs ==
  \A m, k \in Nat \ {0}, x \in Int, v \in Nat : v < m => Digit(m, k, x, v)
BY ModOfDigits DEF Digit

LEMMA MovesIs ==
  \A a, x \in Int, m \in Nat \ {0} : \E d \in Nat : d = x % m /\ Moves(a, d, x, m)
<1> TAKE a \in Int, x \in Int, m \in Nat \ {0}
<1>1. PICK d \in Nat : /\ d = x % m
                      /\ (a + d) % m = (a + x) % m
                      /\ (a - d) % m = (a - x) % m
  BY ModMoved
<1> QED
  BY <1>1 DEF Moves

-----------------------------------------------------------------------------
(* The zeros at the end of a step *)

Odd(q) == \E h \in Nat : q = 2 * h + 1

(* Every number is even or odd. *)
LEMMA OddOrEven == \A n \in Nat : (\E h \in Nat : n = 2 * h) \/ Odd(n)
<1> TAKE n \in Nat
<1> PICK h \in Int, r \in {0, 1} : h = n \div 2 /\ n = 2 * h + r
  OBVIOUS
<1>1. h \in Nat
  OBVIOUS
<1> QED
  BY <1>1 DEF Odd

(* The test for odd numbers of LowestBit. *)
LEMMA OddRemainder == \A q \in Nat : q % 2 = 1 <=> Odd(q)
BY DEF Odd

(* Every number below a power of two is an odd one times a smaller power.  *)
LEMMA OddPart ==
  \A w \in Nat : \A s \in Nat \ {0} :
    s < Power[w] => \E j \in 0 .. w, q \in Nat : Odd(q) /\ s = Power[j] * q
<1> DEFINE P(w) == \A s \in Nat \ {0} :
                     s < Power[w] => \E j \in 0 .. w, q \in Nat : Odd(q) /\ s = Power[j] * q
           S == {w \in Nat : P(w)}
<1>1. 0 \in S
  BY PowerAt
<1>2. ASSUME NEW w \in Nat, w \in S PROVE w + 1 \in S
  <2> SUFFICES ASSUME NEW s \in Nat \ {0}, s < Power[w + 1]
               PROVE  \E j \in 0 .. w + 1, q \in Nat : Odd(q) /\ s = Power[j] * q
    OBVIOUS
  <2>1. CASE Odd(s)
    <3>1. s = Power[0] * s
      BY PowerAt
    <3> QED
      BY <2>1, <3>1
  <2>2. ASSUME NEW h \in Nat, s = 2 * h
        PROVE  \E j \in 0 .. w + 1, q \in Nat : Odd(q) /\ s = Power[j] * q
    <3>1. h \in Nat \ {0} /\ h < Power[w]
      BY <2>2, PowerAt
    <3>2. P(w)
      BY <1>2
    <3>3. PICK j \in 0 .. w, q \in Nat : Odd(q) /\ h = Power[j] * q
      BY <3>1, <3>2
    <3>4. Power[j + 1] = 2 * Power[j] /\ Power[j] \in Nat
      BY PowerAt
    <3>5. 2 * (Power[j] * q) = (2 * Power[j]) * q
      BY <3>4
    <3>6. j + 1 \in 0 .. w + 1 /\ s = Power[j + 1] * q
      BY <2>2, <3>3, <3>4, <3>5
    <3> QED
      BY <3>3, <3>6
  <2> QED
    BY <2>1, <2>2, OddOrEven
<1>3. Nat \subseteq S
  <2> HIDE DEF S
  <2> QED
    BY <1>1, <1>2, Induction
<1> QED
  BY <1>3

(* LowestBit finds the power of two that leaves an odd factor. *)
LEMMA LowestBitIs ==
  ASSUME NEW s \in Nat \ {0}, s < IntMax
  PROVE  \E j \in Nat, q \in Nat : Odd(q) /\ LowestBit(s) = Power[j] /\ s = Power[j] * q
<1> DEFINE Bit(b) == s % b = 0 /\ (s \div b) % 2 = 1
<1>1. \E b \in {Power[i] : i \in 0 .. IntBits} : Bit(b)
  <2>1. PICK j \in 0 .. IntBits, q \in Nat : Odd(q) /\ s = Power[j] * q
    BY OddPart, SplitAssumption DEF IntMax
  <2>2. j \in 0 .. IntBits /\ Power[j] \in Nat \ {0}
    BY PowerType, SplitAssumption
  <2>3. s % Power[j] = 0
    <3>1. s = Power[j] * q + 0
      BY <2>1, <2>2
    <3> QED
      BY <2>2, <3>1, ModUnique
  <2>4. s \div Power[j] = q
    <3> PICK b \in Nat \ {0}, d \in Int : b = Power[j] /\ d = s \div b
      BY <2>2
    <3>1. b * d = b * q
      BY <2>1, <2>3, DivMod
    <3>2. b * (d - q) = 0
      BY <3>1
    <3>3. d - q = 0
      BY <3>2
    <3> QED
      BY <3>3
  <2>5. q % 2 = 1
    BY <2>1, OddRemainder
  <2> QED
    BY <2>2, <2>3, <2>4, <2>5
<1>2. /\ LowestBit(s) = CHOOSE b \in {Power[i] : i \in 0 .. IntBits} : Bit(b)
  BY DEF LowestBit
<1>3. LowestBit(s) \in {Power[i] : i \in 0 .. IntBits} /\ Bit(LowestBit(s))
  <2> HIDE DEF Bit
  <2> QED
    BY <1>1, <1>2
<1>4. PICK j \in 0 .. IntBits : LowestBit(s) = Power[j]
  BY <1>3
<1>5. j \in Nat /\ Power[j] \in Nat \ {0}
  BY PowerType, SplitAssumption
<1> PICK b \in Nat \ {0} : b = Power[j]
  BY <1>5
<1>50. s \in Int
  OBVIOUS
<1> PICK q \in Int, r \in Nat : q = s \div b /\ r = s % b /\ s = b * q + r
  BY <1>50, Division
<1>6. s = b * q + r /\ r = 0 /\ q % 2 = 1
  BY <1>3, <1>4
<1>7. s = b * q
  BY <1>6
<1>8. q \in Nat
  BY <1>7, FactorNatural
<1> QED
  BY <1>4, <1>5, <1>6, <1>7, <1>8, OddRemainder

(* An odd number and a power of two have no common divisor. *)
LEMMA OddCancels ==
  ASSUME NEW q \in Nat, Odd(q)
  PROVE  \A k \in Nat : \A a, x \in Int : a * q = Power[k] * x => \E y \in Int : a = Power[k] * y
<1> DEFINE P(k) == \A a, x \in Int : a * q = Power[k] * x => \E y \in Int : a = Power[k] * y
           S == {k \in Nat : P(k)}
<1>1. 0 \in S
  <2>1. Power[0] = 1 /\ \A a \in Int : a = 1 * a
    BY PowerAt
  <2> QED
    BY <2>1
<1>2. ASSUME NEW k \in Nat, k \in S PROVE k + 1 \in S
  <2> SUFFICES ASSUME NEW a \in Int, NEW x \in Int, a * q = Power[k + 1] * x
               PROVE  \E y \in Int : a = Power[k + 1] * y
    OBVIOUS
  <2> PICK b \in Nat : b = Power[k] /\ Power[k + 1] = 2 * b
    BY PowerAt
  <2> PICK h \in Nat : q = 2 * h + 1
    BY DEF Odd
  <2>1. PICK z \in Int : a = 2 * z
    <3>1. a * q = 2 * (a * h) + a /\ (2 * b) * x = 2 * (b * x)
      OBVIOUS
    <3>2. a * h \in Int /\ b * x \in Int
      OBVIOUS
    <3>3. a = 2 * (b * x - a * h) /\ b * x - a * h \in Int
      BY <3>1, <3>2
    <3> QED
      BY <3>3
  <2>2. z * q = b * x
    <3>1. (2 * z) * q = 2 * (z * q) /\ (2 * b) * x = 2 * (b * x)
      OBVIOUS
    <3>2. z * q \in Int /\ b * x \in Int
      OBVIOUS
    <3> QED
      BY <2>1, <3>1, <3>2
  <2>3. PICK y \in Int : z = b * y
    BY <1>2, <2>2
  <2>4. 2 * (b * y) = (2 * b) * y
    OBVIOUS
  <2> QED
    BY <2>1, <2>3, <2>4
<1>3. Nat \subseteq S
  <2> HIDE DEF S
  <2> QED
    BY <1>1, <1>2, Induction
<1> QED
  BY <1>3

-----------------------------------------------------------------------------
(* Fields: a value is a part that changes and a rest that does not *)

FieldOK(t) == /\ t \in Field /\ t.addr < Max /\ t.step < IntMax /\ t.repeat < IntMax
              /\ t.kind = "ip6" => IntBits <= Width

(* The number of bits of an integer that a step fits in.  *)
LEMMA IntMaxIs == IntMax \in Nat \ {0} /\ 1 < IntMax /\ Power[StepBits] <= IntMax
<1>1. IntBits \in Nat \ {0} /\ IntBits - 1 \in Nat /\ IntBits = (IntBits - 1) + 1
  BY SplitAssumption
<1>2. IntMax = 2 * Power[IntBits - 1] /\ Power[IntBits - 1] \in Nat \ {0}
  BY <1>1, PowerAt DEF IntMax
<1>3. Power[StepBits] <= IntMax
  <2>1. StepBits \in Nat /\ IntBits - StepBits \in Nat /\ StepBits + (IntBits - StepBits) = IntBits
    BY SplitAssumption
  <2>2. PICK b \in Nat \ {0}, c \in Nat \ {0} : b = Power[StepBits] /\ c = Power[IntBits - StepBits]
    BY <2>1, PowerType
  <2>3. IntMax = b * c
    BY <2>1, <2>2, PowerOfSum DEF IntMax
  <2>4. b * c >= b
    OBVIOUS
  <2> QED
    BY <2>2, <2>3, <2>4
<1> QED
  BY <1>2, <1>3

(* The sizes of the parts of an address are powers of two. *)
LEMMA SizeType ==
  ASSUME NEW t \in Field
  PROVE  /\ Hosts(t) \in Nat \ {0} /\ Size(t) \in Nat \ {0} /\ Max \in Nat \ {0}
         /\ Power[t.prefix] \in Nat \ {0} /\ Hosts(t) * Power[t.prefix] = Max
         /\ \E k \in 0 .. Width : Size(t) = Power[k]
         /\ \E w \in Nat \ {0} : Power[t.prefix] = Power[NetBits(t)] * w
<1>1. t.prefix \in 0 .. Width /\ Width \in Nat /\ IntBits \in Nat
  BY SplitAssumption DEF Field
<1> PICK p \in 0 .. Width : p = t.prefix
  BY <1>1
<1>2. Width - p \in 0 .. Width /\ Width - p \in Nat /\ p \in Nat
  BY <1>1
<1>3. Hosts(t) = Power[Width - p] /\ Max = Power[Width]
  BY DEF Hosts, Shift, Max
<1>4. Power[Width - p] * Power[p] = Power[Width]
  <2>1. (Width - p) + p = Width
    BY <1>1
  <2> QED
    BY <1>2, <2>1, PowerOfSum
<1>5. PICK n \in 0 .. p : n = NetBits(t)
  BY <1>1, <1>2 DEF NetBits, Shift, Smaller
<1>6. \E k \in 0 .. Width : Size(t) = Power[k]
  <2>1. Size(t) \in {Power[Width], Power[Width - p], Power[n]}
    BY <1>3, <1>5 DEF Size
  <2>2. n \in 0 .. Width /\ Width \in 0 .. Width
    BY <1>1, <1>5
  <2> QED
    BY <1>2, <2>1, <2>2
<1>7. \A k \in 0 .. Width : Power[k] \in Nat \ {0}
  BY <1>1, PowerType
<1>8. \E w \in Nat \ {0} : Power[t.prefix] = Power[NetBits(t)] * w
  <2>1. n \in Nat /\ p - n \in Nat /\ n + (p - n) = p
    BY <1>5
  <2>2. Power[p] = Power[n] * Power[p - n] /\ Power[p - n] \in Nat \ {0}
    <3>1. Power[n + (p - n)] = Power[n] * Power[p - n]
      BY <2>1, PowerOfSum
    <3> QED
      BY <2>1, <3>1, PowerType
  <2> QED
    BY <1>5, <2>2
<1> QED
  BY <1>1, <1>2, <1>3, <1>4, <1>6, <1>7, <1>8

(* A value taken apart and put together. *)
LEMMA TakenApart ==
  ASSUME NEW m \in Nat \ {0}, NEW n \in Nat \ {0}, NEW a \in Nat, a < m * n
  PROVE  \E u, v \in Nat : u < n /\ v < m /\ a = m * u + v /\ a % m = v /\ a \div m = u
<1>1. a \in Int
  OBVIOUS
<1> PICK u \in Int, v \in Nat : u = a \div m /\ v = a % m /\ v < m /\ a = m * u + v
  BY <1>1, Division
<1>2. u \in Nat
  <2>1. CASE u <= -1
    <3>1. m * u <= -m
      BY <2>1
    <3> QED
      BY <3>1
  <2> QED
    BY <2>1
<1>3. u < n
  <2>1. CASE n <= u
    <3>1. m * n <= m * u
      BY <2>1, <1>2
    <3>2. m * n \in Nat /\ m * u \in Nat
      BY <1>2
    <3> QED
      BY <3>1, <3>2
  <2> QED
    BY <1>2, <2>1
<1> QED
  BY <1>2, <1>3

Numeric(t) == t.kind \in {"mac", "int"}
HostPart(t) == ~Numeric(t) /\ t.part = "host"

(* The three ways in which a field lies in its address. *)
LEMMA Layouts ==
  ASSUME NEW t \in Field
  PROVE  /\ Numeric(t) \/ HostPart(t) \/ NetPart(t)
         /\ Numeric(t) => /\ Size(t) = Max
                          /\ \A a : PartOf(t, a) = a % Size(t)
                          /\ \A v : WithPart(t, v) = v
         /\ HostPart(t) => /\ Size(t) = Hosts(t)
                           /\ \A a : PartOf(t, a) = a % Hosts(t)
                           /\ \A v \in Nat : WithPart(t, v) = t.addr - (t.addr % Hosts(t)) + v
         /\ NetPart(t) => /\ Size(t) = Power[NetBits(t)]
                          /\ \A a : PartOf(t, a) = (a \div Hosts(t)) % Size(t)
                          /\ \A v : WithPart(t, v)
                                      = t.addr + (v - PartOf(t, t.addr)) * Hosts(t)
<1>1. t.kind \in Kinds /\ t.part \in {"host", "net"}
  BY DEF Field
<1>2. Numeric(t) \/ HostPart(t) \/ NetPart(t)
  BY <1>1 DEF Numeric, HostPart, NetPart, Kinds
<1>3. CASE Numeric(t)
  BY <1>1, <1>3 DEF Numeric, HostPart, NetPart, Size, PartOf, WithPart
<1>4. CASE HostPart(t)
  <2>1. ~NetPart(t) /\ t.kind \notin {"mac", "int"} /\ t.part = "host"
    BY <1>4 DEF Numeric, HostPart, NetPart
  <2>2. Size(t) = Hosts(t) /\ \A a : PartOf(t, a) = a % Hosts(t)
    BY <2>1 DEF Size, PartOf
  <2>3. \A v : WithPart(t, v) = t.addr + (v - (t.addr % Hosts(t))) * 1
    BY <2>1, <2>2 DEF WithPart
  <2>4. PICK x \in Int, y \in Int : x = t.addr /\ y = t.addr % Hosts(t)
    <3>1. t.addr \in Int /\ Hosts(t) \in Nat \ {0}
      BY SizeType DEF Field
    <3> QED
      BY <3>1, DivMod
  <2>5. \A v \in Nat : x + (v - y) * 1 = x - y + v
    OBVIOUS
  <2> QED
    BY <1>4, <2>1, <2>2, <2>3, <2>4, <2>5 DEF Numeric
<1>5. CASE NetPart(t)
  BY <1>1, <1>5 DEF Numeric, HostPart, NetPart, Size, PartOf, WithPart, Kinds
<1> QED
  BY <1>2, <1>3, <1>4, <1>5

(* An address with a network part is w, the bits above that part, of which *)
(* there are r values, the part c, and v, the bits below it.               *)
Digits(t, m, g, r, w, c, v) ==
  /\ m = Hosts(t) /\ g = Size(t) /\ m * (g * r) = Max
  /\ c < g /\ w < r /\ v < m /\ t.addr = m * (g * w + c) + v
  /\ PartOf(t, t.addr) = c /\ t.addr % m = v /\ t.addr \div m = g * w + c

LEMMA NetIs ==
  ASSUME NEW t \in Field, t.addr < Max, NetPart(t)
  PROVE  \E m, g, r \in Nat \ {0} : \E w, c, v \in Nat : Digits(t, m, g, r, w, c, v)
<1>1. PICK a \in Nat : a = t.addr /\ a < Max
  BY DEF Field
<1>2. PICK m \in Nat \ {0}, g \in Nat \ {0}, r \in Nat \ {0} :
        m = Hosts(t) /\ g = Size(t) /\ m * (g * r) = Max
  <2>1. PICK r \in Nat \ {0} : Power[t.prefix] = Size(t) * r
    BY SizeType, Layouts
  <2> QED
    BY <2>1, SizeType
<1>3. PICK n \in Nat \ {0} : n = g * r
  OBVIOUS
<1>4. PICK u \in Nat, v \in Nat :
        u < n /\ v < m /\ a = m * u + v /\ a % m = v /\ a \div m = u
  <2>1. a < m * n
    BY <1>1, <1>2, <1>3
  <2> QED
    BY <2>1, TakenApart
<1>5. PICK w \in Nat, c \in Nat : w < r /\ c < g /\ u = g * w + c /\ u % g = c
  <2>1. u < g * r
    BY <1>3, <1>4
  <2> QED
    BY <2>1, TakenApart
<1>6. PartOf(t, t.addr) = c
  BY <1>1, <1>2, <1>4, <1>5, Layouts
<1>7. t.addr = m * (g * w + c) + v /\ t.addr % m = v /\ t.addr \div m = g * w + c
  BY <1>1, <1>4, <1>5
<1>8. Digits(t, m, g, r, w, c, v)
  BY <1>2, <1>4, <1>5, <1>6, <1>7 DEF Digits
<1> QED
  BY <1>8

(* The part of an address that changes, and its place in the address. *)
LEMMA PartIs ==
  ASSUME NEW t \in Field, t.addr < Max
  PROVE  /\ PartOf(t, t.addr) \in Nat /\ PartOf(t, t.addr) < Size(t)
         /\ WithPart(t, PartOf(t, t.addr)) = t.addr
<1>10. PICK a \in Nat : a = t.addr /\ a < Max
  BY DEF Field
<1>11. PICK m \in Nat \ {0} : m = Hosts(t)
  BY SizeType
<1>2. CASE Numeric(t)
  <2>1. Max \in Nat \ {0} /\ a % Max = a
    BY <1>10, ModSmall, SizeType
  <2> QED
    BY <1>2, <1>10, <2>1, Layouts
<1>3. CASE HostPart(t)
  <2>1. PICK v \in Nat : v = a % m /\ v < m
    BY DivMod
  <2>2. PartOf(t, t.addr) = v /\ Size(t) = m /\ WithPart(t, v) = a - v + v
    BY <1>3, <1>10, <1>11, <2>1, Layouts
  <2> QED
    BY <1>10, <2>1, <2>2
<1>4. CASE NetPart(t)
  <2>1. PICK c \in Nat : PartOf(t, t.addr) = c /\ c < Size(t)
    BY <1>4, NetIs DEF Digits
  <2>2. WithPart(t, c) = a + (c - c) * m
    BY <1>4, <1>10, <1>11, <2>1, Layouts
  <2>3. (c - c) * m = 0
    OBVIOUS
  <2> QED
    BY <1>10, <2>1, <2>2, <2>3
<1> QED
  BY <1>2, <1>3, <1>4, Layouts

(* Putting a part into an address leaves the rest of it alone. *)
LEMMA WithPartIs ==
  ASSUME NEW t \in Field, t.addr < Max, NEW w \in Nat, w < Size(t)
  PROVE  /\ WithPart(t, w) \in Nat /\ WithPart(t, w) < Max
         /\ PartOf(t, WithPart(t, w)) = w
         /\ HostPart(t) => WithPart(t, w) - (WithPart(t, w) % Hosts(t)) = t.addr - (t.addr % Hosts(t))
<1>10. PICK a \in Nat : a = t.addr /\ a < Max
  BY DEF Field
<1>11. PICK m \in Nat \ {0}, n \in Nat \ {0} :
        m = Hosts(t) /\ n = Power[t.prefix] /\ m * n = Max
  BY SizeType
<1>12. a < m * n
  BY <1>10, <1>11
<1>1. PICK u, v \in Nat : u < n /\ v < m /\ a = m * u + v /\ a % m = v /\ a \div m = u
  BY <1>12, TakenApart
<1>2. CASE Numeric(t)
  <2>1. Max \in Nat \ {0} /\ Size(t) = Max /\ w % Max = w
    BY <1>2, ModSmall, SizeType, Layouts
  <2> QED
    BY <1>2, <1>10, <2>1, Layouts DEF Numeric, HostPart, NetPart
<1>3. CASE HostPart(t)
  <2>0. /\ Size(t) = m /\ WithPart(t, w) = a - (a % m) + w
        /\ PartOf(t, WithPart(t, w)) = WithPart(t, w) % m
    BY <1>3, <1>10, <1>11, Layouts, Zenon
  <2>1. w < m /\ WithPart(t, w) = (a - v) + w /\ PartOf(t, WithPart(t, w)) = WithPart(t, w) % m
    BY <1>1, <2>0
  <2>2. WithPart(t, w) = m * u + w
    BY <1>1, <2>1
  <2>3. /\ m * u + w \in Nat /\ m * u + w < m * n /\ (m * u + w) % m = w
    <3>1. u < n /\ w < m
      BY <1>1, <2>1
    <3> QED
      BY <3>1, PutTogether
  <2>4. (m * u + w) - w = a - v
    BY <1>1
  <2> QED
    BY <1>1, <1>3, <1>10, <1>11, <2>1, <2>2, <2>3, <2>4 DEF HostPart, NetPart
<1>4. CASE NetPart(t)
  <2>0. PICK p, g, r \in Nat \ {0}, o, c, x \in Nat : Digits(t, p, g, r, o, c, x)
    BY <1>4, NetIs
  <2>1. /\ g = Size(t) /\ m * (g * r) = Max /\ c < g /\ o < r /\ x < m
        /\ a = m * (g * o + c) + x /\ PartOf(t, t.addr) = c
    BY <1>10, <1>11, <2>0 DEF Digits
  <2>2. WithPart(t, w) = a + (w - c) * m
    BY <1>4, <1>10, <1>11, <2>1, Layouts
  <2>3. a + (w - c) * m = m * (g * o + w) + x
    <3>1. PICK y \in Nat : y = g * o
      OBVIOUS
    <3>2. m * (y + c) = m * y + m * c /\ m * (y + w) = m * y + m * w
          /\ (w - c) * m = m * w - m * c /\ m * y \in Int /\ m * c \in Int /\ m * w \in Int
      OBVIOUS
    <3> QED
      BY <2>1, <3>1, <3>2
  <2>4. PICK z \in Nat, k \in Nat \ {0} : z = g * o + w /\ k = g * r /\ z < k /\ z % g = w
    <3>1. o < r /\ w < g
      BY <2>1
    <3>2. g * o + w \in Nat /\ g * o + w < g * r /\ (g * o + w) % g = w
      BY <3>1, PutTogether
    <3> QED
      BY <3>2
  <2>5. /\ m * z + x \in Nat /\ m * z + x < m * k /\ (m * z + x) \div m = z
    <3>1. z < k /\ x < m
      BY <2>1, <2>4
    <3> QED
      BY <3>1, PutTogether
  <2>6. WithPart(t, w) = m * z + x
    BY <2>2, <2>3, <2>4
  <2>7. PartOf(t, WithPart(t, w)) = z % g
    BY <1>4, <1>11, <2>1, <2>5, <2>6, Layouts
  <2>8. ~HostPart(t)
    BY <1>4 DEF HostPart, NetPart
  <2> QED
    BY <2>1, <2>4, <2>5, <2>6, <2>7, <2>8
<1> QED
  BY <1>2, <1>3, <1>4, Layouts

(* Another field of the same layout. *)
Alike(t, u) == u.kind = t.kind /\ u.part = t.part /\ u.prefix = t.prefix

(* Fields of one layout have parts of one size. *)
LEMMA AlikeIs ==
  ASSUME NEW t \in Field, NEW u \in Field, Alike(t, u)
  PROVE  /\ Size(u) = Size(t) /\ Hosts(u) = Hosts(t) /\ Shift(u) = Shift(t)
         /\ \A a : PartOf(u, a) = PartOf(t, a)
         /\ Numeric(u) = Numeric(t) /\ HostPart(u) = HostPart(t) /\ NetPart(u) = NetPart(t)
<1>1. Shift(u) = Shift(t) /\ Hosts(u) = Hosts(t) /\ NetBits(u) = NetBits(t)
  BY DEF Alike, Shift, Hosts, NetBits
<1>2. Size(u) = Size(t)
  BY <1>1 DEF Alike, Size
<1>3. Numeric(u) = Numeric(t) /\ HostPart(u) = HostPart(t) /\ NetPart(u) = NetPart(t)
  BY DEF Alike, Numeric, HostPart, NetPart
<1>4. \A a : PartOf(u, a) = PartOf(t, a)
  BY <1>1, <1>2, <1>3 DEF PartOf
<1> QED
  BY <1>1, <1>2, <1>3, <1>4

(* A changed copy has the same rest of the address. *)
LEMMA WithPartAlike ==
  ASSUME NEW t \in Field, t.addr < Max, NEW u \in Field, Alike(t, u),
         NEW w \in Nat, w < Size(t), u.addr = WithPart(t, w)
  PROVE  \A v \in Nat : WithPart(u, v) = WithPart(t, v)
<1>1. /\ HostPart(t) => u.addr - (u.addr % Hosts(t)) = t.addr - (t.addr % Hosts(t))
      /\ PartOf(t, u.addr) = w
  BY WithPartIs
<1>2. Hosts(u) = Hosts(t) /\ (HostPart(u) <=> HostPart(t)) /\ (NetPart(u) <=> NetPart(t))
      /\ (Numeric(u) <=> Numeric(t)) /\ PartOf(u, u.addr) = w
  BY <1>1, AlikeIs
<1>3. ASSUME NetPart(t), NEW v \in Nat PROVE WithPart(u, v) = WithPart(t, v)
  <2>1. PICK a \in Int, c \in Int, m \in Int :
          a = t.addr /\ c = PartOf(t, t.addr) /\ m = Hosts(t)
    BY SizeType, PartIs DEF Field
  <2>2. u.addr = a + (w - c) * m /\ WithPart(t, v) = a + (v - c) * m
    BY <1>3, <2>1, Layouts
  <2>3. WithPart(u, v) = u.addr + (v - w) * m
    BY <1>2, <1>3, <2>1, Layouts
  <2>4. (w - c) * m = w * m - c * m /\ (v - c) * m = v * m - c * m
        /\ (v - w) * m = v * m - w * m /\ w * m \in Int /\ c * m \in Int /\ v * m \in Int
    OBVIOUS
  <2> QED
    BY <2>2, <2>3, <2>4
<1>4. ASSUME Numeric(t) \/ HostPart(t), NEW v \in Nat PROVE WithPart(u, v) = WithPart(t, v)
  BY <1>1, <1>2, <1>4, Layouts
<1> QED
  BY <1>3, <1>4, Layouts

-----------------------------------------------------------------------------
(* Walking through the values of a field *)

Signed(t) == IF Down(t) THEN -StepOf(t) ELSE StepOf(t)
Walk(t, n) == (PartOf(t, t.addr) + n * Signed(t)) % Size(t)

(* The types of what a field is made of. *)
LEMMA FieldIs ==
  ASSUME NEW t, FieldOK(t)
  PROVE  /\ t \in Field /\ t.addr \in Nat /\ t.addr < Max
         /\ StepOf(t) \in Nat /\ StepOf(t) < IntMax /\ Signed(t) \in Int
         /\ t.step \in Nat /\ t.step < IntMax /\ t.repeat \in Nat /\ t.repeat < IntMax
         /\ Size(t) \in Nat \ {0} /\ Hosts(t) \in Nat \ {0}
         /\ PartOf(t, t.addr) \in Nat /\ PartOf(t, t.addr) < Size(t)
<1>1. t \in Field /\ t.addr \in Nat /\ t.addr < Max /\ t.step \in Nat /\ t.step < IntMax
      /\ t.repeat \in Nat /\ t.repeat < IntMax
  BY DEF FieldOK, Field
<1>2. StepOf(t) \in Nat /\ StepOf(t) < IntMax
  BY <1>1, IntMaxIs DEF StepOf
<1>3. Signed(t) \in Int
  BY <1>2 DEF Signed
<1> QED
  BY <1>1, <1>2, <1>3, SizeType, PartIs

(* Value n of a field is its address after n steps of the part. *)
LEMMA NthIs ==
  ASSUME NEW t, FieldOK(t), NEW n \in Int
  PROVE  /\ Nth(t, n) = WithPart(t, Walk(t, n))
         /\ Walk(t, n) \in Nat /\ Walk(t, n) < Size(t)
<1> PICK c \in Int, e \in Int, s \in Int :
      c = PartOf(t, t.addr) /\ s = StepOf(t) /\ e = Signed(t)
  BY FieldIs
<1>1. e = IF Down(t) THEN -s ELSE s
  BY DEF Signed
<1>2. n * (-s) = -(n * s) /\ n * s \in Int
  OBVIOUS
<1>3. (IF Down(t) THEN c - n * s ELSE c + n * s) = c + n * e
  BY <1>1, <1>2
<1>4. Nth(t, n) = WithPart(t, Walk(t, n))
  BY <1>3 DEF Nth, Walk
<1>5. c + n * e \in Int /\ Size(t) \in Nat \ {0}
  BY FieldIs
<1> QED
  BY <1>4, <1>5, DivMod DEF Walk

(* End counts the values from 1. *)
LEMMA EndIs ==
  ASSUME NEW start \in Int, NEW step \in Nat, NEW repeat, NEW m \in Nat \ {0},
         NEW down \in BOOLEAN, Smaller(repeat, m \div LowestBit(step)) \in Int
  PROVE  End(start, step, repeat, down, m)
           = (start + (Smaller(repeat, m \div LowestBit(step)) - 1)
                        * (IF down THEN -step ELSE step)) % m
<1>0. PICK r \in Int : r = Smaller(repeat, m \div LowestBit(step))
  OBVIOUS
<1>1. PICK x \in Int : x = step * (r - 1)
  OBVIOUS
<1>2. PICK d \in Nat : /\ d = x % m
                      /\ (start + d) % m = (start + x) % m
                      /\ (start - d) % m = (start - x) % m
                      /\ (start + m - d) % m = (start - x) % m
  BY ModMoved
<1>3. End(start, step, repeat, down, m) =
        (IF ~down THEN start + d ELSE IF start > d THEN start - d ELSE start + m - d) % m
  BY <1>0, <1>1, <1>2 DEF End
<1>4. (r - 1) * step = x /\ (r - 1) * (-step) = -x
  BY <1>1
<1>5. start - x = start + (-x)
  OBVIOUS
<1> QED
  BY <1>0, <1>2, <1>3, <1>4, <1>5

(* After how many steps the values come again: never if the step is 0, at  *)
(* once if it is a multiple of their number m, else after p, an even share *)
(* of m.                                                                   *)
Recurs(m, s, p) ==
  \/ s = 0 /\ p = m
  \/ s # 0 /\ p = 0 /\ \E x \in Int : s = m * x
  \/ s # 0 /\ p # 0 /\ \E b \in Nat \ {0}, q \in Nat, i \in Nat :
                         Odd(q) /\ m = b * p /\ s = b * q /\ p = Power[i]

(* The limit in End is the number of steps to the first value again. *)
LEMMA PeriodIs ==
  ASSUME NEW k \in Nat, NEW s \in Nat, s < IntMax
  PROVE  /\ Power[k] \div LowestBit(s) \in Nat
         /\ Recurs(Power[k], s, Power[k] \div LowestBit(s))
<1>1. CASE s = 0
  <2>1. LowestBit(s) = 1 /\ Power[k] \in Nat
    BY <1>1, PowerType DEF LowestBit
  <2>2. Power[k] \div 1 = Power[k]
    BY <2>1
  <2> QED
    BY <1>1, <2>1, <2>2 DEF Recurs
<1>2. CASE s # 0
  <2>1. PICK j \in Nat, q \in Nat : Odd(q) /\ LowestBit(s) = Power[j] /\ s = Power[j] * q
    BY <1>2, LowestBitIs
  <2>2. CASE j <= k
    <3>1. k - j \in Nat /\ k = j + (k - j)
      BY <2>2
    <3> PICK i \in Nat : i = k - j
      BY <3>1
    <3>2. Power[k] = Power[j] * Power[i]
      BY <3>1, PowerOfSum
    <3> PICK b \in Nat \ {0}, p \in Nat \ {0} : b = Power[j] /\ p = Power[i]
      BY PowerType
    <3>3. Power[k] = b * p + 0 /\ 0 < b /\ b * p \in Nat
      BY <3>2
    <3>4. Power[k] \div b = p
      BY <3>3, ModUnique
    <3>5. LowestBit(s) = b /\ s = b * q /\ Power[k] = b * p /\ p = Power[i] /\ Odd(q)
      BY <2>1, <3>3
    <3>6. Recurs(Power[k], s, p)
      BY <1>2, <3>5 DEF Recurs
    <3> QED
      BY <3>4, <3>5, <3>6
  <2>3. CASE k < j
    <3>1. j - k \in Nat \ {0} /\ j = k + (j - k)
      BY <2>3
    <3> PICK i \in Nat : j = k + (i + 1)
      <4>1. j - k - 1 \in Nat /\ j = k + ((j - k - 1) + 1)
        BY <3>1
      <4> QED
        BY <4>1
    <3>2. Power[j] = Power[k] * (2 * Power[i])
      BY PowerOfSum, PowerAt
    <3> PICK m \in Nat \ {0}, p \in Nat \ {0}, b \in Nat \ {0} :
           m = Power[k] /\ p = Power[i] /\ b = Power[j]
      BY PowerType
    <3>3. m < b
      <4>1. b = m * (2 * p) /\ m * (2 * p) >= m * 2
        BY <3>2
      <4> QED
        BY <4>1
    <3>4. m = b * 0 + m
      OBVIOUS
    <3>5. m \div b = 0
      BY <3>3, <3>4, ModUnique
    <3>6. s = m * (2 * p * q) /\ 2 * p * q \in Int
      <4>1. s = (m * (2 * p)) * q
        BY <2>1, <3>2
      <4>2. (m * (2 * p)) * q = m * (2 * p * q)
        OBVIOUS
      <4> QED
        BY <4>1, <4>2
    <3> QED
      BY <1>2, <2>1, <3>5, <3>6 DEF Recurs
  <2> QED
    BY <2>2, <2>3
<1> QED
  BY <1>1, <1>2

(* A factor applies to both terms. *)
LEMMA TimesApart ==
  ASSUME NEW x \in Int, NEW y \in Int, NEW z \in Int
  PROVE  (x + y) * z = x * z + y * z /\ (x - y) * z = x * z - y * z /\ x * (-z) = -(x * z)
OBVIOUS

(* Factors may be grouped. *)
LEMMA TimesGrouped ==
  ASSUME NEW x \in Int, NEW y \in Int, NEW z \in Int
  PROVE  /\ x * (y * z) = (x * y) * z /\ x * (y * z) = y * (x * z)
         /\ x * y \in Int /\ x * y = y * x
OBVIOUS

(* A positive factor may be left out on both sides. *)
LEMMA FactorCancels ==
  ASSUME NEW b \in Nat \ {0}, NEW x \in Int, NEW y \in Int, b * x = b * y
  PROVE  x = y
<1>1. b * (x - y) = 0
  <2>1. b * (x - y) = b * x - b * y /\ b * x \in Int /\ b * y \in Int
    OBVIOUS
  <2> QED
    BY <2>1
<1>2. x - y = 0
  BY <1>1
<1> QED
  BY <1>2

(* A number added to, or that is taken away from, both sides. *)
LEMMA CongruentMoved ==
  ASSUME NEW a \in Int, NEW b \in Int, NEW c \in Int, NEW m \in Nat \ {0}
  PROVE  /\ Congruent(c + a, c + b, m) <=> Congruent(a, b, m)
         /\ Congruent(c - a, c - b, m) <=> Congruent(a, b, m)
<1>1. ASSUME NEW q \in Int
      PROVE  /\ c + a = (c + b) + m * q <=> a = b + m * q
             /\ c - a = (c - b) + m * q <=> a = b + m * (-q)
  <2>1. PICK z \in Int : z = m * q /\ m * (-q) = -z
    <3>1. m * (-q) = -(m * q) /\ m * q \in Int
      OBVIOUS
    <3> QED
      BY <3>1
  <2> QED
    BY <2>1
<1>2. \A q \in Int : -q \in Int /\ -(-q) = q
  OBVIOUS
<1>3. Congruent(c + a, c + b, m) <=> Congruent(a, b, m)
  BY <1>1 DEF Congruent
<1>4. ASSUME Congruent(c - a, c - b, m) PROVE Congruent(a, b, m)
  BY <1>1, <1>2, <1>4 DEF Congruent
<1>5. ASSUME Congruent(a, b, m) PROVE Congruent(c - a, c - b, m)
  <2>1. PICK q \in Int : a = b + m * q
    BY <1>5 DEF Congruent
  <2>2. PICK u \in Int : u = -q /\ -u = q
    BY <1>2
  <2>3. c - a = (c - b) + m * u
    BY <1>1, <2>1, <2>2
  <2> QED
    BY <2>3 DEF Congruent
<1> QED
  BY <1>3, <1>4, <1>5

(* Two values are the same if steps times their numbers are congruent.     *)
LEMMA WalkIs ==
  ASSUME NEW t, FieldOK(t), NEW i \in Int, NEW j \in Int
  PROVE  Walk(t, i) = Walk(t, j) <=> Congruent(i * StepOf(t), j * StepOf(t), Size(t))
<1>1. PICK c \in Int, s \in Int, m \in Nat \ {0} :
        c = PartOf(t, t.addr) /\ s = StepOf(t) /\ m = Size(t)
  BY FieldIs
<1>2. PICK x \in Int, y \in Int :
        x = i * s /\ y = j * s /\ i * (-s) = -x /\ j * (-s) = -y
  <2>1. i * (-s) = -(i * s) /\ j * (-s) = -(j * s) /\ i * s \in Int /\ j * s \in Int
    OBVIOUS
  <2> QED
    BY <2>1
<1>3. c + x \in Int /\ c + y \in Int /\ c - x \in Int /\ c - y \in Int
      /\ c + (-x) = c - x /\ c + (-y) = c - y
  OBVIOUS
<1>4. CASE ~Down(t)
  <2>1. Walk(t, i) = (c + x) % m /\ Walk(t, j) = (c + y) % m
    BY <1>1, <1>2, <1>4 DEF Walk, Signed
  <2>2. (c + x) % m = (c + y) % m <=> Congruent(c + x, c + y, m)
    <3>1. PICK u \in Int, v \in Int : u = c + x /\ v = c + y
      BY <1>3
    <3>2. u % m = v % m <=> Congruent(u, v, m)
      BY ModCongruent
    <3> QED
      BY <3>1, <3>2, Zenon
  <2>3. Congruent(c + x, c + y, m) <=> Congruent(x, y, m)
    BY CongruentMoved
  <2>4. Walk(t, i) = Walk(t, j) <=> Congruent(x, y, m)
    BY <2>1, <2>2, <2>3, Zenon
  <2> QED
    BY <1>1, <1>2, <2>4
<1>5. CASE Down(t)
  <2>1. Walk(t, i) = (c - x) % m /\ Walk(t, j) = (c - y) % m
    BY <1>1, <1>2, <1>3, <1>5 DEF Walk, Signed
  <2>2. (c - x) % m = (c - y) % m <=> Congruent(c - x, c - y, m)
    <3>1. PICK u \in Int, v \in Int : u = c - x /\ v = c - y
      BY <1>3
    <3>2. u % m = v % m <=> Congruent(u, v, m)
      BY ModCongruent
    <3> QED
      BY <3>1, <3>2, Zenon
  <2>3. Congruent(c - x, c - y, m) <=> Congruent(x, y, m)
    BY CongruentMoved
  <2>4. Walk(t, i) = Walk(t, j) <=> Congruent(x, y, m)
    BY <2>1, <2>2, <2>3, Zenon
  <2> QED
    BY <1>1, <1>2, <2>4
<1> QED
  BY <1>4, <1>5

(* Multiples of a step are congruent if their numbers are: of b * q to the *)
(* modulus b * p where q is odd and p a power of two.                      *)
LEMMA CongruentSteps ==
  ASSUME NEW b \in Nat \ {0}, NEW p \in Nat, NEW q \in Nat, NEW k \in Nat,
         Odd(q), p = Power[k], NEW i \in Int, NEW j \in Int
  PROVE  Congruent(i * (b * q), j * (b * q), b * p) <=> Congruent(i, j, p)
<1>1. PICK d \in Int : d = i - j
  OBVIOUS
<1>2. PICK u \in Int, v \in Int : u = i * (b * q) /\ v = j * (b * q)
  OBVIOUS
<1>3. u - v = b * (d * q)
  <2>1. PICK s \in Int : s = b * q
    OBVIOUS
  <2>2. (i - j) * s = i * s - j * s
    OBVIOUS
  <2>3. d * (b * q) = b * (d * q)
    OBVIOUS
  <2> QED
    BY <1>1, <1>2, <2>1, <2>2, <2>3
<1>4. ASSUME NEW x \in Int, u = v + (b * p) * x PROVE \E y \in Int : i = j + p * y
  <2>1. (b * p) * x = b * (p * x)
    OBVIOUS
  <2>2. PICK z \in Int, w \in Int : z = d * q /\ w = p * x
    OBVIOUS
  <2>3. u - v = b * w
    <3>1. b * w \in Int
      OBVIOUS
    <3> QED
      BY <1>4, <2>1, <2>2, <3>1
  <2>4. b * z = b * w
    BY <1>3, <2>2, <2>3
  <2>5. z = w
    BY <2>4, FactorCancels
  <2>6. d * q = Power[k] * x
    BY <2>2, <2>5
  <2>7. PICK y \in Int : d = p * y
    BY <2>6, OddCancels
  <2>8. PICK n \in Int : n = p * y
    OBVIOUS
  <2>9. i = j + n
    BY <1>1, <2>7, <2>8
  <2> QED
    BY <2>8, <2>9
<1>5. ASSUME NEW y \in Int, i = j + p * y PROVE \E x \in Int : u = v + (b * p) * x
  <2>1. PICK n \in Int : n = p * y
    OBVIOUS
  <2>2. d = n
    BY <1>1, <1>5, <2>1
  <2>3. b * ((p * y) * q) = (b * p) * (y * q)
    OBVIOUS
  <2>4. u - v = (b * p) * (y * q)
    BY <1>3, <2>1, <2>2, <2>3
  <2>5. PICK x \in Int, z \in Int : x = y * q /\ z = (b * p) * x
    OBVIOUS
  <2>6. u = v + z
    BY <2>4, <2>5
  <2> QED
    BY <2>5, <2>6
<1> QED
  BY <1>2, <1>4, <1>5 DEF Congruent

(* A walk of a period returns when its steps are a period apart. *)
LEMMA WalkRecurs ==
  ASSUME NEW t, FieldOK(t), NEW p \in Nat, Recurs(Size(t), StepOf(t), p),
         NEW i \in Int, NEW j \in Int
  PROVE  /\ StepOf(t) = 0 \/ p = 0 => Walk(t, i) = Walk(t, j)
         /\ StepOf(t) # 0 /\ p # 0 => (Walk(t, i) = Walk(t, j) <=> Congruent(i, j, p))
<1>1. PICK s \in Nat, m \in Nat \ {0} : s = StepOf(t) /\ m = Size(t)
  BY FieldIs
<1>2. Walk(t, i) = Walk(t, j) <=> Congruent(i * s, j * s, m)
  BY <1>1, WalkIs
<1>3. ASSUME s = 0 PROVE Congruent(i * s, j * s, m)
  <2>1. i * s = j * s + m * 0
    BY <1>3
  <2> QED
    BY <2>1 DEF Congruent
<1>4. ASSUME s # 0, p = 0 PROVE Congruent(i * s, j * s, m)
  <2>1. PICK x \in Int : s = m * x
    BY <1>1, <1>4 DEF Recurs
  <2>2. i * (m * x) = m * (i * x) /\ j * (m * x) = m * (j * x)
    OBVIOUS
  <2>3. PICK u \in Int, v \in Int : u = i * x /\ v = j * x
    OBVIOUS
  <2>4. m * u = m * v + m * (u - v)
    OBVIOUS
  <2>5. i * s = j * s + m * (u - v) /\ u - v \in Int
    BY <2>1, <2>2, <2>3, <2>4
  <2> QED
    BY <2>5 DEF Congruent
<1>5. ASSUME s # 0, p # 0 PROVE Congruent(i * s, j * s, m) <=> Congruent(i, j, p)
  <2>1. PICK b \in Nat \ {0}, q \in Nat, k \in Nat :
         Odd(q) /\ m = b * p /\ s = b * q /\ p = Power[k]
    BY <1>1, <1>5 DEF Recurs
  <2> QED
    BY <2>1, CongruentSteps
<1> QED
  BY <1>1, <1>2, <1>3, <1>4, <1>5

(* How many values there are. *)
Period(t) == Size(t) \div LowestBit(StepOf(t))

(* The period of every field. *)
LEMMA PeriodRecurs ==
  ASSUME NEW t, FieldOK(t)
  PROVE  Period(t) \in Nat /\ Recurs(Size(t), StepOf(t), Period(t))
<1>1. PICK k \in 0 .. Width : Size(t) = Power[k]
  BY FieldIs, SizeType
<1>2. k \in Nat
  BY SplitAssumption
<1>3. StepOf(t) \in Nat /\ StepOf(t) < IntMax
  BY FieldIs
<1> QED
  BY <1>1, <1>2, <1>3, PeriodIs DEF Period

(* Values are the same when their parts are. *)
LEMMA NthSame ==
  ASSUME NEW t, FieldOK(t), NEW i \in Int, NEW j \in Int
  PROVE  Nth(t, i) = Nth(t, j) <=> Walk(t, i) = Walk(t, j)
<1>1. /\ Nth(t, i) = WithPart(t, Walk(t, i)) /\ Walk(t, i) \in Nat /\ Walk(t, i) < Size(t)
      /\ Nth(t, j) = WithPart(t, Walk(t, j)) /\ Walk(t, j) \in Nat /\ Walk(t, j) < Size(t)
  BY NthIs
<1>2. t \in Field /\ t.addr < Max
  BY FieldIs
<1>3. PartOf(t, WithPart(t, Walk(t, i))) = Walk(t, i)
  BY <1>1, <1>2, WithPartIs
<1>4. PartOf(t, WithPart(t, Walk(t, j))) = Walk(t, j)
  BY <1>1, <1>2, WithPartIs
<1> QED
  BY <1>1, <1>3, <1>4

Once(t) == StepOf(t) = 0 \/ Period(t) = 0

(* When two values of a field are the same. *)
LEMMA NthRecurs ==
  ASSUME NEW t, FieldOK(t), NEW i \in Int, NEW j \in Int
  PROVE  /\ Once(t) => Nth(t, i) = Nth(t, j)
         /\ ~Once(t) => (Nth(t, i) = Nth(t, j) <=> Congruent(i, j, Period(t)))
<1>1. PICK p \in Nat : p = Period(t) /\ Recurs(Size(t), StepOf(t), p)
  BY PeriodRecurs
<1>2. /\ StepOf(t) = 0 \/ p = 0 => Walk(t, i) = Walk(t, j)
      /\ StepOf(t) # 0 /\ p # 0 => (Walk(t, i) = Walk(t, j) <=> Congruent(i, j, p))
  BY <1>1, WalkRecurs
<1> QED
  BY <1>1, <1>2, NthSame DEF Once

(* As many values differ as the walk takes steps to return. *)
LEMMA DistinctIs ==
  ASSUME NEW t, FieldOK(t)
  PROVE  /\ Distinct(t) = IF Once(t) THEN 1 ELSE Period(t)
         /\ Distinct(t) \in Nat \ {0}
<1>1. PICK m \in Nat \ {0}, p \in Nat : m = Size(t) /\ p = Period(t) /\ Recurs(m, StepOf(t), p)
  BY FieldIs, PeriodRecurs
<1>2. PICK T : T = {Nth(t, n) : n \in 0 .. m - 1} /\ Distinct(t) = Cardinality(T)
  BY <1>1 DEF Distinct
<1>3. 0 \in 0 .. m - 1 /\ \A n \in 0 .. m - 1 : n \in Int
  OBVIOUS
<1>4. CASE Once(t)
  <2>1. \A n \in 0 .. m - 1 : Nth(t, n) = Nth(t, 0)
    BY <1>3, <1>4, NthRecurs
  <2>2. T = {Nth(t, 0)}
    BY <1>2, <1>3, <2>1
  <2> QED
    BY <1>2, <1>4, <2>2, FS_Singleton
<1>5. CASE ~Once(t)
  <2>1. StepOf(t) # 0 /\ p # 0
    BY <1>1, <1>5 DEF Once
  <2>2. PICK b \in Nat \ {0} : m = b * p
    BY <1>1, <2>1 DEF Recurs
  <2>3. p <= m
    <3>1. b * p >= p
      OBVIOUS
    <3> QED
      BY <2>2, <3>1
  <2>4. \A i, j \in Int : Nth(t, i) = Nth(t, j) <=> i % p = j % p
    <3> TAKE i, j \in Int
    <3>1. Nth(t, i) = Nth(t, j) <=> Congruent(i, j, p)
      BY <1>1, <1>5, NthRecurs
    <3>2. Congruent(i, j, p) <=> i % p = j % p
      BY <2>1, ModCongruent
    <3> QED
      BY <3>1, <3>2, Zenon
  <2>5. \A i \in 0 .. p - 1 : i \in Nat /\ i \in Int /\ i < p /\ i % p = i
    BY <2>1, ModSmall
  <2>6. \A i \in Int : i % p \in 0 .. p - 1 /\ i % p \in Int
    BY <2>1, DivMod
  <2> DEFINE g == [n \in 0 .. p - 1 |-> Nth(t, n)]
  <2>7. g \in [0 .. p - 1 -> T]
    <3>1. \A n \in 0 .. p - 1 : n \in 0 .. m - 1
      BY <2>3
    <3> QED
      BY <1>2, <3>1
  <2>8. \A a, c \in 0 .. p - 1 : g[a] = g[c] => a = c
    BY <2>4, <2>5
  <2>9. \A v \in T : \E a \in 0 .. p - 1 : g[a] = v
    <3> TAKE v \in T
    <3>1. PICK n \in 0 .. m - 1 : v = Nth(t, n)
      BY <1>2
    <3>2. n \in Int /\ n % p \in 0 .. p - 1
      BY <1>3, <2>6
    <3> PICK a \in 0 .. p - 1 : a = n % p
      BY <3>2
    <3>3. a \in Int /\ a % p = n % p
      BY <2>5
    <3>4. Nth(t, a) = Nth(t, n)
      BY <2>4, <3>2, <3>3
    <3> QED
      BY <3>1, <3>4
  <2> HIDE DEF g
  <2>10. g \in Surjection(0 .. p - 1, T) /\ g \in Injection(0 .. p - 1, T)
    BY <2>7, <2>8, <2>9 DEF Surjection, Injection, IsInjective
  <2>11. IsFiniteSet(0 .. p - 1) /\ Cardinality(0 .. p - 1) = p
    BY <2>1, FS_Interval
  <2>12. Cardinality(T) = p
    BY <2>10, <2>11, FS_Surjection
  <2> QED
    BY <1>1, <1>2, <1>5, <2>1, <2>12
<1> QED
  BY <1>4, <1>5

-----------------------------------------------------------------------------
(* The copies, the changed copies and the registers *)

RequestOK == request \in Requests

ControlOK == /\ pc \in {"ask", "copy", "makeup", "program", "done", "dead"}
             /\ at \in Ports /\ forty \in BOOLEAN
             /\ pc \in {"copy", "makeup"} => forty
             /\ pc = "ask" => ~forty

(* Is the record of port j changed? *)
Changing(j) == forty /\ \/ pc = "makeup" /\ j < at
                        \/ pc \in {"program", "done"}

CopiesOK ==
  /\ field = [j \in Ports |-> field[j]] /\ frame = [j \in Ports |-> frame[j]]
  /\ pc # "dead" =>
       \A j \in Ports :
         /\ field[j] = IF Changing(j) THEN MakeupField(j, asked) ELSE asked
         /\ frame[j] = IF Changing(j) THEN MakeupFrame(j, sizes) ELSE sizes

HeadersOK ==
  /\ header = [j \in Ports |-> header[j]]
  /\ \A j \in Ports : /\ header[j] = Blank \/ header[j] = MakeHeader(layers)
                      /\ Changing(j) => header[j] = MakeHeader(layers)

RegistersOK ==
  /\ regs = [j \in Ports |-> regs[j]]
  /\ \A j \in Ports :
       /\ regs[j] = NoRegs \/ regs[j] = Programmed(j, field[j])
       /\ pc \in {"ask", "copy", "makeup"} => regs[j] = NoRegs
       /\ forty /\ (pc = "done" \/ (pc = "program" /\ j < at)) => regs[j] = Programmed(j, field[j])

SplitInv == RequestOK /\ ControlOK /\ CopiesOK /\ HeadersOK /\ RegistersOK

(* The invariant holds initially, ... *)
LEMMA InvInit == Init => SplitInv
<1> SUFFICES ASSUME Init PROVE SplitInv
  OBVIOUS
<1>1. RequestOK /\ ControlOK
  <2>1. 0 \in Ports
    BY DEF Ports, NPorts
  <2>2. request \in Requests /\ pc = "ask" /\ at = 0 /\ forty \in BOOLEAN /\ ~forty
    BY Zenon DEF Init
  <2> QED
    BY <2>1, <2>2 DEF RequestOK, ControlOK
<1>2. \A j \in Ports : ~Changing(j) /\ header[j] = Blank /\ regs[j] = NoRegs
                       /\ field[j] = asked /\ frame[j] = sizes
  BY DEF Init, Changing, asked, sizes
<1>3. /\ field = [j \in Ports |-> field[j]] /\ frame = [j \in Ports |-> frame[j]]
      /\ header = [j \in Ports |-> header[j]] /\ regs = [j \in Ports |-> regs[j]]
  BY DEF Init
<1>4. pc = "ask" /\ forty = FALSE
  BY DEF Init
<1> QED
  BY <1>1, <1>2, <1>3, <1>4 DEF SplitInv, CopiesOK, HeadersOK, RegistersOK

(* A step that leaves the request, the headers and the fields alone.       *)
LEMMA ProgrammedSame ==
  ASSUME NEW j \in Ports, request' = request, link40G' = link40G, header' = header, field' = field
  PROVE  Programmed(j, field[j])' = Programmed(j, field[j])
BY DEF Programmed, layers

(* ... and each action keeps it. *)
LEMMA InvAskForty == SplitInv /\ AskForty => SplitInv'
<1> SUFFICES ASSUME SplitInv, AskForty PROVE SplitInv'
  OBVIOUS
<1>1. RequestOK' /\ ControlOK'
  BY DEF SplitInv, AskForty, RequestOK, ControlOK, Ports, NPorts
<1>2. asked' = asked /\ sizes' = sizes /\ layers' = layers
  BY DEF AskForty, asked, sizes, layers
<1>3. ASSUME NEW j \in Ports
      PROVE  ~Changing(j)' /\ ~Changing(j) /\ regs[j] = NoRegs
  BY DEF SplitInv, AskForty, Changing, RegistersOK, ControlOK
<1>4. /\ pc' = "copy" /\ pc = "ask" /\ field' = field /\ frame' = frame
      /\ header' = header /\ regs' = regs
  BY DEF AskForty
<1>5. CopiesOK'
  BY <1>2, <1>3, <1>4 DEF SplitInv, CopiesOK
<1>6. HeadersOK'
  BY <1>2, <1>3, <1>4 DEF SplitInv, HeadersOK
<1>7. RegistersOK'
  BY <1>3, <1>4 DEF SplitInv, RegistersOK
<1> QED
  BY <1>1, <1>5, <1>6, <1>7 DEF SplitInv

(* A stream of a 10G link is programmed from its own record. *)
LEMMA InvAskOther == ASSUME NEW i \in Ports PROVE SplitInv /\ AskOther(i) => SplitInv'
<1> SUFFICES ASSUME SplitInv, AskOther(i) PROVE SplitInv'
  OBVIOUS
<1>1. RequestOK' /\ ControlOK'
  BY DEF SplitInv, AskOther, RequestOK, ControlOK
<1>2. asked' = asked /\ sizes' = sizes /\ layers' = layers
  BY DEF AskOther, asked, sizes, layers
<1>3. /\ pc = "ask" /\ ~forty /\ forty' = forty /\ pc' \in {"dead", "program"}
      /\ field' = field /\ frame' = frame /\ regs' = regs
      /\ header' = [header EXCEPT ![i] = MakeHeader(layers)]
  BY DEF SplitInv, ControlOK, AskOther
<1>4. \A j \in Ports : ~Changing(j)' /\ ~Changing(j) /\ regs[j] = NoRegs
  BY <1>3 DEF SplitInv, Changing, RegistersOK
<1>5. CopiesOK'
  BY <1>2, <1>3, <1>4 DEF SplitInv, CopiesOK
<1>6. HeadersOK'
  <2>1. header' = [j \in Ports |-> header'[j]]
    BY <1>3 DEF SplitInv, HeadersOK
  <2>2. \A j \in Ports : header'[j] = IF j = i THEN MakeHeader(layers) ELSE header[j]
    BY <1>3 DEF SplitInv, HeadersOK
  <2> QED
    BY <1>2, <1>4, <2>1, <2>2 DEF SplitInv, HeadersOK
<1>7. RegistersOK'
  BY <1>3, <1>4 DEF SplitInv, RegistersOK
<1> QED
  BY <1>1, <1>5, <1>6, <1>7 DEF SplitInv

(* While the records are copied, all of them are as they were asked. *)
LEMMA InvCopy == SplitInv /\ Copy => SplitInv'
<1> SUFFICES ASSUME SplitInv, Copy PROVE SplitInv'
  OBVIOUS
<1>1. RequestOK' /\ ControlOK'
  BY DEF SplitInv, Copy, RequestOK, ControlOK, Ports, NPorts
<1>2. asked' = asked /\ sizes' = sizes /\ layers' = layers
  BY DEF Copy, asked, sizes, layers
<1>3. /\ pc = "copy" /\ forty' = forty /\ header' = header /\ regs' = regs /\ at \in Ports
      /\ field' = [field EXCEPT ![at] = field[0]] /\ frame' = [frame EXCEPT ![at] = frame[0]]
      /\ (pc' = "copy" \/ (pc' = "makeup" /\ at' = 0))
  BY DEF SplitInv, ControlOK, Copy
<1>4. \A j \in Ports : ~Changing(j)' /\ ~Changing(j) /\ regs[j] = NoRegs
  BY <1>3 DEF SplitInv, Changing, RegistersOK, Ports, NPorts
<1>5. CopiesOK'
  <2>1. 0 \in Ports /\ \A j \in Ports : field[j] = asked /\ frame[j] = sizes
    BY <1>3, <1>4 DEF SplitInv, CopiesOK, Ports, NPorts
  <2>2. field' = [j \in Ports |-> field'[j]] /\ frame' = [j \in Ports |-> frame'[j]]
    BY <1>3 DEF SplitInv, CopiesOK
  <2>3. \A j \in Ports : field'[j] = asked /\ frame'[j] = sizes
    BY <1>3, <2>1 DEF SplitInv, CopiesOK
  <2> QED
    BY <1>2, <1>4, <2>2, <2>3 DEF CopiesOK
<1>6. HeadersOK'
  BY <1>2, <1>3, <1>4 DEF SplitInv, HeadersOK
<1>7. RegistersOK'
  BY <1>3, <1>4 DEF SplitInv, RegistersOK
<1> QED
  BY <1>1, <1>5, <1>6, <1>7 DEF SplitInv

(* Making up a port changes its record and header only. *)
LEMMA InvMakeup == SplitInv /\ Makeup => SplitInv'
<1> SUFFICES ASSUME SplitInv, Makeup PROVE SplitInv'
  OBVIOUS
<1>1. RequestOK' /\ ControlOK'
  BY DEF SplitInv, Makeup, RequestOK, ControlOK, Ports, NPorts
<1>2. asked' = asked /\ sizes' = sizes /\ layers' = layers
  BY DEF Makeup, asked, sizes, layers
<1>3. /\ pc = "makeup" /\ forty /\ forty' = forty /\ regs' = regs /\ at \in Ports
      /\ field' = [field EXCEPT ![at] = MakeupField(at, field[at])]
      /\ frame' = [frame EXCEPT ![at] = MakeupFrame(at, frame[at])]
      /\ header' = [header EXCEPT ![at] = MakeHeader(layers)]
  BY DEF SplitInv, ControlOK, Makeup
<1>4. \A j \in Ports : /\ Changing(j) <=> j < at
                       /\ pc' # "dead" => (Changing(j)' <=> j <= at)
                       /\ Changing(j)' => j <= at
                       /\ regs[j] = NoRegs
  <2>1. \A j \in Ports : regs[j] = NoRegs
    BY <1>3 DEF SplitInv, RegistersOK
  <2>2. \A j \in Ports : Changing(j) <=> j < at
    BY <1>3 DEF Changing
  <2>3. \/ pc' = "dead"
        \/ pc' = "makeup" /\ at' = at + 1
        \/ pc' = "program" /\ at = NPorts - 1
    BY <1>3 DEF Makeup, Ports, NPorts
  <2>4. \A j \in Ports : /\ pc' # "dead" => (Changing(j)' <=> j <= at)
                         /\ Changing(j)' => j <= at
    BY <1>3, <2>3 DEF Changing, Ports, NPorts
  <2> QED
    BY <2>1, <2>2, <2>4
<1>5. \A j \in Ports : j < at \/ j = at \/ (at < j /\ ~(j <= at))
  BY <1>3 DEF Ports, NPorts
<1>6. \A j \in Ports : ~(j < at /\ j = at) /\ (j <= at <=> j < at \/ j = at)
  BY <1>3 DEF Ports, NPorts
<1>7. CopiesOK'
  <2>1. \A j \in Ports : /\ field[j] = IF j < at THEN MakeupField(j, asked) ELSE asked
                         /\ frame[j] = IF j < at THEN MakeupFrame(j, sizes) ELSE sizes
    BY <1>3, <1>4 DEF SplitInv, CopiesOK
  <2>2. field' = [j \in Ports |-> field'[j]] /\ frame' = [j \in Ports |-> frame'[j]]
    BY <1>3 DEF SplitInv, CopiesOK
  <2>3. \A j \in Ports :
          /\ field'[j] = IF j = at THEN MakeupField(at, field[at]) ELSE field[j]
          /\ frame'[j] = IF j = at THEN MakeupFrame(at, frame[at]) ELSE frame[j]
    BY <1>3 DEF SplitInv, CopiesOK
  <2>4. \A j \in Ports : /\ field'[j] = IF j <= at THEN MakeupField(j, asked) ELSE asked
                         /\ frame'[j] = IF j <= at THEN MakeupFrame(j, sizes) ELSE sizes
    BY <1>5, <1>6, <2>1, <2>3
  <2> QED
    BY <1>2, <1>4, <2>2, <2>4 DEF CopiesOK
<1>8. HeadersOK'
  <2>1. header' = [j \in Ports |-> header'[j]]
    BY <1>3 DEF SplitInv, HeadersOK
  <2>2. \A j \in Ports : header'[j] = IF j = at THEN MakeHeader(layers) ELSE header[j]
    BY <1>3 DEF SplitInv, HeadersOK
  <2>3. \A j \in Ports : /\ header[j] = Blank \/ header[j] = MakeHeader(layers)
                         /\ j < at => header[j] = MakeHeader(layers)
    BY <1>4 DEF SplitInv, HeadersOK
  <2> QED
    BY <1>2, <1>4, <1>6, <2>1, <2>2, <2>3 DEF HeadersOK
<1>9. RegistersOK'
  <2>1. forty' /\ pc' = "program" => at' = 0
    BY <1>3 DEF Makeup
  <2>2. pc' \in {"makeup", "program", "dead"}
    BY <1>3 DEF Makeup
  <2> QED
    BY <1>3, <1>4, <2>1, <2>2 DEF SplitInv, RegistersOK, Ports
<1> QED
  BY <1>1, <1>7, <1>8, <1>9 DEF SplitInv

(* Programming a port writes what its record and header say. *)
LEMMA InvProgram == SplitInv /\ Program => SplitInv'
<1> SUFFICES ASSUME SplitInv, Program PROVE SplitInv'
  OBVIOUS
<1>1. RequestOK' /\ ControlOK'
  BY DEF SplitInv, Program, RequestOK, ControlOK, Ports, NPorts
<1>2. asked' = asked /\ sizes' = sizes /\ layers' = layers
  BY DEF Program, asked, sizes, layers
<1>3. /\ pc = "program" /\ at \in Ports /\ forty' = forty /\ link40G' = link40G /\ request' = request
      /\ field' = field /\ frame' = frame /\ header' = header
      /\ pc' \in {"program", "done", "dead"}
  BY DEF SplitInv, ControlOK, Program
<1>4. \A j \in Ports : /\ Changing(j) <=> forty
                       /\ pc' # "dead" => (Changing(j)' <=> forty)
                       /\ Changing(j)' => forty
  BY <1>3 DEF Changing
<1>5. CopiesOK'
  BY <1>2, <1>3, <1>4 DEF SplitInv, CopiesOK
<1>6. HeadersOK'
  BY <1>2, <1>3, <1>4 DEF SplitInv, HeadersOK
<1>7. RegistersOK'
  <2>1. \A j \in Ports : Programmed(j, field[j])' = Programmed(j, field[j])
    BY <1>3, ProgrammedSame
  <2>2. CASE DiesOfIp4Pdr(layers)
    <3>1. pc' = "dead" /\ regs' = regs
      BY <2>2 DEF Program
    <3> QED
      BY <1>3, <2>1, <3>1 DEF SplitInv, RegistersOK
  <2>3. CASE ~DiesOfIp4Pdr(layers)
    <3>1. /\ regs' = [regs EXCEPT ![at] = Programmed(at, field[at])]
          /\ IF forty /\ at < NPorts - 1 THEN pc' = pc /\ at' = at + 1
             ELSE pc' = "done" /\ at' = 0
      BY <2>3 DEF Program
    <3>2. regs' = [j \in Ports |-> regs'[j]]
      BY <3>1 DEF SplitInv, RegistersOK
    <3>3. \A j \in Ports : regs'[j] = IF j = at THEN Programmed(at, field[at]) ELSE regs[j]
      BY <3>1 DEF SplitInv, RegistersOK
    <3>4. \A j \in Ports : /\ regs[j] = NoRegs \/ regs[j] = Programmed(j, field[j])
                           /\ forty /\ j < at => regs[j] = Programmed(j, field[j])
      BY <1>3 DEF SplitInv, RegistersOK
    <3>5. \A j \in Ports : /\ regs'[j] = NoRegs \/ regs'[j] = Programmed(j, field[j])
                           /\ forty /\ (j < at \/ j = at) => regs'[j] = Programmed(j, field[j])
      BY <3>3, <3>4
    <3>6. \A j \in Ports : /\ forty /\ pc' = "done" => j < at \/ j = at
                           /\ pc' = "program" /\ j < at' => j < at \/ j = at
      BY <1>3, <3>1 DEF Ports, NPorts
    <3>7. pc' \notin {"ask", "copy", "makeup"}
      BY <1>3
    <3> QED
      BY <1>3, <2>1, <3>2, <3>5, <3>6, <3>7 DEF RegistersOK
  <2> QED
    BY <2>2, <2>3
<1> QED
  BY <1>1, <1>5, <1>6, <1>7 DEF SplitInv

(* A step that changes nothing. *)
LEMMA InvStutter == SplitInv /\ UNCHANGED vars => SplitInv'
<1> SUFFICES ASSUME SplitInv, UNCHANGED vars PROVE SplitInv'
  OBVIOUS
<1>1. /\ pc' = pc /\ at' = at /\ forty' = forty /\ link40G' = link40G /\ request' = request
      /\ field' = field /\ frame' = frame /\ header' = header /\ regs' = regs
  BY DEF vars
<1>2. asked' = asked /\ sizes' = sizes /\ layers' = layers
      /\ \A j \in Ports : /\ Changing(j)' <=> Changing(j)
                          /\ Programmed(j, field[j])' = Programmed(j, field[j])
  BY <1>1, ProgrammedSame DEF asked, sizes, layers, Changing
<1>3. RequestOK' /\ ControlOK'
  BY <1>1 DEF SplitInv, RequestOK, ControlOK
<1>4. CopiesOK' /\ HeadersOK'
  BY <1>1, <1>2 DEF SplitInv, CopiesOK, HeadersOK
<1>5. RegistersOK'
  BY <1>1, <1>2 DEF SplitInv, RegistersOK
<1> QED
  BY <1>3, <1>4, <1>5 DEF SplitInv

(* All steps. *)
LEMMA InvNext == SplitInv /\ [Next]_vars => SplitInv'
BY InvAskForty, InvAskOther, InvCopy, InvMakeup, InvProgram, InvStutter DEF Next

(* SplitInv: at each point of bsl_setStreamDetail, which of the ports have *)
(* their copies, their changed copies, their headers and their registers.  *)
THEOREM SplitInvariant == Spec => []SplitInv
<1>1. Init => SplitInv
  BY InvInit
<1>2. SplitInv /\ [Next]_vars => SplitInv'
  BY InvNext
<1> QED
  BY <1>1, <1>2, PTL DEF Spec

-----------------------------------------------------------------------------
(* The sizes of frames *)

(* A quotient is the largest factor. *)
LEMMA DivBound ==
  ASSUME NEW x \in Nat, NEW m \in Nat \ {0}
  PROVE  /\ x \div m \in Nat /\ m * (x \div m) <= x /\ (m * (x \div m)) \div m = x \div m
         /\ \A k \in Nat : m * k <= x <=> k <= x \div m
<1>1. x \in Int
  OBVIOUS
<1>2. PICK d \in Int, e \in Nat : d = x \div m /\ e = x % m /\ e < m /\ x = m * d + e
  BY <1>1, DivMod
<1>3. d \in Nat
  <2>1. CASE d <= -1
    <3>1. m * d <= -m
      BY <2>1
    <3>2. m * d \in Int
      OBVIOUS
    <3> QED
      BY <1>2, <3>1, <3>2
  <2> QED
    BY <2>1
<1>4. PICK y \in Nat : y = m * d
  BY <1>3
<1>5. y <= x
  BY <1>2, <1>4
<1>6. y \div m = d
  <2>1. y = m * d + 0 /\ 0 < m
    BY <1>4
  <2> QED
    BY <2>1, ModUnique
<1>7. ASSUME NEW k \in Nat PROVE m * k <= x <=> k <= d
  <2>1. CASE k <= d
    <3>1. m * k <= m * d
      BY <1>3, <2>1
    <3>2. m * k \in Nat
      OBVIOUS
    <3> QED
      BY <1>4, <1>5, <2>1, <3>1, <3>2
  <2>2. CASE d + 1 <= k
    <3>1. m * (d + 1) <= m * k
      BY <1>3, <2>2
    <3>2. m * (d + 1) = m * d + m /\ m * k \in Nat
      BY <1>3
    <3> QED
      BY <1>2, <1>3, <1>4, <2>2, <3>1, <3>2
  <2> QED
    BY <1>3, <2>1, <2>2
<1> QED
  BY <1>2, <1>3, <1>4, <1>5, <1>6, <1>7

Evenly(min, step, n) == {min + k * step : k \in 0 .. n}

(* The sizes of port i, and how many there are after the first. *)
LEMMA FramesOfPort ==
  ASSUME NEW i \in Ports, NEW f \in Frame, f.min <= f.max
  PROVE  \E min \in Nat, step \in Nat \ {0}, n \in Nat :
           /\ step = 4 * f.step /\ min = Smaller(f.min + i * f.step, f.max)
           /\ n = (f.max - min) \div step
           /\ f.min <= min /\ min <= f.max
           /\ SizesOf(MakeupFrame(i, f)) = Evenly(min, step, n)
<1>1. PICK a \in Nat, b \in Nat, s \in Nat \ {0} : a = f.min /\ b = f.max /\ s = f.step
  BY DEF Frame
<1>2. i \in Nat /\ a <= b
  BY <1>1 DEF Ports, NPorts
<1>3. PICK min \in Nat : min = Smaller(a + i * s, b) /\ a <= min /\ min <= b
  <2>1. a + i * s \in Nat /\ a <= a + i * s
    BY <1>2
  <2> QED
    BY <1>2, <2>1 DEF Smaller
<1>4. PICK step \in Nat \ {0} : step = 4 * s
  OBVIOUS
<1>5. PICK x \in Nat : x = b - min
  BY <1>3
<1>6. PICK n \in Nat : n = x \div step /\ (step * n) \div step = n
  BY DivBound
<1>7. PICK y \in Nat : y = step * n /\ y = n * step
  OBVIOUS
<1>8. /\ MakeupFrame(i, f).min = min /\ MakeupFrame(i, f).step = step
      /\ MakeupFrame(i, f).max = y + min
  <2>1. f.step * NPorts = step
    BY <1>1, <1>4 DEF NPorts
  <2> QED
    BY <1>1, <1>3, <1>5, <1>6, <1>7, <2>1 DEF MakeupFrame
<1>9. ((y + min) - min) \div step = n
  BY <1>6, <1>7
<1>10. SizesOf(MakeupFrame(i, f)) = Evenly(min, step, n)
  BY <1>8, <1>9 DEF SizesOf, Evenly
<1> QED
  BY <1>1, <1>3, <1>4, <1>5, <1>6, <1>10

(* A port has no size that was not within the range asked for. *)
LEMMA SizesInside ==
  ASSUME NEW i \in Ports, NEW f \in Frame, f.min <= f.max
  PROVE  SizesOf(MakeupFrame(i, f)) \subseteq f.min .. f.max
<1>1. PICK min \in Nat, step \in Nat \ {0}, n \in Nat :
           /\ n = (f.max - min) \div step
           /\ f.min <= min /\ min <= f.max
           /\ SizesOf(MakeupFrame(i, f)) = Evenly(min, step, n)
  BY FramesOfPort
<1>2. PICK a \in Nat, b \in Nat : a = f.min /\ b = f.max
  BY DEF Frame
<1>3. PICK x \in Nat : x = b - min
  BY <1>1, <1>2
<1>4. ASSUME NEW k \in 0 .. n PROVE min + k * step \in a .. b
  <2>1. k \in Nat /\ k <= x \div step
    BY <1>1, <1>2, <1>3
  <2>2. step * k <= x
    BY <2>1, DivBound
  <2>3. PICK z \in Nat : z = k * step /\ z = step * k
    BY <2>1
  <2> QED
    BY <1>1, <1>2, <1>3, <2>2, <2>3
<1> QED
  BY <1>1, <1>2, <1>4 DEF Evenly

(* Some port has each size. *)
LEMMA SizesAll ==
  ASSUME NEW f \in Frame, f.min <= f.max, NEW v \in SizesOf(f)
  PROVE  \E i \in Ports : v \in SizesOf(MakeupFrame(i, f))
<1>1. PICK a \in Nat, b \in Nat, s \in Nat \ {0} : a = f.min /\ b = f.max /\ s = f.step
  BY DEF Frame
<1>2. PICK y \in Nat : y = b - a
  BY <1>1
<1>3. y \div s \in Nat
  BY DivBound
<1>4. PICK k \in 0 .. y \div s : v = a + k * s
  BY <1>1, <1>2 DEF SizesOf
<1>5. k \in Nat /\ s * k <= y
  BY <1>3, <1>4, DivBound
<1>6. PICK h \in Nat, i \in 0 .. 3 : k = 4 * h + i
  <2>1. k \in Int /\ 4 \in Nat \ {0}
    BY <1>5
  <2>2. PICK h \in Int, i \in Nat : i < 4 /\ k = 4 * h + i
    BY <2>1, Division
  <2>3. h \in Nat /\ i \in 0 .. 3
    BY <1>5, <2>2
  <2> QED
    BY <2>2, <2>3
<1>7. i \in Ports /\ i \in Nat
  BY DEF Ports, NPorts
<1>8. PICK min \in Nat, step \in Nat \ {0}, n \in Nat :
           /\ step = 4 * f.step /\ min = Smaller(f.min + i * f.step, f.max)
           /\ n = (f.max - min) \div step
           /\ min <= f.max
           /\ SizesOf(MakeupFrame(i, f)) = Evenly(min, step, n)
  BY <1>7, FramesOfPort
<1>9. PICK u \in Nat, w \in Nat : /\ u = i * s /\ w = step * h /\ w = h * step
                                 /\ k * s = w + u /\ w + u <= y
  <2>1. s * (4 * h + i) = (4 * s) * h + i * s
    BY <1>7
  <2>2. i * s \in Nat /\ (4 * s) * h \in Nat /\ (4 * s) * h = h * (4 * s)
    BY <1>7
  <2>3. k * s = s * k /\ s * k \in Nat
    BY <1>5
  <2> QED
    BY <1>1, <1>5, <1>6, <1>8, <2>1, <2>2, <2>3
<1>10. min = a + u
  <2>1. a + u <= b /\ a + u \in Nat
    BY <1>1, <1>2, <1>9
  <2>2. Smaller(a + u, b) = a + u
    BY <1>1, <2>1 DEF Smaller
  <2> QED
    BY <1>1, <1>8, <1>9, <2>2
<1>11. v = min + h * step
  BY <1>4, <1>9, <1>10
<1>12. h \in 0 .. n
  <2>1. PICK x \in Nat : x = b - min
    BY <1>1, <1>8
  <2>2. step * h <= x
    BY <1>1, <1>2, <1>9, <1>10, <2>1
  <2>3. h <= x \div step
    BY <2>2, DivBound
  <2> QED
    BY <1>1, <1>8, <2>1, <2>3
<1> QED
  BY <1>7, <1>8, <1>11, <1>12 DEF Evenly

(* Every frame size asked for is sent by some port, and none outside the   *)
(* range asked for: for all sizes and steps.                               *)
THEOREM AllSizesAreCovered == Spec => []SizesCovered
<1>1. SplitInv => SizesCovered
  <2> SUFFICES ASSUME SplitInv, Split
               PROVE  /\ SizesOf(sizes) \subseteq UNION {SizesOf(frame[i]) : i \in Ports}
                      /\ UNION {SizesOf(frame[i]) : i \in Ports} \subseteq sizes.min .. sizes.max
    BY DEF SizesCovered
  <2>1. \A i \in Ports : frame[i] = MakeupFrame(i, sizes)
    BY DEF SplitInv, CopiesOK, Split, Changing
  <2>2. sizes \in Frame /\ sizes.min <= sizes.max
    BY SplitAssumption DEF SplitInv, RequestOK, sizes
  <2> QED
    BY <2>1, <2>2, SizesInside, SizesAll
<1> QED
  BY <1>1, SplitInvariant, PTL

-----------------------------------------------------------------------------
(* The last value of a field *)

Stride(t, s) == LET e == IF t.kind = "ip4" THEN 1 ELSE s IN IF Down(t) THEN -e ELSE e
Limited(t) == Numeric(t) \/ (t.kind = "ip6" /\ HostPart(t))
Reach(t, s, n) == IF Limited(t) THEN Smaller(n, Size(t) \div LowestBit(s)) ELSE n

(* An address whose last value get_lastip6 can compute. *)
Fits(t) == /\ t \in Field /\ t.addr < Max /\ ShiftsDefined(t)
           /\ t.kind = "ip6" => IntBits <= Width

(* The shifts of get_lastip6, where they are defined. *)
LEMMA ShiftIs ==
  ASSUME NEW t, Fits(t), t.kind = "ip6"
  PROVE  /\ Low(t) = Hosts(t)
         /\ t.part = "net" =>
              /\ Shift(t) <= IntBits /\ Shift(t) % IntBits = Shift(t)
              /\ IntMax = Hosts(t) * Power[NetBits(t)]
<1>1. /\ t.prefix \in 1 .. Width /\ Width \in Nat \ {0} /\ IntBits \in Nat \ {0}
      /\ IntBits <= Width
  BY SplitAssumption DEF Fits, Field, ShiftsDefined
<1>2. PICK h \in Nat : h = Shift(t) /\ h = Width - t.prefix /\ h < Width
  BY <1>1 DEF Shift
<1>3. Low(t) = Hosts(t)
  <2>1. h % Width = h
    BY <1>1, <1>2, ModSmall
  <2> QED
    BY <1>2, <2>1 DEF Low, Hosts
<1>4. ASSUME t.part = "net"
      PROVE  /\ h < IntBits /\ h % IntBits = h
             /\ IntMax = Hosts(t) * Power[NetBits(t)]
  <2>1. h < IntBits
    BY <1>2, <1>4 DEF Fits, ShiftsDefined
  <2>2. h % IntBits = h
    BY <1>1, <2>1, ModSmall
  <2>3. NetBits(t) = IntBits - h /\ IntBits - h \in Nat /\ h + (IntBits - h) = IntBits
    BY <1>1, <1>2, <2>1 DEF NetBits, Smaller
  <2>4. IntMax = Power[h] * Power[IntBits - h]
    BY <2>3, PowerOfSum DEF IntMax
  <2> QED
    BY <1>2, <2>1, <2>2, <2>3, <2>4 DEF Hosts
<1> QED
  BY <1>1, <1>2, <1>3, <1>4

(* get_lastip6 moves the network part within its four bytes: whatever its  *)
(* product loses in 32 bits is beyond them.                                *)
LEMMA LastNetIs ==
  ASSUME NEW t, Fits(t), t.kind = "ip6", t.part = "net", NEW s \in Nat, NEW n \in Nat \ {0},
         NEW down \in BOOLEAN
  PROVE  LastIp6Net(t, s, n, down) =
           WithPart(t, (IF down THEN PartOf(t, t.addr) - (n - 1) * s
                                ELSE PartOf(t, t.addr) + (n - 1) * s) % Size(t))
<1>0. t \in Field /\ t.addr < Max /\ NetPart(t)
  BY DEF Fits, NetPart
<1>1. PICK m, g, r \in Nat \ {0}, w, c, v \in Nat : Digits(t, m, g, r, w, c, v)
  BY <1>0, NetIs
<1>2. PICK a \in Nat, u \in Nat : a = t.addr /\ u = g * w + c
  BY <1>0 DEF Field
<1>3. /\ m = Hosts(t) /\ g = Size(t) /\ m * (g * r) = Max /\ v < m /\ a = m * u + v
      /\ PartOf(t, t.addr) = c /\ c < g
  BY <1>1, <1>2 DEF Digits
<1>4. Low(t) = m /\ Shift(t) <= IntBits /\ Power[Shift(t) % IntBits] = m /\ IntMax = m * g
  BY <1>0, <1>3, ShiftIs, Layouts DEF Hosts
<1>5. PICK y \in Int : y = (n - 1) * s
  OBVIOUS
<1>6. PICK e \in Nat : e = y % g /\ Moves(u, e, y, g)
  <2>1. u \in Int
    OBVIOUS
  <2> QED
    BY <2>1, MovesIs
<1>7. (y * m) % (m * g) = m * e
  <2>1. Digit(m, g, y, 0)
    <3>1. 0 \in Nat /\ 0 < m
      OBVIOUS
    <3> QED
      BY <3>1, DigitIs
  <2>2. PICK x \in Int, z \in Int : x = m * y /\ y * m = x /\ z = m * e
    OBVIOUS
  <2>3. (x + 0) % (m * g) = z + 0
    BY <1>6, <2>1, <2>2, Zenon DEF Digit
  <2>4. x + 0 = x /\ z + 0 = z
    OBVIOUS
  <2> QED
    BY <2>2, <2>3, <2>4, Zenon
<1>8. PICK x \in Int : x = IF down THEN u - e ELSE u + e
  <2>1. u - e \in Int /\ u + e \in Int
    OBVIOUS
  <2> QED
    BY <2>1, Zenon
<1>9. (IF down THEN a - m * e ELSE a + m * e) = m * x + v
  <2>1. m * (u - e) = m * u - m * e /\ m * (u + e) = m * u + m * e /\ m * u \in Int /\ m * e \in Int
    OBVIOUS
  <2> QED
    BY <1>3, <1>8, <2>1
<1>10. PICK k \in Nat \ {0}, z \in Nat : k = g * r /\ z = x % k /\ z < k
  <2>1. g * r \in Nat \ {0}
    OBVIOUS
  <2> QED
    BY <2>1, DivMod
<1>11. (m * x + v) % Max = m * z + v
  <2>1. Digit(m, k, x, v)
    BY <1>3, DigitIs
  <2> QED
    BY <1>3, <1>10, <2>1, Zenon DEF Digit
<1>12. PICK moved \in Nat : moved = m * z + v /\ moved % m = v
  <2>1. m * z + v \in Nat /\ (m * z + v) % m = v
    <3>1. z < k /\ v < m
      BY <1>3, <1>10
    <3> QED
      BY <3>1, PutTogether
  <2> QED
    BY <2>1
<1>13. a % m = v
  BY <1>1, <1>2 DEF Digits
<1>14. a % (m * g) = m * c + v
  <2>1. Digit(m, g, u, v)
    <3>1. u \in Int
      OBVIOUS
    <3> QED
      BY <1>3, <3>1, DigitIs
  <2>2. u % g = c
    BY <1>2, <1>3, ModUnique
  <2> QED
    BY <1>3, <2>1, <2>2, Zenon DEF Digit
<1>15. PICK b \in Nat : b = x % g /\ b < g
  BY DivMod
<1>16. moved % (m * g) = m * b + v
  <2>1. Digit(m, g, z, v)
    <3>1. z \in Int
      OBVIOUS
    <3> QED
      BY <1>3, <3>1, DigitIs
  <2>2. z % g = x % g
    BY <1>10, ModOfMod
  <2> QED
    BY <1>12, <1>15, <2>1, <2>2, Zenon DEF Digit
<1>17. LastIp6Net(t, s, n, down) = a - (m * c + v) + (m * b + v)
  <2>1. PICK d \in Int : d = m * e /\ d = (((n - 1) * s) * m) % (m * g)
    BY <1>5, <1>7
  <2>2. (IF down THEN t.addr - d ELSE t.addr + d) % Max = moved
    BY <1>2, <1>9, <1>11, <1>12, <2>1
  <2>3. moved - (moved % Low(t)) + (t.addr % Low(t)) = moved
    BY <1>2, <1>4, <1>12, <1>13
  <2>4. t.addr - (t.addr % IntMax) + (moved % IntMax) = a - (m * c + v) + (m * b + v)
    BY <1>2, <1>4, <1>14, <1>16
  <2>5. (((n - 1) * s) * Power[Shift(t) % IntBits]) % IntMax = d
    BY <1>4, <2>1
  <2> QED
    BY <1>4, <2>2, <2>3, <2>4, <2>5, Zenon DEF LastIp6Net
<1>18. WithPart(t, b) = a + (b - c) * m
  BY <1>0, <1>2, <1>3, Layouts
<1>19. a - (m * c + v) + (m * b + v) = a + (b - c) * m
  <2>1. (b - c) * m = m * b - m * c /\ m * b \in Int /\ m * c \in Int
    OBVIOUS
  <2> QED
    BY <2>1
<1>20. b = (IF down THEN c - y ELSE c + y) % g
  <2>1. u % g = c
    BY <1>2, <1>3, ModUnique
  <2>2. PICK o \in Int, ui \in Int : o = -y /\ ui = u
    OBVIOUS
  <2>3. ((ui % g) + y) % g = (ui + y) % g /\ ((ui % g) + o) % g = (ui + o) % g
    BY ModSum
  <2>4. c + o = c - y /\ u + o = u - y
    BY <2>2
  <2>5. (c + y) % g = (u + y) % g /\ (c - y) % g = (u - y) % g
    BY <2>1, <2>2, <2>3, <2>4, Zenon
  <2> QED
    BY <1>6, <1>8, <1>15, <2>5, Zenon DEF Moves
<1> QED
  BY <1>3, <1>5, <1>17, <1>18, <1>19, <1>20

(* The last value of the code is the value that its limits let it reach. *)
LEMMA LastIs ==
  ASSUME NEW t, Fits(t), NEW s \in Nat, s < IntMax, NEW n \in Nat \ {0}
  PROVE  /\ Reach(t, s, n) \in Int
         /\ Last(t, s, n) =
              WithPart(t, (PartOf(t, t.addr) + (Reach(t, s, n) - 1) * Stride(t, s)) % Size(t))
<1>0. t \in Field /\ t.addr < Max
  BY DEF Fits
<1>1. PICK m \in Nat \ {0}, k \in 0 .. Width : m = Size(t) /\ m = Power[k]
  BY <1>0, SizeType
<1>2. m \div LowestBit(s) \in Nat
  <2>1. k \in Nat
    BY SplitAssumption
  <2> QED
    BY <1>1, <2>1, PeriodIs
<1>3. PICK r \in Int : r = Smaller(n, m \div LowestBit(s))
  BY <1>2 DEF Smaller
<1>4. Reach(t, s, n) = IF Limited(t) THEN r ELSE n
  BY <1>1, <1>3 DEF Reach
<1>5. PICK c \in Nat : c = PartOf(t, t.addr) /\ WithPart(t, c) = t.addr
  BY <1>0, PartIs
<1>6. t.kind \in {"mac", "int", "ip4", "ip6"} /\ Down(t) \in BOOLEAN /\ t.addr \in Nat
  BY <1>0 DEF Field, Kinds, Down
<1>7. \A start \in Int : End(start, s, n, Down(t), m)
                           = (start + (r - 1) * (IF Down(t) THEN -s ELSE s)) % m
  <2> TAKE start \in Int
  <2>1. PICK down \in BOOLEAN : down = Down(t)
    BY <1>6
  <2>2. End(start, s, n, down, m) = (start + (r - 1) * (IF down THEN -s ELSE s)) % m
    BY <1>3, EndIs
  <2> QED
    BY <2>1, <2>2
<1>8. CASE Numeric(t)
  <2>1. m = Max /\ t.addr = c /\ \A v : WithPart(t, v) = v
    BY <1>1, <1>5, <1>0, <1>8, Layouts
  <2>2. Last(t, s, n) = End(t.addr, s, n, Down(t), Max)
    BY <1>8 DEF Last, LastInteger, Numeric
  <2>3. Limited(t) /\ Stride(t, s) = IF Down(t) THEN -s ELSE s
    BY <1>8 DEF Limited, Stride, Numeric
  <2>4. End(c, s, n, Down(t), m) = (c + (r - 1) * Stride(t, s)) % m
    BY <1>7, <2>3
  <2>5. Last(t, s, n) = (c + (r - 1) * Stride(t, s)) % m
    BY <2>1, <2>2, <2>4
  <2>6. Reach(t, s, n) = r
    BY <1>4, <2>3
  <2> QED
    BY <1>1, <1>5, <2>1, <2>5, <2>6
<1>9. CASE t.kind = "ip4"
  <2>1. ~Limited(t) /\ Stride(t, s) = IF Down(t) THEN -1 ELSE 1
    BY <1>9 DEF Limited, Stride, Numeric
  <2>2. Last(t, s, n) = WithPart(t, (IF Down(t) THEN c - (n - 1) ELSE c + (n - 1)) % m)
    BY <1>1, <1>5, <1>9 DEF Last, LastIp4
  <2>3. (IF Down(t) THEN c - (n - 1) ELSE c + (n - 1)) = c + (n - 1) * Stride(t, s)
    BY <2>1
  <2> QED
    BY <1>1, <1>4, <1>5, <2>1, <2>2, <2>3
<1>10. CASE t.kind = "ip6" /\ HostPart(t)
  <2>1. Limited(t) /\ Stride(t, s) = IF Down(t) THEN -s ELSE s
    BY <1>10 DEF Limited, Stride
  <2>2. t.part = "host" /\ m = Hosts(t) /\ c = t.addr % m
    BY <1>0, <1>1, <1>5, <1>10, Layouts DEF HostPart
  <2>3. Low(t) = m
    BY <1>10, <2>2, ShiftIs
  <2>4. Last(t, s, n) = t.addr - c + End(c, s, n, Down(t), m)
    BY <1>10, <2>2, <2>3, Zenon DEF Last, LastIp6, LastIp6Host
  <2>5. PICK v \in Nat : v = End(c, s, n, Down(t), m)
    <3>1. PICK d \in Int : d = (r - 1) * (IF Down(t) THEN -s ELSE s)
      BY <1>6
    <3>2. (c + d) % m \in Nat
      OBVIOUS
    <3> QED
      BY <1>7, <3>1, <3>2
  <2>6. WithPart(t, v) = t.addr - c + v
    BY <1>0, <1>10, <2>2, Layouts
  <2>7. Last(t, s, n) = WithPart(t, End(c, s, n, Down(t), m))
    BY <2>4, <2>5, <2>6
  <2> QED
    BY <1>1, <1>4, <1>5, <1>7, <2>1, <2>7
<1>11. CASE t.kind = "ip6" /\ ~HostPart(t)
  <2>1. ~Limited(t) /\ Stride(t, s) = IF Down(t) THEN -s ELSE s
    BY <1>11 DEF Limited, Stride, Numeric
  <2>2. t.part = "net"
    BY <1>0, <1>11 DEF Field, HostPart, Numeric
  <2>3. Last(t, s, n) =
          WithPart(t, (IF Down(t) THEN c - (n - 1) * s ELSE c + (n - 1) * s) % m)
    <3>1. Last(t, s, n) = LastIp6Net(t, s, n, Down(t))
      BY <1>11, <2>2 DEF Last, LastIp6
    <3>2. PICK down \in BOOLEAN : down = Down(t)
      BY <1>6
    <3>3. LastIp6Net(t, s, n, down) =
            WithPart(t, (IF down THEN PartOf(t, t.addr) - (n - 1) * s
                                 ELSE PartOf(t, t.addr) + (n - 1) * s) % Size(t))
      BY <1>11, <2>2, LastNetIs
    <3> QED
      BY <1>1, <1>5, <3>1, <3>2, <3>3, Zenon
  <2>4. (IF Down(t) THEN c - (n - 1) * s ELSE c + (n - 1) * s) = c + (n - 1) * Stride(t, s)
    <3>1. PICK d \in Int : d = n - 1
      OBVIOUS
    <3>2. d * (-s) = -(d * s) /\ d * s \in Int
      OBVIOUS
    <3> QED
      BY <2>1, <3>1, <3>2
  <2> QED
    BY <1>1, <1>4, <1>5, <2>1, <2>3, <2>4
<1> QED
  BY <1>4, <1>6, <1>8, <1>9, <1>10, <1>11 DEF Numeric

(* What the code needs of an address it needs of all with that layout.     *)
LEMMA FitsIs ==
  ASSUME NEW a, FieldOK(a), ShiftsDefined(a), NEW u \in Field, Alike(a, u), u.addr < Max
  PROVE  Fits(u) /\ ShiftsDefined(u)
<1>1. Shift(u) = Shift(a)
  BY DEF Alike, Shift
<1>2. ShiftsDefined(u)
  BY <1>1 DEF Alike, ShiftsDefined
<1> QED
  BY <1>2 DEF Alike, FieldOK, Fits

(* A field that differs in its repeat count only has the same values.      *)
LEMMA SameValues ==
  ASSUME NEW t, NEW u, Alike(t, u), u.addr = t.addr, u.step = t.step, u.mode = t.mode
  PROVE  /\ \A n : Nth(u, n) = Nth(t, n)
         /\ Down(u) = Down(t) /\ Cont(u) = Cont(t) /\ StepOf(u) = StepOf(t)
         /\ Size(u) = Size(t) /\ Period(u) = Period(t)
<1>1. /\ Down(u) = Down(t) /\ Cont(u) = Cont(t) /\ StepOf(u) = StepOf(t)
      /\ Hosts(u) = Hosts(t) /\ NetBits(u) = NetBits(t) /\ NetPart(u) = NetPart(t)
  BY DEF Alike, Down, Cont, StepOf, Shift, Hosts, NetBits, NetPart
<1>2. Size(u) = Size(t)
  BY <1>1 DEF Alike, Size
<1>3. PartOf(u, u.addr) = PartOf(t, t.addr) /\ \A v : WithPart(u, v) = WithPart(t, v)
  BY <1>1, <1>2 DEF Alike, PartOf, WithPart
<1>4. \A n : Nth(u, n) = Nth(t, n)
  BY <1>1, <1>2, <1>3 DEF Nth
<1>5. Period(u) = Period(t)
  BY <1>1, <1>2 DEF Period
<1> QED
  BY <1>1, <1>2, <1>4, <1>5

(* A repeat count of 0 becomes 1, and nothing else changes. *)
LEMMA OneIs ==
  ASSUME NEW a \in Field, NEW i \in Ports
  PROVE  /\ OneAtLeast(i, a) \in Field /\ Alike(a, OneAtLeast(i, a))
         /\ OneAtLeast(i, a).addr = a.addr /\ OneAtLeast(i, a).step = a.step
         /\ OneAtLeast(i, a).mode = a.mode
         /\ OneAtLeast(i, a).repeat = IF a.repeat = 0 /\ (i # 0 \/ a.kind = "int") THEN 1
                                      ELSE a.repeat
<1>1. CASE a.repeat = 0 /\ (i # 0 \/ a.kind = "int")
  <2>1. OneAtLeast(i, a) = [a EXCEPT !.repeat = 1]
    BY <1>1 DEF OneAtLeast
  <2> QED
    BY <1>1, <2>1 DEF Field, Alike
<1>2. CASE ~(a.repeat = 0 /\ (i # 0 \/ a.kind = "int"))
  <2>1. OneAtLeast(i, a) = a
    BY <1>2 DEF OneAtLeast
  <2> QED
    BY <1>2, <2>1 DEF Alike
<1> QED
  BY <1>1, <1>2

(* What the code changes of a copy. *)
LEMMA ChangedIs ==
  ASSUME NEW t \in Field, NEW first, NEW step \in Nat
  PROVE  LET u == Changed(t, first, step)
         IN /\ Alike(t, u) /\ u.addr = first /\ u.step = step
            /\ u.repeat = t.repeat /\ u.mode = ModeLeft(t)
            /\ first \in Nat => u \in Field
<1>1. ModeLeft(t) \in Modes
  BY DEF Field, ModeLeft, Modes
<1>2. PICK mode \in Modes : mode = ModeLeft(t)
  BY <1>1
<1>3. Changed(t, first, step) = [t EXCEPT !.addr = first, !.step = step, !.mode = mode]
  BY <1>2 DEF Changed
<1> QED
  BY <1>2, <1>3 DEF Field, Alike

(* The last of n values is number n - 1, if there are so many.             *)
LEMMA LastAt ==
  ASSUME NEW a, FieldOK(a), ShiftsDefined(a), NEW n \in Nat \ {0},
         Limited(a) => n <= Period(a)
  PROVE  Last(a, a.step, n) = Nth(a, n - 1)
<1>1. Fits(a) /\ a.step \in Nat /\ a.step < IntMax
  BY FieldIs DEF FieldOK, Fits
<1>2. Stride(a, a.step) = Signed(a)
  BY DEF Stride, Signed, StepOf
<1>3. Reach(a, a.step, n) = n
  <2>1. CASE Limited(a)
    <3>1. StepOf(a) = a.step
      BY <2>1 DEF Limited, StepOf, Numeric
    <3>2. Reach(a, a.step, n) = Smaller(n, Period(a))
      BY <2>1, <3>1 DEF Reach, Period
    <3>3. Period(a) \in Nat /\ n <= Period(a)
      BY <2>1, PeriodRecurs
    <3> QED
      BY <3>2, <3>3 DEF Smaller
  <2>2. CASE ~Limited(a)
    BY <2>2 DEF Reach
  <2> QED
    BY <2>1, <2>2
<1>4. Last(a, a.step, n) = WithPart(a, Walk(a, n - 1))
  BY <1>1, <1>2, <1>3, LastIs DEF Walk
<1>5. n - 1 \in Int
  OBVIOUS
<1> QED
  BY <1>4, <1>5, NthIs

-----------------------------------------------------------------------------
(* The first value of a port *)

(* Which value port i starts with. *)
Place(i, a) == IF Cont(a) THEN i
               ELSE IF a.repeat = 0 THEN 0 ELSE i % Smaller(a.repeat, NPorts)

(* The turn of a port is the place of its first value. *)
LEMMA PlaceIs ==
  ASSUME NEW a \in Field, NEW i \in Ports
  PROVE  /\ Place(i, a) \in 0 .. 3 /\ (i = 0 => Place(i, a) = 0)
         /\ i # 0 \/ a.kind = "int" => Turn(i, OneAtLeast(i, a)) = Place(i, a)
         /\ a.mode # "fixed" => Value(a, i) = Nth(a, Place(i, a))
<1>1. i \in 0 .. 3 /\ NPorts = 4
  BY DEF Ports, NPorts
<1>2. PICK r \in Nat : r = a.repeat
  BY DEF Field
<1>3. PICK t : t = OneAtLeast(i, a)
  OBVIOUS
<1>4. /\ t.repeat = IF r = 0 /\ (i # 0 \/ a.kind = "int") THEN 1 ELSE r
      /\ Cont(t) = Cont(a)
  BY <1>2, <1>3, OneIs, SameValues
<1>5. CASE Cont(a)
  BY <1>1, <1>3, <1>4, <1>5 DEF Place, Turn, Value, Cont
<1>6. CASE ~Cont(a) /\ r = 0
  <2>1. Place(i, a) = 0 /\ (a.mode # "fixed" => Value(a, i) = Nth(a, 0))
    BY <1>2, <1>6 DEF Place, Value
  <2>2. i # 0 \/ a.kind = "int" => Turn(i, t) = 0
    <3>1. i # 0 \/ a.kind = "int" => Turn(i, t) = i % Smaller(1, 4)
      BY <1>1, <1>4, <1>6 DEF Turn
    <3>2. i % 1 = 0 /\ Smaller(1, 4) = 1
      BY <1>1 DEF Smaller
    <3> QED
      BY <3>1, <3>2
  <2> QED
    BY <1>3, <2>1, <2>2
<1>7. CASE ~Cont(a) /\ r # 0
  <2>1. Place(i, a) = i % Smaller(r, 4) /\ Turn(i, t) = i % Smaller(r, 4)
    BY <1>1, <1>2, <1>4, <1>7 DEF Place, Turn
  <2>2. i % Smaller(r, 4) \in 0 .. 3 /\ (i = 0 => i % Smaller(r, 4) = 0)
    BY <1>1, <1>7 DEF Smaller
  <2>3. i % r = i % Smaller(r, 4)
    <3>1. CASE r < 4
      BY <3>1 DEF Smaller
    <3>2. CASE r >= 4
      <4>1. Smaller(r, 4) = 4 /\ i % 4 = i
        BY <1>1, <3>2 DEF Smaller
      <4>2. i % r = i
        BY <1>1, <3>2, ModSmall
      <4> QED
        BY <4>1, <4>2
    <3> QED
      BY <3>1, <3>2
  <2>4. a.mode # "fixed" => Value(a, i) = Nth(a, i % r)
    BY <1>2, <1>7 DEF Value
  <2> QED
    BY <1>3, <2>1, <2>2, <2>3, <2>4
<1> QED
  BY <1>5, <1>6, <1>7

(* The first value is the address. *)
LEMMA NthZero ==
  ASSUME NEW a, FieldOK(a)
  PROVE  Nth(a, 0) = a.addr
<1>1. /\ PartOf(a, a.addr) \in Nat /\ PartOf(a, a.addr) < Size(a) /\ Size(a) \in Nat \ {0}
      /\ Signed(a) \in Int /\ a \in Field /\ a.addr < Max
  BY FieldIs
<1>2. PICK c \in Nat, m \in Nat \ {0}, e \in Int :
        c = PartOf(a, a.addr) /\ m = Size(a) /\ c < m /\ e = Signed(a)
  BY <1>1
<1>3. c + 0 * e = c
  OBVIOUS
<1>4. c % m = c
  BY <1>2, ModSmall
<1>5. Walk(a, 0) = c
  BY <1>2, <1>3, <1>4 DEF Walk
<1>6. Nth(a, 0) = WithPart(a, c)
  BY <1>5, NthIs
<1> QED
  BY <1>1, <1>2, <1>6, PartIs

(* The step of a port is a number again. *)
LEMMA PortStepIs ==
  ASSUME NEW t \in Field
  PROVE  StepOfPort(t) \in Nat /\ StepOfPort(t) < IntMax
<1>1. t.step * NPorts \in Int
  BY DEF Field, NPorts
<1> QED
  BY <1>1, IntMaxIs, DivMod DEF StepOfPort

(* What bsl_makeupPdr makes of a field.  An address without enough values  *)
(* is left out; so is the width of an integer.                             *)
LEMMA MadeUp ==
  ASSUME NEW a, FieldOK(a), ShiftsDefined(a), NEW i \in Ports, a.mode # "fixed",
         Limited(a) => Place(i, a) + 1 <= Period(a)
  PROVE  LET u == MakeupField(i, a)
         IN /\ Alike(a, u) /\ u.mode = ModeLeft(OneAtLeast(i, a))
            /\ u.repeat = OneAtLeast(i, a).repeat
            /\ u.step = IF a.kind = "ip4" THEN a.step ELSE StepOfPort(a)
            /\ a.kind = "int" => u.addr = a.addr + Place(i, a) * Signed(a)
            /\ a.kind # "int" => u.addr = Nth(a, Place(i, a)) /\ u \in Field
<1>1. PICK t \in Field :
        /\ t = OneAtLeast(i, a) /\ Alike(a, t)
        /\ t.addr = a.addr /\ t.step = a.step /\ t.mode = a.mode
  BY FieldIs, OneIs
<1>2. PICK k \in 0 .. 3 : /\ k = Place(i, a) /\ (i = 0 => k = 0)
                          /\ i # 0 \/ a.kind = "int" => Turn(i, t) = k
  BY <1>1, FieldIs, PlaceIs
<1>3. FieldOK(t) /\ ShiftsDefined(t) /\ (\A n : Nth(t, n) = Nth(a, n)) /\ Period(t) = Period(a)
      /\ Down(t) = Down(a) /\ StepOf(t) = StepOf(a) /\ t.kind = a.kind
      /\ (Limited(t) <=> Limited(a))
  <2>1. (\A n : Nth(t, n) = Nth(a, n)) /\ Period(t) = Period(a)
        /\ Down(t) = Down(a) /\ StepOf(t) = StepOf(a)
    BY <1>1, SameValues
  <2>2. t.kind = a.kind /\ FieldOK(t) /\ ShiftsDefined(t) /\ (Limited(t) <=> Limited(a))
    <3>1. t.repeat < IntMax
      BY <1>1, FieldIs, OneIs, IntMaxIs
    <3>2. FieldOK(t)
      BY <1>1, <3>1 DEF FieldOK, Alike
    <3> QED
      BY <1>1, <3>2, FitsIs DEF FieldOK, Alike, Limited, Numeric, HostPart
  <2> QED
    BY <2>1, <2>2
<1>4. Last(t, t.step, k + 1) = Nth(a, k)
  <2>1. k + 1 \in Nat \ {0} /\ (k + 1) - 1 = k /\ (Limited(t) => k + 1 <= Period(t))
    BY <1>2, <1>3
  <2> QED
    BY <1>3, <2>1, LastAt
<1>5. Nth(a, k) \in Nat
  <2>1. k \in Int /\ a \in Field /\ a.addr < Max
    BY FieldIs
  <2> QED
    BY <2>1, NthIs, WithPartIs
<1>6. a.addr = Nth(a, 0)
  BY NthZero
<1>7. MakeupField(i, a) =
        CASE a.mode = "fixed" -> a
          [] a.mode # "fixed" /\ a.kind = "mac" -> MakeupEther(i, t)
          [] a.mode # "fixed" /\ a.kind = "int" -> MakeupInteger(i, t)
          [] a.mode # "fixed" /\ a.kind = "ip4" -> MakeupIp4(i, t)
          [] a.mode # "fixed" /\ a.kind = "ip6" -> MakeupIp6(i, t)
  BY <1>1, <1>3 DEF MakeupField
<1>8. /\ a.kind = "mac" => MakeupField(i, a) = MakeupEther(i, t)
      /\ a.kind = "int" => MakeupField(i, a) = MakeupInteger(i, t)
      /\ a.kind = "ip4" => MakeupField(i, a) = MakeupIp4(i, t)
      /\ a.kind = "ip6" => MakeupField(i, a) = MakeupIp6(i, t)
  BY <1>7
<1>9. StepOfPort(t) \in Nat /\ StepOfPort(t) = StepOfPort(a)
  BY <1>1, PortStepIs DEF StepOfPort
<1>10. /\ a.kind = "mac" => MakeupField(i, a) = Changed(t, Nth(a, k), StepOfPort(t))
       /\ a.kind = "ip4" => MakeupField(i, a) = Changed(t, Nth(a, k), t.step)
       /\ a.kind = "ip6" => MakeupField(i, a) = Changed(t, Nth(a, k), StepOfPort(t))
  <2>1. CASE i = 0
    <3>1. t.addr = Nth(a, k)
      BY <1>1, <1>2, <1>6, <2>1
    <3> QED
      BY <1>8, <1>9, <2>1, <3>1 DEF MakeupEther, MakeupIp4, MakeupIp6
  <2>2. CASE i # 0
    <3>1. Turn(i, t) = k
      BY <1>2, <2>2
    <3>2. a.kind = "mac" => FirstMac(i, t) = Nth(a, k)
      BY <1>3, <1>4, <3>1 DEF FirstMac, Last
    <3>3. a.kind = "ip4" => FirstIp4(i, t) = Nth(a, k)
      BY <1>3, <1>4, <3>1 DEF FirstIp4, Last
    <3>4. a.kind = "ip6" => FirstIp6(i, t) = Nth(a, k)
      BY <1>3, <1>4, <3>1 DEF FirstIp6, Last
    <3> QED
      BY <1>8, <1>9, <2>2, <3>2, <3>3, <3>4 DEF MakeupEther, MakeupIp4, MakeupIp6
  <2> QED
    BY <2>1, <2>2
<1>11. a.kind = "int" =>
         MakeupField(i, a) = Changed(t, a.addr + k * Signed(a), StepOfPort(t))
  <2> SUFFICES ASSUME a.kind = "int"
               PROVE  MakeupField(i, a) = Changed(t, a.addr + k * Signed(a), StepOfPort(t))
    OBVIOUS
  <2>1. Turn(i, t) = k
    BY <1>2
  <2>2. (IF Down(t) THEN -t.step ELSE t.step) = Signed(a)
    BY <1>1, <1>3 DEF Signed, StepOf
  <2>3. FirstInteger(i, t) = t.addr + Signed(a) * k
    BY <2>1, <2>2 DEF FirstInteger
  <2>4. Signed(a) * k = k * Signed(a)
    BY FieldIs
  <2> QED
    BY <1>1, <1>8, <1>9, <2>3, <2>4 DEF MakeupInteger
<1>12. a.kind \in {"mac", "int", "ip4", "ip6"}
  BY FieldIs DEF Field, Kinds
<1>13. PICK first, step :
         /\ step \in Nat
         /\ MakeupField(i, a) = Changed(t, first, step)
         /\ step = IF a.kind = "ip4" THEN t.step ELSE StepOfPort(t)
         /\ first = IF a.kind = "int" THEN a.addr + k * Signed(a) ELSE Nth(a, k)
  BY <1>1, <1>9, <1>10, <1>11, <1>12, FieldIs
<1>14. LET u == Changed(t, first, step)
       IN /\ Alike(t, u) /\ u.addr = first /\ u.step = step
          /\ u.repeat = t.repeat /\ u.mode = ModeLeft(t)
          /\ first \in Nat => u \in Field
  BY <1>13, ChangedIs
<1> QED
  BY <1>1, <1>2, <1>5, <1>9, <1>13, <1>14 DEF Alike

(* A field that does not change is the same on all ports. *)
LEMMA FixedStays ==
  ASSUME NEW a \in Field, NEW i \in Ports, a.mode = "fixed"
  PROVE  MakeupField(i, a) = a
<1>1. PICK t : t = OneAtLeast(i, a) /\ t.mode = "fixed"
  BY OneIs
<1> QED
  BY <1>1 DEF MakeupField

(* The registers of a field. *)
LEMMA ProgrammedIs ==
  ASSUME NEW j, NEW tuple, tuple.kind = "ip4" => tuple \in Field
  PROVE  /\ Programmed(j, tuple).start = tuple.addr % Max
         /\ Programmed(j, tuple).step = tuple.step % Power[StepBits]
         /\ Programmed(j, tuple).mode = tuple.mode
         /\ Repeats(tuple) /\ (tuple.kind = "ip4" /\ tuple.prefix = 0 => tuple.part = "host") =>
              Programmed(j, tuple).last = IF link40G THEN Last40G(tuple, j)
                                          ELSE Last(tuple, tuple.step, tuple.repeat)
<1>1. PICK t : t = IF tuple.kind = "ip4" /\ tuple.prefix = 0 THEN [tuple EXCEPT !.part = "host"]
                                                            ELSE tuple
  OBVIOUS
<1>2. t.addr = tuple.addr /\ t.step = tuple.step /\ t.mode = tuple.mode
      /\ (tuple.kind = "ip4" /\ tuple.prefix = 0 /\ tuple.part = "host" => t = tuple)
  <2>1. CASE tuple.kind = "ip4" /\ tuple.prefix = 0
    <3>1. tuple \in Field /\ t = [tuple EXCEPT !.part = "host"]
      BY <1>1, <2>1
    <3> QED
      BY <3>1 DEF Field
  <2>2. CASE ~(tuple.kind = "ip4" /\ tuple.prefix = 0)
    BY <1>1, <2>2
  <2> QED
    BY <2>1, <2>2
<1>3. /\ Programmed(j, tuple).start = t.addr % Max
      /\ Programmed(j, tuple).step = t.step % Power[StepBits]
      /\ Programmed(j, tuple).mode = t.mode
      /\ Programmed(j, tuple).last = IF ~Repeats(t) THEN NoLast(t)
               ELSE IF link40G THEN Last40G(t, j) ELSE Last(t, t.step, t.repeat)
  BY <1>1 DEF Programmed
<1>4. Repeats(t) <=> Repeats(tuple)
  BY <1>2 DEF Repeats
<1>5. ~(tuple.kind = "ip4" /\ tuple.prefix = 0) => t = tuple
  BY <1>1
<1> QED
  BY <1>2, <1>3, <1>4, <1>5

(* Value number k of an integer is not cut to its width before it is       *)
(* programmed.                                                             *)
LEMMA NumericNth ==
  ASSUME NEW a, FieldOK(a), Numeric(a), NEW k \in Int
  PROVE  Nth(a, k) = (a.addr + k * Signed(a)) % Max
<1>1. a \in Field /\ a.addr < Max
  BY FieldIs
<1>2. /\ Size(a) = Max /\ PartOf(a, a.addr) = a.addr /\ \A v : WithPart(a, v) = v
  <2>1. WithPart(a, PartOf(a, a.addr)) = a.addr
    BY <1>1, PartIs
  <2> QED
    BY <1>1, <2>1, Layouts
<1> QED
  BY <1>2, NthIs DEF Walk

(* Requests are as the assumptions say. *)
LEMMA AskedIs == SplitInv => /\ FieldOK(asked)
                             /\ asked.mode \in {"fixed", "inc", "dec", "continc", "contdec"}
<1>1. SplitInv => request.field \in Field /\ request.field.addr < Max
                  /\ request.field.step < IntMax /\ request.field.repeat < IntMax
                  /\ (request.field.kind = "ip6" => IntBits <= Width)
  BY SplitAssumption DEF SplitInv, RequestOK
<1> QED
  BY <1>1 DEF FieldOK, asked, Field, Modes

(* The records and registers of a 40G stream that is programmed. *)
LEMMA SplitIs ==
  ASSUME SplitInv, Split, NEW i \in Ports
  PROVE  field[i] = MakeupField(i, asked) /\ regs[i] = Programmed(i, MakeupField(i, asked))
<1>1. field[i] = MakeupField(i, asked)
  BY DEF SplitInv, CopiesOK, Split, Changing
<1> QED
  BY <1>1 DEF SplitInv, RegistersOK, Split

(* Where a port starts. *)
LEMMA StartIs ==
  ASSUME SplitInv, Split, NEW i \in Ports, asked.mode # "fixed", ShiftsDefined(asked),
         Limited(asked) => Place(i, asked) + 1 <= Period(asked)
  PROVE  regs[i].start = Nth(asked, Place(i, asked))
<1> PICK a : a = asked /\ FieldOK(a)
  BY AskedIs
<1>1. a \in Field /\ a.addr \in Nat /\ a.addr < Max /\ Signed(a) \in Int
  BY FieldIs
<1> PICK k \in 0 .. 3 : k = Place(i, a)
  BY <1>1, PlaceIs
<1>2. PICK u : u = MakeupField(i, a)
  OBVIOUS
<1>3. /\ Alike(a, u)
      /\ a.kind = "int" => u.addr = a.addr + k * Signed(a)
      /\ a.kind # "int" => u.addr = Nth(a, k) /\ u \in Field
  BY <1>2, MadeUp
<1>4. regs[i].start = u.addr % Max
  <2>1. u.kind = "ip4" => u \in Field
    BY <1>3 DEF Alike
  <2> QED
    BY <1>2, <2>1, SplitIs, ProgrammedIs
<1>5. CASE a.kind = "int"
  <2>1. Numeric(a)
    BY <1>5 DEF Numeric
  <2> QED
    BY <1>3, <1>4, <1>5, <2>1, NumericNth
<1>6. CASE a.kind # "int"
  <2>1. Nth(a, k) \in Nat /\ Nth(a, k) < Max
    BY <1>1, NthIs, WithPartIs
  <2>2. Max \in Nat \ {0}
    BY <1>1, SizeType
  <2>3. Nth(a, k) % Max = Nth(a, k)
    BY <2>1, <2>2, ModSmall
  <2> QED
    BY <1>3, <1>4, <1>6, <2>3
<1> QED
  BY <1>5, <1>6

(* A field that does not change starts where it was asked to. *)
LEMMA FixedStart ==
  ASSUME SplitInv, Split, NEW i \in Ports, asked.mode = "fixed"
  PROVE  regs[i].start = asked.addr /\ regs[i].mode = "fixed"
<1>1. asked \in Field /\ asked.addr \in Nat /\ asked.addr < Max /\ Max \in Nat \ {0}
  BY AskedIs, FieldIs, SizeType
<1>2. regs[i] = Programmed(i, asked)
  BY <1>1, SplitIs, FixedStays
<1>3. asked.addr % Max = asked.addr
  BY <1>1, ModSmall
<1> QED
  BY <1>1, <1>2, <1>3, ProgrammedIs

(* Port i starts with the value of frame i: for every width of a field and *)
(* of an integer, every address, step, repeat count and mode, and every    *)
(* prefix with at least four values whose shifts are defined.              *)
THEOREM PortsStartInTurn == Spec => []StartsInTurn
<1>1. SplitInv => StartsInTurn
  <2> SUFFICES ASSUME SplitInv, Split, ShiftsDefined(asked), Distinct(asked) >= NPorts,
                      NEW i \in Ports
               PROVE  regs[i].start = Value(asked, i)
    BY DEF StartsInTurn
  <2>1. FieldOK(asked) /\ asked \in Field
    BY AskedIs, FieldIs
  <2>2. CASE asked.mode = "fixed"
    <3>1. Value(asked, i) = asked.addr
      BY <2>2 DEF Value
    <3> QED
      BY <2>2, <3>1, FixedStart
  <2>3. CASE asked.mode # "fixed"
    <3>1. Period(asked) \in Nat /\ Period(asked) >= 4
      BY <2>1, DistinctIs, PeriodRecurs DEF NPorts
    <3>2. Place(i, asked) \in 0 .. 3 /\ Value(asked, i) = Nth(asked, Place(i, asked))
      BY <2>1, <2>3, PlaceIs
    <3>3. Place(i, asked) + 1 <= Period(asked)
      BY <3>1, <3>2
    <3> QED
      BY <2>3, <3>2, <3>3, StartIs
  <2> QED
    BY <2>2, <2>3
<1> QED
  BY <1>1, SplitInvariant, PTL

-----------------------------------------------------------------------------
(* The step of a port *)

(* A walk that goes on from one of its values. *)
LEMMA WalkOn ==
  ASSUME NEW a, FieldOK(a), NEW i \in Int, NEW n \in Int
  PROVE  (Walk(a, i) + n * Signed(a)) % Size(a) = Walk(a, i + n)
<1>1. PICK c \in Int, e \in Int, m \in Nat \ {0} :
        c = PartOf(a, a.addr) /\ e = Signed(a) /\ m = Size(a)
  BY FieldIs
<1>2. PICK x \in Int, y \in Int, z \in Int :
        x = i * e /\ y = n * e /\ z = (i + n) * e /\ z = x + y
  <2>1. (i + n) * e = i * e + n * e /\ i * e \in Int /\ n * e \in Int
    OBVIOUS
  <2> QED
    BY <2>1
<1>3. PICK w \in Int : w = c + x /\ w + y = c + z
  BY <1>2
<1>4. ((w % m) + y) % m = (w + y) % m
  BY ModSum
<1> QED
  BY <1>1, <1>2, <1>3, <1>4 DEF Walk

(* The part of a value is the walk that led to it. *)
LEMMA PartOfWalk ==
  ASSUME NEW a, FieldOK(a), NEW u \in Field, Alike(a, u), NEW i \in Int, u.addr = Nth(a, i)
  PROVE  PartOf(u, u.addr) = Walk(a, i) /\ \A v \in Nat : WithPart(u, v) = WithPart(a, v)
<1>1. a \in Field /\ a.addr < Max
  BY FieldIs
<1>2. PICK w \in Nat : w = Walk(a, i) /\ w < Size(a) /\ u.addr = WithPart(a, w)
  BY NthIs
<1>3. PartOf(a, WithPart(a, w)) = w
  BY <1>1, <1>2, WithPartIs
<1>4. PartOf(u, u.addr) = w
  BY <1>1, <1>2, <1>3, AlikeIs
<1>5. \A v \in Nat : WithPart(u, v) = WithPart(a, v)
  BY <1>1, <1>2, WithPartAlike
<1> QED
  BY <1>2, <1>4, <1>5

(* The mode that is left, whatever the addresses. *)
LEMMA MadeUpMode ==
  ASSUME NEW a \in Field, NEW i \in Ports, a.mode # "fixed"
  PROVE  LET u == MakeupField(i, a)
         IN u.mode = ModeLeft(OneAtLeast(i, a)) /\ u.kind = a.kind
<1>1. PICK t \in Field : /\ t = OneAtLeast(i, a) /\ Alike(a, t) /\ t.mode = a.mode
  BY OneIs
<1>2. t.kind = a.kind /\ a.kind \in {"mac", "int", "ip4", "ip6"}
  BY <1>1 DEF Alike, Field, Kinds
<1>3. t.step \in Nat /\ StepOfPort(t) \in Nat
  BY PortStepIs DEF Field
<1>4. \E first, step : step \in Nat /\ MakeupField(i, a) = Changed(t, first, step)
  <2>1. MakeupField(i, a) =
          CASE a.mode = "fixed" -> a
            [] a.mode # "fixed" /\ a.kind = "mac" -> MakeupEther(i, t)
            [] a.mode # "fixed" /\ a.kind = "int" -> MakeupInteger(i, t)
            [] a.mode # "fixed" /\ a.kind = "ip4" -> MakeupIp4(i, t)
            [] a.mode # "fixed" /\ a.kind = "ip6" -> MakeupIp6(i, t)
    BY <1>1, <1>2 DEF MakeupField
  <2>2. MakeupField(i, a) \in {MakeupEther(i, t), MakeupInteger(i, t), MakeupIp4(i, t),
                               MakeupIp6(i, t)}
    BY <1>2, <2>1
  <2> QED
    BY <1>3, <2>2 DEF MakeupEther, MakeupInteger, MakeupIp4, MakeupIp6
<1>5. PICK first, step : step \in Nat /\ MakeupField(i, a) = Changed(t, first, step)
  BY <1>4
<1>6. LET u == Changed(t, first, step) IN Alike(t, u) /\ u.mode = ModeLeft(t)
  BY <1>5, ChangedIs
<1> QED
  BY <1>1, <1>2, <1>5, <1>6 DEF Alike

(* The mode that is left of the one asked for. *)
LEMMA ModeIs ==
  ASSUME SplitInv, Split, NEW i \in Ports, asked.mode # "fixed"
  PROVE  regs[i].mode = ModeLeft(OneAtLeast(i, asked))
<1>1. FieldOK(asked) /\ asked \in Field
  BY AskedIs, FieldIs
<1>2. PICK u : /\ u = MakeupField(i, asked) /\ u.mode = ModeLeft(OneAtLeast(i, asked))
               /\ u.kind = asked.kind
  BY <1>1, MadeUpMode
<1>3. u.kind = "ip4" => u \in Field
  <2> SUFFICES ASSUME asked.kind = "ip4" PROVE u \in Field
    BY <1>2
  <2>1. ~Limited(asked) /\ asked.kind # "int" /\ ShiftsDefined(asked)
    BY DEF Limited, Numeric, ShiftsDefined
  <2> QED
    BY <1>1, <1>2, <2>1, MadeUp
<1> QED
  BY <1>2, <1>3, SplitIs, ProgrammedIs

(* A port with a mode that is left no longer changes.  *)
LEMMA SameFrames ==
  ASSUME NEW a \in Field, NEW i \in Ports,
         a.mode = "fixed" \/ ModeLeft(OneAtLeast(i, a)) = "fixed", NEW n \in Nat
  PROVE  Value(a, i + NPorts * n) = Value(a, i)
<1>1. CASE a.mode = "fixed"
  BY <1>1 DEF Value
<1>2. CASE a.mode # "fixed"
  <2>1. PICK r \in Nat : r = a.repeat
    BY DEF Field
  <2>2. PICK t : /\ t = OneAtLeast(i, a) /\ t.mode = a.mode
                 /\ t.repeat = IF r = 0 /\ (i # 0 \/ a.kind = "int") THEN 1 ELSE r
    BY <2>1, OneIs
  <2>3. ModeLeft(t) = "fixed"
    BY <1>2, <2>2
  <2>4. ~Cont(a) /\ t.repeat <= 4 /\ t.repeat # 3
    BY <1>2, <2>1, <2>2, <2>3 DEF ModeLeft, Cont, NPorts
  <2>5. r \in {0, 1, 2, 4}
    BY <2>1, <2>2, <2>4
  <2>6. i \in Nat /\ NPorts = 4
    BY DEF Ports, NPorts
  <2>7. r # 0 => (i + 4 * n) % r = i % r
    BY <2>5, <2>6
  <2> QED
    BY <1>2, <2>1, <2>4, <2>6, <2>7 DEF Value
<1> QED
  BY <1>1, <1>2

(* The values of a port's own field. *)
LEMMA NextStep ==
  ASSUME NEW a, FieldOK(a), a.kind # "ip4", NEW t \in Field, Alike(a, t), t.mode = a.mode,
         t.step = a.step * 4, NEW i \in Int, t.addr = Nth(a, i)
  PROVE  Nth(t, 1) = Nth(a, i + 4)
<1>1. PICK w \in Int, e \in Int, s \in Int, m \in Nat \ {0} :
        w = Walk(a, i) /\ e = Signed(a) /\ s = a.step /\ m = Size(a)
  <2>1. Signed(a) \in Int /\ a.step \in Int /\ Size(a) \in Nat \ {0}
    BY FieldIs
  <2>2. Walk(a, i) \in Int
    BY NthIs
  <2> QED
    BY <2>1, <2>2
<1>2. /\ PartOf(t, t.addr) = w /\ Size(t) = m
      /\ \A v \in Nat : WithPart(t, v) = WithPart(a, v)
  BY <1>1, PartOfWalk, AlikeIs, FieldIs
<1>3. StepOf(t) = s * 4 /\ Down(t) = Down(a) /\ e = IF Down(a) THEN -s ELSE s
  BY <1>1 DEF StepOf, Alike, Down, Signed
<1>4. Nth(t, 1) = WithPart(a, (IF Down(a) THEN w - 1 * (s * 4) ELSE w + 1 * (s * 4)) % m)
  <2>1. (IF Down(a) THEN w - 1 * (s * 4) ELSE w + 1 * (s * 4)) % m \in Nat
    OBVIOUS
  <2> QED
    BY <1>2, <1>3, <2>1 DEF Nth
<1>5. (IF Down(a) THEN w - 1 * (s * 4) ELSE w + 1 * (s * 4)) = w + 4 * e
  BY <1>3
<1>6. (w + 4 * e) % m = Walk(a, i + 4)
  <2>1. PICK n \in Int : n = 4
    OBVIOUS
  <2>2. (Walk(a, i) + n * Signed(a)) % Size(a) = Walk(a, i + n)
    BY WalkOn
  <2> QED
    BY <1>1, <2>1, <2>2, Zenon
<1>7. i + 4 \in Int
  OBVIOUS
<1> QED
  BY <1>4, <1>5, <1>6, <1>7, NthIs

(* A port that goes on changing comes to the value of frame i + 4 with its *)
(* first step, and one that no longer changes has one value to send: for   *)
(* every width, address, repeat count and mode, every step that its        *)
(* register holds four times and every prefix whose shifts are defined.    *)
THEOREM PortsStepInTurn == Spec => []StepsInTurn
<1>1. SplitInv => StepsInTurn
  <2> SUFFICES
        ASSUME SplitInv, Split, NEW i \in Ports
        PROVE  LET t == [asked EXCEPT !.addr = regs[i].start, !.step = regs[i].step,
                                      !.mode = regs[i].mode]
               IN IF regs[i].mode = "fixed"
                  THEN \A n \in 0 .. 2 * Max : Value(asked, i + NPorts * n) = Value(asked, i)
                  ELSE /\ asked.kind # "ip4" /\ asked.step * NPorts < Power[StepBits]
                       /\ ShiftsDefined(asked) /\ Distinct(asked) >= NPorts
                       /\ Repeats(asked) => i + NPorts < asked.repeat
                       => Nth(t, 1) = Value(asked, i + NPorts)
    BY DEF StepsInTurn
  <2> PICK a : a = asked /\ FieldOK(a)
    BY AskedIs
  <2>1. /\ a \in Field /\ a.addr \in Nat /\ a.addr < Max /\ a.step \in Nat
        /\ a.mode \in Modes /\ NPorts = 4
    BY FieldIs DEF Field, NPorts
  <2>2. ASSUME regs[i].mode = "fixed", NEW n \in 0 .. 2 * Max
        PROVE  Value(a, i + NPorts * n) = Value(a, i)
    <3>1. n \in Nat
      OBVIOUS
    <3>2. a.mode = "fixed" \/ ModeLeft(OneAtLeast(i, a)) = "fixed"
      BY <2>2, ModeIs
    <3> QED
      BY <2>1, <3>1, <3>2, SameFrames
  <2>3. ASSUME regs[i].mode # "fixed", a.kind # "ip4", a.step * NPorts < Power[StepBits],
               ShiftsDefined(a), Distinct(a) >= NPorts, Repeats(a) => i + NPorts < a.repeat
        PROVE  Nth([a EXCEPT !.addr = regs[i].start, !.step = regs[i].step,
                             !.mode = regs[i].mode], 1) = Value(a, i + NPorts)
    <3>1. a.mode # "fixed"
      BY <2>3, FixedStart
    <3>2. Period(a) \in Nat /\ Period(a) >= 4
      BY <2>3, DistinctIs, PeriodRecurs DEF NPorts
    <3>3. i \in 0 .. 3 /\ i \in Int
      BY DEF Ports, NPorts
    <3>4. Place(i, a) = i /\ Value(a, i + 4) = Nth(a, i + 4)
      <4>1. CASE Cont(a)
        BY <3>1, <4>1 DEF Place, Value
      <4>2. CASE ~Cont(a)
        <5>1. Repeats(a)
          BY <2>1, <3>1, <4>2 DEF Modes, Repeats, Cont
        <5>2. PICK r \in Nat : r = a.repeat /\ i + 4 < r
          BY <2>1, <2>3, <5>1 DEF Field
        <5>3. Smaller(r, 4) = 4 /\ i % 4 = i
          BY <3>3, <5>2 DEF Smaller
        <5>4. (i + 4) % r = i + 4
          BY <3>3, <5>2, ModSmall
        <5>5. Place(i, a) = i % Smaller(r, 4)
          BY <2>1, <3>3, <4>2, <5>2 DEF Place
        <5>6. Value(a, i + 4) = Nth(a, (i + 4) % r)
          BY <3>1, <3>3, <4>2, <5>2 DEF Value
        <5> QED
          BY <5>3, <5>4, <5>5, <5>6
      <4> QED
        BY <4>1, <4>2
    <3>5. regs[i].start = Nth(a, i)
      BY <2>3, <3>1, <3>2, <3>3, <3>4, StartIs
    <3>6. regs[i].mode = a.mode
      <4>1. OneAtLeast(i, a).mode = a.mode
        BY <2>1, OneIs
      <4> QED
        BY <2>3, <3>1, <4>1, ModeIs DEF ModeLeft
    <3>7. regs[i].step = a.step * 4
      <4>0. PICK b \in Nat, p \in Nat : /\ b = a.step * 4 /\ p = Power[StepBits] /\ b < p
        BY <2>1, <2>3, PowerType, SplitAssumption
      <4>1. PICK u : /\ u = MakeupField(i, a) /\ Alike(a, u) /\ u.step = a.step * 4
        <5>1. b < IntMax /\ IntMax \in Nat \ {0}
          BY <4>0, IntMaxIs
        <5>2. StepOfPort(a) = a.step * 4
          BY <2>1, <4>0, <5>1, ModSmall DEF StepOfPort
        <5> QED
          BY <2>3, <3>1, <3>2, <3>3, <3>4, <5>2, MadeUp
      <4>2. u.kind # "ip4"
        BY <2>3, <4>1 DEF Alike
      <4>3. regs[i].step = (a.step * 4) % Power[StepBits]
        BY <4>1, <4>2, SplitIs, ProgrammedIs
      <4>4. Power[StepBits] \in Nat \ {0}
        BY PowerType, SplitAssumption
      <4> QED
        BY <2>1, <2>3, <4>3, <4>4, ModSmall
    <3>8. PICK x \in Nat, s \in Nat, m \in Modes :
            x = Nth(a, i) /\ s = a.step * 4 /\ m = a.mode
      BY <2>1, <3>3, NthIs, WithPartIs
    <3>9. PICK t : t = [a EXCEPT !.addr = x, !.step = s, !.mode = m]
      OBVIOUS
    <3>10. t \in Field /\ Alike(a, t) /\ t.addr = x /\ t.step = s /\ t.mode = m
      BY <2>1, <3>9 DEF Field, Alike
    <3>11. Nth(t, 1) = Nth(a, i + 4)
      BY <2>3, <3>3, <3>8, <3>10, NextStep
    <3> QED
      BY <2>1, <3>4, <3>5, <3>6, <3>7, <3>8, <3>9, <3>11
  <2> QED
    BY <2>2, <2>3
<1> QED
  BY <1>1, SplitInvariant, PTL

-----------------------------------------------------------------------------
(* The end of a port *)

(* The fields whose repeat count is limited to the values there are. *)
LEMMA LimitedIs ==
  ASSUME NEW t \in Field
  PROVE  Limited(t) <=> ~(t.kind = "ip4" \/ NetPart(t))
<1>1. t.kind \in {"mac", "int", "ip4", "ip6"} /\ t.part \in {"host", "net"}
  BY DEF Field, Kinds
<1> QED
  BY <1>1 DEF Limited, Numeric, HostPart, NetPart

(* A stream that is not split ends with the last value there is. *)
LEMMA WholeEnd ==
  ASSUME NEW a, FieldOK(a), ShiftsDefined(a), a.repeat > 0
  PROVE  Last(a, a.step, a.repeat) =
           Nth(a, IF a.kind = "ip4" \/ NetPart(a) THEN a.repeat - 1
                  ELSE Smaller(a.repeat, Distinct(a)) - 1)
<1>1. a \in Field /\ Fits(a) /\ a.step \in Nat /\ a.step < IntMax
  BY FieldIs DEF FieldOK, Fits
<1>2. PICK n \in Nat \ {0} : n = a.repeat
  BY FieldIs
<1>3. CASE ~Limited(a)
  <2>1. Last(a, a.step, n) = Nth(a, n - 1)
    BY <1>3, LastAt
  <2> QED
    BY <1>1, <1>2, <1>3, <2>1, LimitedIs
<1>4. CASE Limited(a)
  <2>1. StepOf(a) = a.step
    BY <1>4 DEF Limited, StepOf, Numeric
  <2>2. Stride(a, a.step) = Signed(a)
    BY DEF Stride, Signed, StepOf
  <2>3. PICK r \in Int : r = Smaller(n, Period(a)) /\ Reach(a, a.step, n) = r
    <3>1. Reach(a, a.step, n) = Smaller(n, Period(a))
      BY <1>4, <2>1 DEF Reach, Period
    <3>2. Period(a) \in Nat
      BY PeriodRecurs
    <3>3. Smaller(n, Period(a)) \in Int
      BY <3>2 DEF Smaller
    <3> QED
      BY <3>1, <3>3
  <2>4. Last(a, a.step, n) = WithPart(a, Walk(a, r - 1))
    BY <1>1, <2>2, <2>3, LastIs DEF Walk
  <2>5. PICK p \in Int : p = r - 1
    OBVIOUS
  <2>6. Last(a, a.step, n) = Nth(a, p)
    BY <2>4, <2>5, NthIs
  <2>7. PICK d \in Nat \ {0} : d = Distinct(a) /\ d = IF Once(a) THEN 1 ELSE Period(a)
    BY DistinctIs
  <2>8. PICK q \in Int : q = Smaller(n, d) - 1
    BY DEF Smaller
  <2>9. Nth(a, p) = Nth(a, q)
    <3>1. CASE Once(a)
      BY <3>1, NthRecurs
    <3>2. CASE ~Once(a)
      BY <2>3, <2>5, <2>7, <2>8, <3>2
    <3> QED
      BY <3>1, <3>2
  <2> QED
    BY <1>1, <1>2, <1>4, <2>6, <2>7, <2>8, <2>9, LimitedIs
<1> QED
  BY <1>3, <1>4

(* The last of left values from number k on. *)
LEMMA RestEnd ==
  ASSUME NEW a, FieldOK(a), ShiftsDefined(a), a.kind # "int",
         NEW u \in Field, Alike(a, u), u.mode = a.mode,
         NEW k \in Nat, u.addr = Nth(a, k), NEW left \in Nat \ {0},
         Limited(a) => left <= Period(a),
         NEW s \in Nat, s < IntMax, a.kind # "ip4" => s = a.step
  PROVE  Last(u, s, left) = Nth(a, k + left - 1)
<1>1. a \in Field /\ a.addr < Max /\ k \in Int
  BY FieldIs
<1>2. u.addr < Max
  BY <1>1, NthIs, WithPartIs
<1>3. Last(u, s, left) =
        WithPart(u, (PartOf(u, u.addr) + (Reach(u, s, left) - 1) * Stride(u, s)) % Size(u))
  BY <1>2, FitsIs, LastIs
<1>4. /\ PartOf(u, u.addr) = Walk(a, k) /\ \A v \in Nat : WithPart(u, v) = WithPart(a, v)
  BY <1>1, PartOfWalk
<1>5. Size(u) = Size(a) /\ (Limited(u) <=> Limited(a)) /\ u.kind = a.kind
  BY <1>1, AlikeIs DEF Alike, Limited
<1>6. Stride(u, s) = Signed(a)
  BY <1>5 DEF Stride, Signed, StepOf, Down
<1>7. Reach(u, s, left) = left
  <2>1. CASE Limited(a)
    <3>1. StepOf(a) = s
      BY <2>1 DEF Limited, StepOf, Numeric
    <3>2. Reach(u, s, left) = Smaller(left, Period(a))
      BY <1>5, <2>1, <3>1 DEF Reach, Period
    <3>3. Period(a) \in Nat /\ left <= Period(a)
      BY <2>1, PeriodRecurs
    <3> QED
      BY <3>2, <3>3 DEF Smaller
  <2>2. CASE ~Limited(a)
    BY <1>5, <2>2 DEF Reach
  <2> QED
    BY <2>1, <2>2
<1>8. PICK n \in Int, j \in Int : n = left - 1 /\ j = k + n /\ j = k + left - 1
  OBVIOUS
<1>9. (Walk(a, k) + n * Signed(a)) % Size(a) = Walk(a, k + n)
  BY <1>1, WalkOn
<1>10. Last(u, s, left) = WithPart(a, Walk(a, j))
  <2>1. Walk(a, j) \in Nat
    BY <1>8, NthIs
  <2> QED
    BY <1>3, <1>4, <1>5, <1>6, <1>7, <1>8, <1>9, <2>1
<1> QED
  BY <1>8, <1>10, NthIs

(* Integers, whose start is not cut to its width. *)
LEMMA IntegerEnd ==
  ASSUME NEW a, FieldOK(a), a.kind = "int", NEW u, Alike(a, u), u.mode = a.mode,
         NEW k \in Nat, u.addr = a.addr + k * Signed(a), NEW left \in Nat \ {0},
         left <= Period(a)
  PROVE  Last(u, a.step, left) = Nth(a, k + left - 1)
<1>1. a \in Field /\ a.addr \in Nat /\ a.step \in Nat /\ Max \in Nat \ {0} /\ Signed(a) \in Int
  BY FieldIs, SizeType
<1>2. PICK b \in Int, s \in Nat, e \in Int, m \in Nat \ {0} :
        b = a.addr /\ s = a.step /\ e = Signed(a) /\ m = Max
  BY <1>1
<1>3. Numeric(a) /\ StepOf(a) = s /\ Size(a) = m /\ u.kind = "int"
  <2>1. Numeric(a)
    BY DEF Numeric
  <2> QED
    BY <1>1, <1>2, <2>1, Layouts DEF Alike, StepOf
<1>4. Down(u) = Down(a) /\ Down(a) \in BOOLEAN /\ e = IF Down(a) THEN -s ELSE s
  BY <1>2, <1>3 DEF Down, Signed
<1>5. Smaller(left, m \div LowestBit(s)) = left
  <2>1. m \div LowestBit(s) = Period(a)
    BY <1>3 DEF Period
  <2>2. Period(a) \in Nat
    BY PeriodRecurs
  <2> QED
    BY <2>1, <2>2 DEF Smaller
<1>6. PICK x \in Int : x = b + k * e
  OBVIOUS
<1>7. Last(u, s, left) = End(x, s, left, Down(a), m)
  BY <1>2, <1>3, <1>4, <1>6 DEF Last, LastInteger
<1>8. End(x, s, left, Down(a), m) = (x + (left - 1) * e) % m
  <2>1. PICK down \in BOOLEAN : down = Down(a)
    BY <1>4
  <2>2. Smaller(left, m \div LowestBit(s)) \in Int
    BY <1>5
  <2>3. End(x, s, left, down, m) =
          (x + (Smaller(left, m \div LowestBit(s)) - 1) * (IF down THEN -s ELSE s)) % m
    BY <2>2, EndIs
  <2> QED
    BY <1>4, <1>5, <2>1, <2>3
<1>9. x + (left - 1) * e = b + (k + left - 1) * e
  <2>1. PICK n \in Int : n = left - 1
    OBVIOUS
  <2>2. (k + n) * e = k * e + n * e /\ k * e \in Int /\ n * e \in Int
    OBVIOUS
  <2>3. k + left - 1 = k + n
    BY <2>1
  <2> QED
    BY <1>6, <2>1, <2>2, <2>3
<1>10. PICK j \in Int : j = k + left - 1
  OBVIOUS
<1>11. Nth(a, j) = (b + j * e) % m
  BY <1>2, <1>3, NumericNth
<1> QED
  BY <1>2, <1>7, <1>8, <1>9, <1>10, <1>11

(* Every port of a 40G stream ends with the last value of the whole. *)
LEMMA SplitEnd ==
  ASSUME SplitInv, Split, NEW i \in Ports, asked.repeat > 0,
         asked.part = "net" => asked.prefix > 0, ShiftsDefined(asked),
         link40G, asked.step * NPorts < IntMax,
         asked.repeat <= Distinct(asked), Repeats(asked), Repeats(regs[i])
  PROVE  regs[i].last = Nth(asked, asked.repeat - 1)
<1>1. PICK a : a = asked /\ FieldOK(a)
  BY AskedIs
<1>2. /\ a \in Field /\ a.addr \in Nat /\ a.addr < Max /\ a.step \in Nat /\ a.step < IntMax
      /\ IntMax \in Nat \ {0} /\ a.repeat < IntMax /\ a.part \in {"host", "net"} /\ NPorts = 4 /\ Signed(a) \in Int
  BY <1>1, FieldIs, IntMaxIs DEF FieldOK, Field, NPorts
<1>3. PICK n \in Nat \ {0} : n = a.repeat
  BY <1>1, FieldIs
<1>4. a.mode # "fixed" /\ ~Cont(a)
  BY <1>1 DEF Repeats, Cont
<1>5. PICK t : t = OneAtLeast(i, a) /\ t.mode = a.mode /\ t.repeat = n
  BY <1>2, <1>3, OneIs
<1>6. regs[i].mode = ModeLeft(t)
  BY <1>1, <1>4, <1>5, ModeIs
<1>7. (n > 4 \/ n = 3) /\ ModeLeft(t) = a.mode
  BY <1>2, <1>4, <1>5, <1>6 DEF ModeLeft, Repeats, Cont
<1>8. ~Once(a) /\ Period(a) \in Nat /\ n <= Period(a)
  BY <1>1, <1>3, <1>7, DistinctIs, PeriodRecurs
<1>9. i \in 0 .. 3
  BY DEF Ports, NPorts
<1>10. PICK k \in 0 .. 3, left \in Nat \ {0} :
         /\ k = Place(i, a) /\ left = (IF n - i = 0 THEN 3 ELSE n - i)
         /\ k + left = n
  <2>1. Place(i, a) = i % Smaller(n, 4)
    BY <1>2, <1>3, <1>4 DEF Place
  <2>2. CASE n = 3
    BY <1>9, <2>1, <2>2 DEF Smaller
  <2>3. CASE n > 4
    <3>1. Smaller(n, 4) = 4 /\ i % 4 = i
      BY <1>9, <2>3 DEF Smaller
    <3> QED
      BY <1>9, <2>1, <2>3, <3>1
  <2> QED
    BY <1>7, <2>2, <2>3
<1>11. k + 1 <= Period(a) /\ left <= Period(a) /\ k \in Nat /\ k + left - 1 = n - 1
  BY <1>8, <1>10
<1>12. PICK u : /\ u = MakeupField(i, a) /\ Alike(a, u) /\ u.mode = a.mode /\ u.repeat = n
                /\ u.step = (IF a.kind = "ip4" THEN a.step ELSE StepOfPort(a))
                /\ a.kind = "int" => u.addr = a.addr + k * Signed(a)
                /\ a.kind # "int" => u.addr = Nth(a, k) /\ u \in Field
  BY <1>1, <1>4, <1>5, <1>7, <1>10, <1>11, MadeUp
<1>13. PICK s \in Nat : /\ s = u.step \div 4 /\ s < IntMax
                        /\ a.kind # "ip4" => s = a.step
  <2>1. PICK x \in Nat : x = a.step /\ x < IntMax
    BY <1>2
  <2>2. StepOfPort(a) = x * 4
    <3>1. PICK y \in Nat : y = x * 4 /\ y < IntMax
      BY <1>1, <1>2, <2>1
    <3>2. y % IntMax = y
      BY <1>2, <3>1, ModSmall
    <3> QED
      BY <1>2, <2>1, <3>1, <3>2 DEF StepOfPort
  <2>3. x \div 4 \in Nat /\ x \div 4 <= x /\ (x * 4) \div 4 = x
    OBVIOUS
  <2>4. x \div 4 < IntMax
    BY <1>2, <2>1, <2>3
  <2> QED
    BY <1>12, <2>1, <2>2, <2>3, <2>4
<1>14. regs[i].last = Last(u, s, left)
  <2>1. u.kind = "ip4" => u \in Field
    BY <1>12 DEF Alike
  <2>2. Repeats(u) /\ (u.kind = "ip4" /\ u.prefix = 0 => u.part = "host")
    BY <1>1, <1>2, <1>12 DEF Alike, Repeats
  <2>3. regs[i].last = Last40G(u, i)
    BY <1>1, <1>12, <2>1, <2>2, SplitIs, ProgrammedIs DEF Split
  <2>4. (n - i) % IntMax = n - i
    <3>1. PICK d \in Nat : d = n - i /\ d < IntMax
      BY <1>2, <1>3, <1>7, <1>9
    <3> QED
      BY <1>2, <3>1, ModSmall
  <2>5. Last40G(u, i) = Last(u, s, left)
    BY <1>2, <1>10, <1>12, <1>13, <2>4 DEF Last40G
  <2> QED
    BY <2>3, <2>5
<1>15. CASE a.kind = "int"
  <2>1. s = a.step
    BY <1>13, <1>15
  <2> QED
    BY <1>1, <1>3, <1>11, <1>12, <1>14, <1>15, <2>1, IntegerEnd
<1>16. CASE a.kind # "int"
  BY <1>1, <1>3, <1>11, <1>12, <1>13, <1>14, <1>16, RestEnd
<1> QED
  BY <1>15, <1>16

(* A field that does not go on for ever ends with the last of the values   *)
(* there are, on a card that is not a 40G one, and all ports of a split    *)
(* stream with the last of the whole, on a 40G card: for every width of a  *)
(* field and of an integer, every address and repeat count, every step     *)
(* that holds four times and every prefix whose shifts are defined.        *)
THEOREM PortsEndTogether == Spec => []EndsTogether
<1>1. SplitInv => EndsTogether
  <2> SUFFICES ASSUME SplitInv, Repeats(asked), asked.repeat > 0,
                      ShiftsDefined(asked), asked.part = "net" => asked.prefix > 0,
                      NEW i \in Ports
               PROVE  /\ Whole(i) /\ ~link40G =>
                           regs[i].last = Nth(asked, IF asked.kind = "ip4" \/ NetPart(asked)
                                     THEN asked.repeat - 1
                                     ELSE Smaller(asked.repeat, Distinct(asked)) - 1)
                      /\ Split /\ link40G /\ asked.step * NPorts < IntMax
                         /\ asked.repeat <= Distinct(asked) /\ Repeats(regs[i]) =>
                           regs[i].last = Nth(asked, asked.repeat - 1)
    BY DEF EndsTogether
  <2>1. FieldOK(asked) /\ asked \in Field /\ asked.part \in {"host", "net"}
    BY AskedIs, FieldIs DEF Field
  <2>2. ASSUME Whole(i), ~link40G PROVE regs[i].last = Last(asked, asked.step, asked.repeat)
    <3>1. regs[i] # NoRegs
      BY <2>2 DEF Whole, NoRegs
    <3>2. field[i] = asked
      BY <2>2 DEF Whole, SplitInv, CopiesOK, Changing
    <3>3. regs[i] = Programmed(i, asked)
      BY <3>1, <3>2 DEF SplitInv, RegistersOK
    <3> QED
      BY <2>1, <2>2, <3>3, ProgrammedIs DEF Whole
  <2> QED
    BY <2>1, <2>2, WholeEnd, SplitEnd
<1> QED
  BY <1>1, SplitInvariant, PTL

-----------------------------------------------------------------------------
(* Headers: sets of fields that cover the bytes before their end *)

Names ==
  {"dest", "src", "type", "bytes", "isl", "vlan", "vlan2", "label", "label2", "arp",
   "ip4", "ip4id", "flags", "ttl", "ip4chksum", "ip4sip", "ip4dip", "options",
   "ip6", "ip6sip", "ip6dip", "next", "sport", "dport", "udp", "l4chksum", "tcp", "urgent",
   "tcpoptions", "igmp", "group", "icmp", "data"}
Fields == [name : Names, first : Int, size : Nat]
Headers == [len : Nat, put : SUBSET Fields, tag : Int, l3 : Nat, l4 : Nat]

(* The fields fill the first n bytes, and none reaches beyond. *)
Covers(fields, n) ==
  /\ \A f \in fields : f.first \in Nat /\ f.first + f.size <= n
  /\ \A b \in 0 .. n - 1 : \E f \in fields : f.first <= b /\ b < f.first + f.size

Moved(f, to) == [f EXCEPT !.first = to + @]
AllMoved(fields, to) == {Moved(f, to) : f \in fields}

(* The parts of a field, and the field at another place. *)
LEMMA BytesIs ==
  ASSUME NEW name \in Names, NEW first \in Int, NEW size \in Nat
  PROVE  /\ Bytes(name, first, size) \in Fields
         /\ Bytes(name, first, size).name = name
         /\ Bytes(name, first, size).first = first
         /\ Bytes(name, first, size).size = size
         /\ \A to \in Int : Moved(Bytes(name, first, size), to) = Bytes(name, to + first, size)
<1>1. Bytes(name, first, size) = [name |-> name, first |-> first, size |-> size]
  BY DEF Bytes
<1>2. ASSUME NEW to \in Int
      PROVE  Moved(Bytes(name, first, size), to) = Bytes(name, to + first, size)
  <2>1. PICK x \in Int : x = to + first
    OBVIOUS
  <2>2. Moved(Bytes(name, first, size), to) = [name |-> name, first |-> x, size |-> size]
    BY <2>1 DEF Bytes, Moved
  <2> QED
    BY <2>1, <2>2 DEF Bytes
<1> QED
  BY <1>1, <1>2 DEF Fields

(* A field at another place has its name and its size. *)
LEMMA MovedIs ==
  ASSUME NEW f \in Fields, NEW to \in Int
  PROVE  /\ Moved(f, to) \in Fields /\ Moved(f, to).name = f.name
         /\ Moved(f, to).first = to + f.first /\ Moved(f, to).size = f.size
<1>1. f.first \in Int
  BY DEF Fields
<1>2. PICK x \in Int : x = to + f.first
  BY <1>1
<1>3. Moved(f, to) = [f EXCEPT !.first = x]
  BY <1>2 DEF Moved
<1> QED
  BY <1>2, <1>3 DEF Fields

(* Fields put at a place, over what is there. *)
LEMMA LayIs ==
  ASSUME NEW h \in Headers, NEW to \in Int, NEW fields \in SUBSET Fields
  PROVE  /\ Lay(h, to, fields) \in Headers
         /\ Lay(h, to, fields).len = h.len
         /\ Lay(h, to, fields).tag = h.tag /\ Lay(h, to, fields).l3 = h.l3
         /\ Lay(h, to, fields).l4 = h.l4
         /\ Lay(h, to, fields).put =
              {f \in h.put : \A g \in AllMoved(fields, to) : Apart(f, g)} \cup AllMoved(fields, to)
<1>1. PICK new : new = AllMoved(fields, to)
  OBVIOUS
<1>2. new \in SUBSET Fields
  BY <1>1, MovedIs DEF AllMoved
<1>3. PICK put \in SUBSET Fields : put = {f \in h.put : \A g \in new : Apart(f, g)} \cup new
  BY <1>2 DEF Headers
<1>4. Lay(h, to, fields) = [h EXCEPT !.put = put]
  BY <1>1, <1>3 DEF Lay, AllMoved, Moved
<1> QED
  BY <1>1, <1>3, <1>4 DEF Headers

(* A longer header has the same fields. *)
LEMMA AdvanceIs ==
  ASSUME NEW h \in Headers, NEW n \in Nat
  PROVE  /\ Advance(h, n) \in Headers /\ Advance(h, n).len = h.len + n
         /\ Advance(h, n).put = h.put
         /\ Advance(h, n).tag = h.tag /\ Advance(h, n).l3 = h.l3 /\ Advance(h, n).l4 = h.l4
<1>1. PICK m \in Nat : m = h.len + n
  BY DEF Headers
<1>2. Advance(h, n) = [h EXCEPT !.len = m]
  BY <1>1 DEF Advance
<1> QED
  BY <1>1, <1>2 DEF Headers

(* Fields put at the end of a header that has nothing beyond its end.      *)
LEMMA Appended ==
  ASSUME NEW h \in Headers, Covers(h.put, h.len), NEW fields \in SUBSET Fields,
         \A f \in fields : f.first \in Nat, NEW n \in Nat
  PROVE  LET g == Advance(Lay(h, h.len, fields), n)
         IN /\ g \in Headers /\ g.len = h.len + n
            /\ g.put = h.put \cup AllMoved(fields, h.len)
            /\ g.tag = h.tag /\ g.l3 = h.l3 /\ g.l4 = h.l4
<1>1. PICK len \in Nat : len = h.len
  BY DEF Headers
<1>2. \A f \in h.put : \A g \in AllMoved(fields, len) : Apart(f, g)
  <2> SUFFICES ASSUME NEW f \in h.put, NEW e \in fields PROVE Apart(f, Moved(e, len))
    BY DEF AllMoved
  <2>1. f.first + f.size <= len /\ f.first \in Nat /\ f.size \in Nat /\ e.first \in Nat
    BY <1>1 DEF Covers, Headers, Fields
  <2>2. Moved(e, len).first = len + e.first
    <3>1. len \in Int /\ e \in Fields
      OBVIOUS
    <3> QED
      BY <3>1, MovedIs
  <2> QED
    BY <2>1, <2>2 DEF Apart
<1>3. PICK g0 \in Headers : /\ g0 = Lay(h, len, fields) /\ g0.len = len
                            /\ g0.tag = h.tag /\ g0.l3 = h.l3 /\ g0.l4 = h.l4
                            /\ g0.put = h.put \cup AllMoved(fields, len)
  <2>1. len \in Int
    OBVIOUS
  <2> QED
    BY <1>1, <1>2, <2>1, LayIs
<1>4. PICK g : g = Advance(g0, n)
  OBVIOUS
<1>5. /\ g \in Headers /\ g.len = len + n /\ g.put = g0.put
      /\ g.tag = g0.tag /\ g.l3 = g0.l3 /\ g.l4 = g0.l4
  BY <1>3, <1>4, AdvanceIs
<1>6. g = Advance(Lay(h, h.len, fields), n)
  BY <1>1, <1>3, <1>4
<1> QED
  BY <1>1, <1>3, <1>5, <1>6

(* Covered bytes and covered bytes behind them. *)
LEMMA CoversMore ==
  ASSUME NEW old \in SUBSET Fields, NEW len \in Nat, Covers(old, len),
         NEW fields \in SUBSET Fields, NEW n \in Nat, Covers(fields, n)
  PROVE  Covers(old \cup AllMoved(fields, len), len + n)
<1>1. ASSUME NEW f \in old PROVE f.first \in Nat /\ f.first + f.size <= len + n
  <2>1. f.first \in Nat /\ f.size \in Nat /\ f.first + f.size <= len
    BY DEF Covers, Fields
  <2> QED
    BY <2>1
<1>2. ASSUME NEW e \in fields
      PROVE  /\ Moved(e, len).first \in Nat /\ Moved(e, len).first = len + e.first
             /\ Moved(e, len).size = e.size
             /\ Moved(e, len).first + Moved(e, len).size <= len + n
  <2>1. e.first \in Nat /\ e.size \in Nat /\ e.first + e.size <= n
    BY DEF Covers, Fields
  <2>2. Moved(e, len).first = len + e.first /\ Moved(e, len).size = e.size
    <3>1. len \in Int /\ e \in Fields
      OBVIOUS
    <3> QED
      BY <3>1, MovedIs
  <2> QED
    BY <2>1, <2>2
<1>3. ASSUME NEW b \in 0 .. (len + n) - 1
      PROVE  \E f \in old \cup AllMoved(fields, len) : f.first <= b /\ b < f.first + f.size
  <2>1. CASE b < len
    <3>1. b \in 0 .. len - 1
      BY <2>1
    <3> QED
      BY <3>1 DEF Covers
  <2>2. CASE b >= len
    <3>1. PICK c \in 0 .. n - 1 : c = b - len
      BY <2>2
    <3>2. PICK e \in fields : e.first <= c /\ c < e.first + e.size
      BY DEF Covers
    <3>3. e.first \in Nat /\ e.size \in Nat
      BY DEF Covers, Fields
    <3>4. Moved(e, len) \in AllMoved(fields, len)
      BY DEF AllMoved
    <3>5. Moved(e, len).first <= b /\ b < Moved(e, len).first + Moved(e, len).size
      BY <1>2, <2>2, <3>1, <3>2, <3>3
    <3> QED
      BY <3>4, <3>5
  <2> QED
    BY <2>1, <2>2
<1>4. \A f \in AllMoved(fields, len) : f.first \in Nat /\ f.first + f.size <= len + n
  BY <1>2 DEF AllMoved
<1> QED
  BY <1>1, <1>3, <1>4 DEF Covers

(* Fields that cover their header leave no hole behind the end of another. *)
LEMMA AppendedWhole ==
  ASSUME NEW h \in Headers, Covers(h.put, h.len), NEW fields \in SUBSET Fields,
         NEW n \in Nat, Covers(fields, n)
  PROVE  LET g == Advance(Lay(h, h.len, fields), n)
         IN /\ g \in Headers /\ g.len = h.len + n
            /\ g.put = h.put \cup AllMoved(fields, h.len) /\ Covers(g.put, g.len)
            /\ g.tag = h.tag /\ g.l3 = h.l3 /\ g.l4 = h.l4
<1>1. \A f \in fields : f.first \in Nat
  BY DEF Covers
<1>2. h.put \in SUBSET Fields /\ h.len \in Nat
  BY DEF Headers
<1>3. PICK g : g = Advance(Lay(h, h.len, fields), n)
  OBVIOUS
<1>4. /\ g \in Headers /\ g.len = h.len + n
      /\ g.put = h.put \cup AllMoved(fields, h.len)
      /\ g.tag = h.tag /\ g.l3 = h.l3 /\ g.l4 = h.l4
  BY <1>1, <1>3, Appended
<1>5. Covers(h.put \cup AllMoved(fields, h.len), h.len + n)
  BY <1>2, CoversMore
<1> QED
  BY <1>3, <1>4, <1>5

-----------------------------------------------------------------------------
(* IPv6 next headers of one length lie one behind the other. *)

(* The sum of equal lengths is a product. *)
LEMMA SumToIs ==
  ASSUME NEW s \in Seq(Nat), NEW c \in Nat, \A k \in 1 .. Len(s) : s[k] = c
  PROVE  \A k \in 0 .. Len(s) : SumTo(s)[k] = k * c
<1> PICK n \in Nat : n = Len(s)
  OBVIOUS
<1> DEFINE F == [k \in 0 .. n |-> k * c]
<1>1. F = [k \in 0 .. n |-> IF k = 0 THEN 0 ELSE F[k - 1] + s[k]]
  <2>1. ASSUME NEW k \in 0 .. n PROVE F[k] = IF k = 0 THEN 0 ELSE F[k - 1] + s[k]
    <3>1. CASE k = 0
      BY <3>1
    <3>2. CASE k # 0
      <4>1. k - 1 \in 0 .. n /\ k \in 1 .. n
        BY <3>2
      <4>2. F[k - 1] = (k - 1) * c /\ F[k] = k * c /\ s[k] = c
        BY <4>1
      <4>3. (k - 1) * c + c = k * c
        OBVIOUS
      <4> QED
        BY <3>2, <4>2, <4>3
    <3> QED
      BY <3>1, <3>2
  <2>2. F = [k \in 0 .. n |-> F[k]]
    OBVIOUS
  <2> HIDE DEF F
  <2> QED
    BY <2>1, <2>2
<1> HIDE DEF F
<1>2. SumTo(s) = [k \in 0 .. n |-> IF k = 0 THEN 0 ELSE SumTo(s)[k - 1] + s[k]]
  <2>1. \E f : f = [k \in 0 .. Len(s) |-> IF k = 0 THEN 0 ELSE f[k - 1] + s[k]]
    BY <1>1
  <2> QED
    BY <2>1, Zenon DEF SumTo
<1> DEFINE S == {k \in Nat : k <= n => SumTo(s)[k] = k * c}
<1>3. 0 \in S
  BY <1>2
<1>4. ASSUME NEW k \in Nat, k \in S PROVE k + 1 \in S
  <2> SUFFICES ASSUME k + 1 <= n PROVE SumTo(s)[k + 1] = (k + 1) * c
    OBVIOUS
  <2>1. k + 1 \in 0 .. n /\ k + 1 \in 1 .. n /\ k + 1 # 0 /\ (k + 1) - 1 = k
    OBVIOUS
  <2>2. SumTo(s)[k + 1] = SumTo(s)[k] + c
    BY <1>2, <2>1
  <2>3. SumTo(s)[k] = k * c
    BY <1>4
  <2>4. (k + 1) * c = k * c + c
    OBVIOUS
  <2> QED
    BY <2>2, <2>3, <2>4
<1>5. Nat \subseteq S
  <2> HIDE DEF S
  <2> QED
    BY <1>3, <1>4, Induction
<1> QED
  BY <1>5

(* Next headers of one length cover the place behind the IPv6 header. *)
LEMMA NextHeadersCover ==
  ASSUME NEW l \in Layers, Consistent(l)
  PROVE  /\ SumTo(l.l3.next)[Len(l.l3.next)] \in Nat
         /\ Ip6Fields \cup NextHeaders(l) \in SUBSET Fields
         /\ Covers(Ip6Fields \cup NextHeaders(l), Ip6Size + SumTo(l.l3.next)[Len(l.l3.next)])
<1>1. PICK s \in Seq(Nat), n \in Nat : s = l.l3.next /\ n = Len(s)
  BY DEF Layers
<1>2. \A k \in 1 .. n : s[k] \in Nat
  BY <1>1
<1>3. PICK c \in Nat : \A k \in 1 .. n : s[k] = c
  <2>1. CASE n = 0
    BY <2>1
  <2>2. CASE n # 0
    <3>1. 1 \in 1 .. n
      BY <2>2
    <3>2. \A k \in 1 .. n : s[k] = s[1]
      BY <1>1, <3>1 DEF Consistent
    <3> QED
      BY <1>2, <3>1, <3>2
  <2> QED
    BY <2>1, <2>2
<1>4. \A k \in 0 .. n : SumTo(s)[k] = k * c
  BY <1>1, <1>3, SumToIs
<1>5. SumTo(s)[n] = n * c /\ n * c \in Nat
  BY <1>4
<1>6. ASSUME NEW k \in 1 .. n
      PROVE  \E x \in Nat : x = 40 + (k - 1) * c /\ NextHeader(l, k) = Bytes("next", x, c)
  <2>1. k \in 0 .. n /\ 1 \in 1 .. n /\ k - 1 \in Nat
    OBVIOUS
  <2>2. SumTo(s)[k] = k * c /\ s[1] = c /\ s[k] = c
    BY <1>3, <1>4, <2>1
  <2>3. PICK y \in Nat : y = (k - 1) * c /\ k * c = y + c
    <3>1. (k - 1) * c \in Nat /\ k * c = (k - 1) * c + c
      BY <2>1
    <3> QED
      BY <3>1
  <2>4. 40 + SumTo(s)[k] - s[1] = 40 + y
    BY <2>2, <2>3
  <2>5. NextHeader(l, k) = Bytes("next", 40 + y, c)
    BY <1>1, <2>2, <2>4 DEF NextHeader, Ip6Size
  <2> QED
    BY <2>3, <2>5
<1>7. ASSUME NEW k \in 1 .. n, NEW j \in 1 .. n, j > k
      PROVE  Apart(NextHeader(l, j), NextHeader(l, k))
  <2>1. PICK x \in Nat : x = 40 + (k - 1) * c /\ NextHeader(l, k) = Bytes("next", x, c)
    BY <1>6
  <2>2. PICK y \in Nat : y = 40 + (j - 1) * c /\ NextHeader(l, j) = Bytes("next", y, c)
    BY <1>6
  <2>3. x + c <= y
    <3>1. k * c <= (j - 1) * c
      BY <1>7
    <3>2. k * c = (k - 1) * c + c /\ (k - 1) * c \in Nat /\ (j - 1) * c \in Nat
      BY <1>7
    <3> QED
      BY <2>1, <2>2, <3>1, <3>2
  <2> QED
    BY <2>1, <2>2, <2>3 DEF Apart, Bytes
<1>8. NextHeaders(l) = {NextHeader(l, k) : k \in 1 .. n}
  <2>1. DOMAIN l.l3.next = 1 .. n
    BY <1>1
  <2> QED
    BY <1>7, <2>1 DEF NextHeaders
<1>9. Ip6Fields = {Bytes("ip6", 0, 8), Bytes("ip6sip", 8, 16), Bytes("ip6dip", 24, 16)}
  BY DEF Ip6Fields
<1>10. Ip6Fields \cup NextHeaders(l) \in SUBSET Fields
  <2>1. ASSUME NEW k \in 1 .. n PROVE NextHeader(l, k) \in Fields
    <3>1. PICK x \in Nat : NextHeader(l, k) = Bytes("next", x, c)
      BY <1>6
    <3>2. "next" \in Names /\ x \in Int
      BY DEF Names
    <3>3. Bytes("next", x, c) \in Fields
      BY <3>2, BytesIs
    <3> QED
      BY <3>1, <3>3
  <2>2. Ip6Fields \in SUBSET Fields
    <3>1. "ip6" \in Names /\ "ip6sip" \in Names /\ "ip6dip" \in Names
      BY DEF Names
    <3>2. /\ Bytes("ip6", 0, 8) \in Fields /\ Bytes("ip6sip", 8, 16) \in Fields
          /\ Bytes("ip6dip", 24, 16) \in Fields
      BY <3>1, BytesIs
    <3> QED
      BY <1>9, <3>2
  <2> QED
    BY <1>8, <2>1, <2>2
<1>11. ASSUME NEW k \in 1 .. n
       PROVE  NextHeader(l, k).first \in Nat
              /\ NextHeader(l, k).first + NextHeader(l, k).size <= 40 + n * c
  <2>1. PICK x \in Nat : x = 40 + (k - 1) * c /\ NextHeader(l, k) = Bytes("next", x, c)
    BY <1>6
  <2>2. k * c <= n * c
    OBVIOUS
  <2>3. k * c = (k - 1) * c + c /\ (k - 1) * c \in Nat /\ n * c \in Nat
    OBVIOUS
  <2>4. x + c <= 40 + n * c
    BY <2>1, <2>2, <2>3
  <2> QED
    BY <2>1, <2>4 DEF Bytes
<1>12. ASSUME NEW b \in 40 .. (40 + n * c) - 1
       PROVE  \E f \in NextHeaders(l) : f.first <= b /\ b < f.first + f.size
  <2>1. PICK x \in Nat, m \in Nat : x = b - 40 /\ m = n * c /\ x < m
    BY <1>5
  <2>2. c # 0
    <3>1. c = 0 => n * c = 0
      OBVIOUS
    <3> QED
      BY <2>1, <3>1
  <2>3. PICK q \in Int, r \in Nat : r < c /\ x = c * q + r
    <3>1. x \in Int /\ c \in Nat \ {0}
      BY <2>2
    <3> QED
      BY <3>1, Division
  <2>4. q >= 0
    <3>1. CASE q <= -1
      <4>1. c * q <= -c
        BY <3>1, <2>2
      <4>2. c * q \in Int
        OBVIOUS
      <4> QED
        BY <2>3, <4>1, <4>2
    <3> QED
      BY <3>1
  <2>5. q < n
    <3>1. CASE q >= n
      <4>1. c * q >= c * n /\ c * n = n * c
        BY <2>4, <3>1
      <4>2. c * q \in Int
        OBVIOUS
      <4> QED
        BY <2>1, <2>3, <4>1, <4>2
    <3> QED
      BY <3>1
  <2>6. PICK k \in 1 .. n : k = q + 1
    BY <2>4, <2>5
  <2>7. PICK y \in Nat : y = 40 + (k - 1) * c /\ NextHeader(l, k) = Bytes("next", y, c)
    BY <1>6
  <2>8. (k - 1) * c = c * q /\ c * q \in Int
    BY <2>6
  <2>9. y <= b /\ b < y + c
    BY <2>1, <2>3, <2>7, <2>8
  <2> QED
    BY <1>8, <2>7, <2>9 DEF Bytes
<1>13. \A f \in Ip6Fields : f.first \in Nat /\ f.first + f.size <= 40
  BY <1>9 DEF Bytes
<1>14. \A b \in 0 .. 39 : \E f \in Ip6Fields : f.first <= b /\ b < f.first + f.size
  BY <1>9 DEF Bytes
<1>15. PICK m \in Nat : m = n * c /\ SumTo(s)[n] = m
  BY <1>5
<1>16. Covers(Ip6Fields \cup NextHeaders(l), 40 + m)
  <2>1. \A f \in NextHeaders(l) : f.first \in Nat /\ f.first + f.size <= 40 + m
    BY <1>8, <1>11, <1>15
  <2>2. \A f \in Ip6Fields : f.first \in Nat /\ f.first + f.size <= 40 + m
    <3>1. \A f \in Ip6Fields : f.size \in Nat
      BY <1>9 DEF Bytes
    <3> QED
      BY <1>13, <3>1
  <2>3. ASSUME NEW b \in 0 .. (40 + m) - 1
        PROVE  \E f \in Ip6Fields \cup NextHeaders(l) : f.first <= b /\ b < f.first + f.size
    <3>1. CASE b < 40
      <4>1. b \in 0 .. 39
        BY <3>1
      <4>2. PICK f \in Ip6Fields : f.first <= b /\ b < f.first + f.size
        BY <1>14, <4>1
      <4> QED
        BY <4>2
    <3>2. CASE b >= 40
      <4>1. b \in 40 .. (40 + n * c) - 1
        BY <1>15, <3>2
      <4>2. PICK f \in NextHeaders(l) : f.first <= b /\ b < f.first + f.size
        BY <1>12, <4>1
      <4> QED
        BY <4>2
    <3> QED
      BY <3>1, <3>2
  <2> QED
    BY <2>1, <2>2, <2>3 DEF Covers
<1> QED
  BY <1>1, <1>10, <1>15, <1>16 DEF Ip6Size

-----------------------------------------------------------------------------
(* The fields of each protocol cover its header. *)

(* One more field behind those that cover their place. *)
LEMMA CoversAndOne ==
  ASSUME NEW fields \in SUBSET Fields, NEW n \in Nat, Covers(fields, n), NEW name \in Names,
         NEW size \in Nat
  PROVE  /\ fields \cup {Bytes(name, n, size)} \in SUBSET Fields
         /\ Covers(fields \cup {Bytes(name, n, size)}, n + size)
<1>1. PICK g \in Fields : g = Bytes(name, n, size) /\ g.first = n /\ g.size = size
  <2>1. n \in Int
    OBVIOUS
  <2> QED
    BY <2>1, BytesIs
<1>2. \A f \in fields : f.first \in Nat /\ f.size \in Nat /\ f.first + f.size <= n
  BY DEF Covers, Fields
<1>3. \A f \in fields \cup {g} : f.first \in Nat /\ f.first + f.size <= n + size
  BY <1>1, <1>2
<1>4. ASSUME NEW b \in 0 .. (n + size) - 1
      PROVE  \E f \in fields \cup {g} : f.first <= b /\ b < f.first + f.size
  <2>1. CASE b < n
    <3>1. b \in 0 .. n - 1
      BY <2>1
    <3>2. PICK f \in fields : f.first <= b /\ b < f.first + f.size
      BY <3>1 DEF Covers
    <3> QED
      BY <3>2
  <2>2. CASE b >= n
    BY <1>1, <2>2
  <2> QED
    BY <2>1, <2>2
<1> QED
  BY <1>1, <1>3, <1>4 DEF Covers

(* The Ethernet header, with and without the ether type. *)
LEMMA EthernetCovers ==
  /\ EthernetFields \in SUBSET Fields /\ Covers(EthernetFields, 12)
  /\ EthernetFields \cup {TypeField} \in SUBSET Fields
  /\ Covers(EthernetFields \cup {TypeField}, 14)
<1>1. EthernetFields = {Bytes("dest", 0, 6), Bytes("src", 6, 6)}
  BY DEF EthernetFields
<1>2. /\ Bytes("dest", 0, 6) \in Fields /\ Bytes("src", 6, 6) \in Fields
      /\ "type" \in Names
  BY BytesIs DEF Names
<1>3. Covers(EthernetFields, 12)
  BY <1>1 DEF Bytes, Covers
<1>4. TypeField = Bytes("type", 12, 2)
  BY DEF TypeField, TypeSize
<1>5. EthernetFields \in SUBSET Fields
  BY <1>1, <1>2
<1>6. /\ EthernetFields \cup {Bytes("type", 12, 2)} \in SUBSET Fields
      /\ Covers(EthernetFields \cup {Bytes("type", 12, 2)}, 12 + 2)
  BY <1>2, <1>3, <1>5, CoversAndOne
<1>7. 12 + 2 = 14
  OBVIOUS
<1> QED
  BY <1>3, <1>4, <1>5, <1>6, <1>7

(* The IPv4 header without options. *)
LEMMA Ip4Covers == Ip4Fields \in SUBSET Fields /\ Covers(Ip4Fields, 20)
<1>1. Ip4Fields = {Bytes("ip4", 0, 4), Bytes("ip4id", 4, 2), Bytes("flags", 6, 2),
                   Bytes("ttl", 8, 2), Bytes("ip4chksum", 10, 2), Bytes("ip4sip", 12, 4),
                   Bytes("ip4dip", 16, 4)}
  BY DEF Ip4Fields
<1>2. /\ Bytes("ip4", 0, 4) \in Fields /\ Bytes("ip4id", 4, 2) \in Fields
      /\ Bytes("flags", 6, 2) \in Fields /\ Bytes("ttl", 8, 2) \in Fields
      /\ Bytes("ip4chksum", 10, 2) \in Fields /\ Bytes("ip4sip", 12, 4) \in Fields
      /\ Bytes("ip4dip", 16, 4) \in Fields
  BY BytesIs DEF Names
<1>3. Covers(Ip4Fields, 20)
  BY <1>1 DEF Bytes, Covers
<1> QED
  BY <1>1, <1>2, <1>3

(* The TCP header without options. *)
LEMMA TcpCovers == TcpFields \in SUBSET Fields /\ Covers(TcpFields, 20)
<1>1. TcpFields = {Bytes("sport", 0, 2), Bytes("dport", 2, 2), Bytes("tcp", 4, 12),
                   Bytes("l4chksum", 16, 2), Bytes("urgent", 18, 2)}
  BY DEF TcpFields
<1>2. /\ Bytes("sport", 0, 2) \in Fields /\ Bytes("dport", 2, 2) \in Fields
      /\ Bytes("tcp", 4, 12) \in Fields /\ Bytes("l4chksum", 16, 2) \in Fields
      /\ Bytes("urgent", 18, 2) \in Fields
  BY BytesIs DEF Names
<1>3. Covers(TcpFields, 20)
  BY <1>1 DEF Bytes, Covers
<1> QED
  BY <1>1, <1>2, <1>3

(* The UDP header. *)
LEMMA UdpCovers == UdpFields \in SUBSET Fields /\ Covers(UdpFields, 8)
<1>1. UdpFields = {Bytes("sport", 0, 2), Bytes("dport", 2, 2), Bytes("udp", 4, 2),
                   Bytes("l4chksum", 6, 2)}
  BY DEF UdpFields
<1>2. /\ Bytes("sport", 0, 2) \in Fields /\ Bytes("dport", 2, 2) \in Fields
      /\ Bytes("udp", 4, 2) \in Fields /\ Bytes("l4chksum", 6, 2) \in Fields
  BY BytesIs DEF Names
<1>3. Covers(UdpFields, 8)
  BY <1>1 DEF Bytes, Covers
<1> QED
  BY <1>1, <1>2, <1>3

(* The IGMP header. *)
LEMMA IgmpCovers == IgmpFields \in SUBSET Fields /\ Covers(IgmpFields, 8)
<1>1. IgmpFields = {Bytes("igmp", 0, 2), Bytes("l4chksum", 2, 2), Bytes("group", 4, 4)}
  BY DEF IgmpFields
<1>2. /\ Bytes("igmp", 0, 2) \in Fields /\ Bytes("l4chksum", 2, 2) \in Fields
      /\ Bytes("group", 4, 4) \in Fields
  BY BytesIs DEF Names
<1>3. Covers(IgmpFields, 8)
  BY <1>1 DEF Bytes, Covers
<1> QED
  BY <1>1, <1>2, <1>3

(* The ICMP header, and what is sent of it without identifier. *)
LEMMA IcmpCovers == /\ IcmpFields \in SUBSET Fields /\ Covers(IcmpFields, 8)
                    /\ \A f \in IcmpFields : f.first \in Nat
                    /\ {f \in IcmpFields : f.first < 4} \in SUBSET Fields
                    /\ Covers({f \in IcmpFields : f.first < 4}, 4)
<1>1. IcmpFields = {Bytes("icmp", 0, 2), Bytes("l4chksum", 2, 2), Bytes("data", 4, 4)}
  BY DEF IcmpFields
<1>2. /\ Bytes("icmp", 0, 2) \in Fields /\ Bytes("l4chksum", 2, 2) \in Fields
      /\ Bytes("data", 4, 4) \in Fields
  BY BytesIs DEF Names
<1>3. Covers(IcmpFields, 8)
  BY <1>1 DEF Bytes, Covers
<1>4. {f \in IcmpFields : f.first < 4} = {Bytes("icmp", 0, 2), Bytes("l4chksum", 2, 2)}
  BY <1>1 DEF Bytes
<1>5. Covers({Bytes("icmp", 0, 2), Bytes("l4chksum", 2, 2)}, 4)
  BY DEF Bytes, Covers
<1> QED
  BY <1>1, <1>2, <1>3, <1>4, <1>5 DEF Covers

(* A header of one field: a label, an ARP packet or an ISL header. *)
LEMMA OneCovers ==
  ASSUME NEW name \in Names, NEW size \in Nat
  PROVE  {Bytes(name, 0, size)} \in SUBSET Fields /\ Covers({Bytes(name, 0, size)}, size)
<1>1. {} \in SUBSET Fields /\ Covers({}, 0)
  BY DEF Covers
<1>2. {} \cup {Bytes(name, 0, size)} = {Bytes(name, 0, size)} /\ 0 + size = size
  OBVIOUS
<1>3. /\ {} \cup {Bytes(name, 0, size)} \in SUBSET Fields
      /\ Covers({} \cup {Bytes(name, 0, size)}, 0 + size)
  BY <1>1, CoversAndOne
<1> QED
  BY <1>2, <1>3

-----------------------------------------------------------------------------
(* Layer 2 *)

(* A whole header in the making. *)
WholeSoFar(h) == h \in Headers /\ Covers(h.put, h.len)

(* A header g that is h and what was put behind its end. *)
Grown(h, len, fields, n, g) ==
  /\ WholeSoFar(g) /\ g.len = len + n /\ g.l3 = h.l3 /\ g.l4 = h.l4
  /\ g.put = h.put \cup AllMoved(fields, len)

(* Fields that cover their header, put behind the end. *)
LEMMA GrownIs ==
  ASSUME NEW h, WholeSoFar(h), NEW len \in Nat, h.len = len,
         NEW fields \in SUBSET Fields, NEW n \in Nat, Covers(fields, n),
         NEW g, g = Advance(Lay(h, len, fields), n)
  PROVE  Grown(h, len, fields, n, g)
<1>1. h \in Headers /\ Covers(h.put, h.len)
  BY DEF WholeSoFar
<1>2. PICK g0 : g0 = Advance(Lay(h, h.len, fields), n)
  OBVIOUS
<1>3. /\ g0 \in Headers /\ g0.len = h.len + n
      /\ g0.put = h.put \cup AllMoved(fields, h.len) /\ Covers(g0.put, g0.len)
      /\ g0.l3 = h.l3 /\ g0.l4 = h.l4
  BY <1>1, <1>2, AppendedWhole
<1>4. g = g0
  BY <1>2
<1> QED
  BY <1>3, <1>4 DEF Grown, WholeSoFar

(* The place of a layer, set before its fields are put there. *)
LEMMA OffsetSet ==
  ASSUME NEW h, WholeSoFar(h)
  PROVE  /\ h.len \in Nat
         /\ LET g == [h EXCEPT !.l3 = h.len]
            IN WholeSoFar(g) /\ g.len = h.len /\ g.put = h.put /\ g.l3 = h.len /\ g.l4 = h.l4
         /\ LET g == [h EXCEPT !.l4 = h.len]
            IN WholeSoFar(g) /\ g.len = h.len /\ g.put = h.put /\ g.l4 = h.len /\ g.l3 = h.l3
         /\ \A x \in Int :
              LET g == [h EXCEPT !.tag = x]
              IN WholeSoFar(g) /\ g.len = h.len /\ g.put = h.put /\ g.l3 = h.l3 /\ g.l4 = h.l4
<1>1. h \in Headers /\ Covers(h.put, h.len)
  BY DEF WholeSoFar
<1>2. PICK n \in Nat : n = h.len
  BY <1>1 DEF Headers
<1>3. LET g == [h EXCEPT !.l3 = n]
      IN g \in Headers /\ g.len = n /\ g.put = h.put /\ g.l3 = n /\ g.l4 = h.l4
  BY <1>1, <1>2 DEF Headers
<1>4. LET g == [h EXCEPT !.l4 = n]
      IN g \in Headers /\ g.len = n /\ g.put = h.put /\ g.l4 = n /\ g.l3 = h.l3
  BY <1>1, <1>2 DEF Headers
<1>5. \A x \in Int :
        LET g == [h EXCEPT !.tag = x]
        IN g \in Headers /\ g.len = n /\ g.put = h.put /\ g.l3 = h.l3 /\ g.l4 = h.l4
  BY <1>1, <1>2 DEF Headers
<1> QED
  BY <1>1, <1>2, <1>3, <1>4, <1>5 DEF WholeSoFar

(* The header that bsl_makeHeader begins with. *)
LEMMA BlankIs == WholeSoFar(Blank) /\ Blank.len = 0 /\ Blank.l3 = 0 /\ Blank.put = {}
<1>1. Blank \in Headers /\ Blank.len = 0 /\ Blank.l3 = 0 /\ Blank.put = {}
  BY DEF Blank, Headers
<1>2. Covers({}, 0)
  BY DEF Covers
<1> QED
  BY <1>1, <1>2 DEF WholeSoFar

EthernetAt(l) == IF l.tag = "isl" THEN IslSize ELSE 0

(* An ISL header comes first, and Ethernet behind it. *)
LEMMA IslIs ==
  ASSUME NEW l \in Layers
  PROVE  WholeSoFar(Isl(l, Blank)) /\ Isl(l, Blank).len = EthernetAt(l)
<1>1. CASE l.tag = "isl"
  <2>1. PICK h : h = [Blank EXCEPT !.tag = 0] /\ h = Blank
    <3>1. [Blank EXCEPT !.tag = 0] = Blank
      BY DEF Blank
    <3> QED
      BY <3>1
  <2>2. WholeSoFar(h) /\ h.len = 0
    BY <2>1, BlankIs
  <2>3. "isl" \in Names /\ IslSize \in Nat
    BY DEF Names, IslSize
  <2>4. PICK fields \in SUBSET Fields :
          fields = {Bytes("isl", 0, IslSize)} /\ Covers(fields, IslSize)
    BY <2>3, OneCovers
  <2>5. Isl(l, Blank) = Advance(Lay(h, h.len, fields), IslSize)
    <3>1. Isl(l, Blank) = Advance(Lay(h, Blank.len, fields), IslSize)
      BY <1>1, <2>1, <2>4 DEF Isl
    <3> QED
      BY <2>2, <3>1, BlankIs
  <2>6. PICK n \in Nat : n = IslSize
    BY <2>3
  <2>7. PICK len \in Nat : len = 0
    OBVIOUS
  <2>8. PICK g : g = Advance(Lay(h, len, fields), n) /\ g = Isl(l, Blank)
    BY <2>2, <2>5, <2>6, <2>7
  <2>9. WholeSoFar(g) /\ g.len = len + n
    <3>1. Covers(fields, n) /\ h.len = len
      BY <2>2, <2>4, <2>6, <2>7
    <3>2. Grown(h, len, fields, n, g)
      BY <2>2, <2>8, <3>1, GrownIs
    <3> QED
      BY <3>2 DEF Grown
  <2> QED
    BY <1>1, <2>6, <2>7, <2>8, <2>9 DEF EthernetAt
<1>2. CASE l.tag # "isl"
  BY <1>2, BlankIs DEF Isl, EthernetAt
<1> QED
  BY <1>1, <1>2

(* Where the addresses are, and the ether type at the header's end.        *)
Addressed(l, put) ==
  l.eth # "none" => Bytes("dest", EthernetAt(l), 6) \in put
                    /\ Bytes("src", EthernetAt(l) + 6, 6) \in put

TypeAtEnd(h) == \E base \in SUBSET Fields, n \in Nat :
                  h.len = n + 2 /\ Covers(base, n) /\ h.put = base \cup {Bytes("type", n, 2)}

(* The Ethernet header has its addresses where they are looked for. *)
LEMMA EthernetIs ==
  ASSUME NEW l \in Layers, NEW h, WholeSoFar(h), h.len = EthernetAt(l)
  PROVE  LET g == Ethernet(l, h)
         IN /\ WholeSoFar(g) /\ Addressed(l, g.put)
            /\ l.eth = "typed" => TypeAtEnd(g)
<1>1. PICK n \in Nat : n = h.len /\ n = EthernetAt(l)
  BY OffsetSet
<1>2. h.put \in SUBSET Fields /\ Covers(h.put, n)
  BY <1>1 DEF WholeSoFar, Headers
<1>3. PICK g : g = Ethernet(l, h)
  OBVIOUS
<1>4. AllMoved(EthernetFields, n) = {Bytes("dest", n, 6), Bytes("src", n + 6, 6)}
  <2>1. "dest" \in Names /\ "src" \in Names /\ n \in Int
    BY DEF Names
  <2>2. Moved(Bytes("dest", 0, 6), n) = Bytes("dest", n + 0, 6)
    BY <2>1, BytesIs
  <2>3. Moved(Bytes("src", 6, 6), n) = Bytes("src", n + 6, 6)
    BY <2>1, BytesIs
  <2>4. n + 0 = n
    OBVIOUS
  <2> QED
    BY <2>2, <2>3, <2>4 DEF AllMoved, EthernetFields
<1>5. CASE l.eth = "none"
  BY <1>5 DEF Ethernet, Addressed
<1>6. CASE l.eth = "typeless"
  <2>1. g = Advance(Lay(h, h.len, EthernetFields), 12)
    BY <1>3, <1>6 DEF Ethernet
  <2>2. WholeSoFar(g) /\ g.put = h.put \cup AllMoved(EthernetFields, h.len)
    <3>1. PICK k \in Nat : k = 12
      OBVIOUS
    <3>2. Covers(EthernetFields, k) /\ g = Advance(Lay(h, n, EthernetFields), k)
      BY <1>1, <2>1, <3>1, EthernetCovers
    <3>3. EthernetFields \in SUBSET Fields /\ h.len = n
      BY <1>1, EthernetCovers
    <3>4. Grown(h, n, EthernetFields, k, g)
      BY <3>2, <3>3, GrownIs
    <3> QED
      BY <1>1, <3>4 DEF Grown
  <2> QED
    BY <1>1, <1>3, <1>4, <1>6, <2>2 DEF Addressed
<1>7. CASE l.eth = "typed"
  <2>1. PICK fields \in SUBSET Fields :
          fields = EthernetFields \cup {TypeField} /\ Covers(fields, 14)
    BY EthernetCovers
  <2>2. g = Advance(Lay(h, h.len, fields), 14)
    BY <1>3, <1>7, <2>1 DEF Ethernet
  <2>3. WholeSoFar(g) /\ g.put = h.put \cup AllMoved(fields, h.len) /\ g.len = h.len + 14
    <3>1. PICK k \in Nat : k = 14
      OBVIOUS
    <3>2. Covers(fields, k) /\ g = Advance(Lay(h, n, fields), k) /\ h.len = n
      BY <1>1, <2>1, <2>2, <3>1
    <3>3. Grown(h, n, fields, k, g)
      BY <3>2, GrownIs
    <3> QED
      BY <1>1, <3>1, <3>3 DEF Grown
  <2>4. AllMoved(fields, n) = AllMoved(EthernetFields, n) \cup {Bytes("type", n + 12, 2)}
    <3>1. "type" \in Names /\ n \in Int
      BY DEF Names
    <3>2. Moved(Bytes("type", 12, 2), n) = Bytes("type", n + 12, 2)
      BY <3>1, BytesIs
    <3> QED
      BY <2>1, <3>2 DEF AllMoved, TypeField, TypeSize
  <2>5. PICK base \in SUBSET Fields, m \in Nat :
          /\ base = h.put \cup AllMoved(EthernetFields, n) /\ m = n + 12 /\ Covers(base, m)
    <3>1. Covers(h.put \cup AllMoved(EthernetFields, n), n + 12)
      BY <1>2, EthernetCovers, CoversMore
    <3>2. AllMoved(EthernetFields, n) \in SUBSET Fields
      <4>1. "dest" \in Names /\ "src" \in Names /\ n \in Int /\ n + 6 \in Int
        BY DEF Names
      <4> QED
        BY <1>4, <4>1, BytesIs
    <3> QED
      BY <1>2, <3>1, <3>2
  <2>6. g.put = base \cup {Bytes("type", m, 2)} /\ g.len = m + 2
    BY <1>1, <2>3, <2>4, <2>5
  <2>7. TypeAtEnd(g)
    BY <2>5, <2>6 DEF TypeAtEnd
  <2>8. Addressed(l, g.put)
    BY <1>1, <1>4, <2>5, <2>6 DEF Addressed
  <2> QED
    BY <1>3, <2>3, <2>7, <2>8
<1>8. l.eth \in {"none", "typed", "typeless"}
  BY DEF Layers
<1> QED
  BY <1>5, <1>6, <1>7, <1>8

(* A header whose last field is the ether type, behind those of base. *)
TypeEnds(h, base, n) ==
  /\ h \in Headers /\ h.len = n + 2
  /\ base \in SUBSET Fields /\ n \in Nat /\ Covers(base, n)
  /\ h.put = base \cup {Bytes("type", n, 2)}

(* Such a header has no hole. *)
LEMMA TypeEndsWhole ==
  ASSUME NEW h, NEW base, NEW n, TypeEnds(h, base, n)
  PROVE  WholeSoFar(h)
<1>1. /\ h \in Headers /\ h.len = n + 2
      /\ base \in SUBSET Fields /\ n \in Nat /\ Covers(base, n)
      /\ h.put = base \cup {Bytes("type", n, 2)}
  BY DEF TypeEnds
<1>2. "type" \in Names
  BY DEF Names
<1>3. Covers(base \cup {Bytes("type", n, 2)}, n + 2)
  BY <1>1, <1>2, CoversAndOne
<1> QED
  BY <1>1, <1>3 DEF WholeSoFar

(* A VLAN tag comes before the ether type. *)
LEMMA VlanTagIs ==
  ASSUME NEW h, NEW base, NEW n, TypeEnds(h, base, n), NEW name \in Names
  PROVE  /\ TypeBefore(h) = "type"
         /\ TypeEnds(VlanTag(h, name, "type"), base \cup {Bytes(name, n, 4)}, n + 4)
<1>1. /\ h \in Headers /\ h.len = n + 2
      /\ base \in SUBSET Fields /\ n \in Nat /\ Covers(base, n)
      /\ h.put = base \cup {Bytes("type", n, 2)}
  BY DEF TypeEnds
<1>2. h.len - TypeSize = n /\ TypeSize = 2 /\ TagSize = 4
  BY <1>1 DEF TypeSize, TagSize
<1>3. TypeBefore(h) = "type"
  BY <1>1, <1>2 DEF TypeBefore
<1>4. PICK fields : fields = {Bytes(name, 0, 4), Bytes("type", 4, 2)}
  OBVIOUS
<1>5. PICK m \in Int : m = n /\ m + 0 = n
  BY <1>1
<1>6. /\ "type" \in Names /\ Bytes(name, 0, 4) \in Fields /\ Bytes("type", 4, 2) \in Fields
      /\ Moved(Bytes(name, 0, 4), m) = Bytes(name, m + 0, 4)
      /\ Moved(Bytes("type", 4, 2), m) = Bytes("type", m + 4, 2)
  <2>1. "type" \in Names /\ 0 \in Int /\ 4 \in Int /\ 4 \in Nat /\ 2 \in Nat
    BY DEF Names
  <2>2. Bytes(name, 0, 4) \in Fields /\ Bytes("type", 4, 2) \in Fields
    BY <2>1, BytesIs
  <2>3. Moved(Bytes(name, 0, 4), m) = Bytes(name, m + 0, 4)
    BY <2>1, BytesIs
  <2>4. Moved(Bytes("type", 4, 2), m) = Bytes("type", m + 4, 2)
    BY <2>1, BytesIs
  <2> QED
    BY <2>1, <2>2, <2>3, <2>4
<1>7. fields \in SUBSET Fields /\ AllMoved(fields, m) = {Bytes(name, n, 4), Bytes("type", n + 4, 2)}
  BY <1>4, <1>5, <1>6 DEF AllMoved
<1>8. PICK g0 : g0 = Lay(h, m, fields)
  OBVIOUS
<1>9. /\ g0 \in Headers /\ g0.len = h.len
      /\ g0.put = {f \in h.put : \A e \in AllMoved(fields, m) : Apart(f, e)} \cup AllMoved(fields, m)
  BY <1>1, <1>7, <1>8, LayIs
<1>10. \A f \in base : Apart(f, Bytes(name, n, 4)) /\ Apart(f, Bytes("type", n + 4, 2))
  <2> SUFFICES ASSUME NEW f \in base
               PROVE  Apart(f, Bytes(name, n, 4)) /\ Apart(f, Bytes("type", n + 4, 2))
    OBVIOUS
  <2>1. f.first \in Nat /\ f.size \in Nat /\ f.first + f.size <= n
    BY <1>1 DEF Covers, Fields
  <2> QED
    BY <1>1, <2>1 DEF Apart, Bytes
<1>11. ~Apart(Bytes("type", n, 2), Bytes(name, n, 4))
  BY <1>1 DEF Apart, Bytes
<1>12. g0.put = (base \cup {Bytes(name, n, 4)}) \cup {Bytes("type", n + 4, 2)}
  BY <1>1, <1>7, <1>9, <1>10, <1>11
<1>13. PICK g : g = Advance(g0, 4)
  OBVIOUS
<1>14. g \in Headers /\ g.len = g0.len + 4 /\ g.put = g0.put
  BY <1>9, <1>13, AdvanceIs
<1>15. g = VlanTag(h, name, "type")
  BY <1>2, <1>4, <1>5, <1>8, <1>13 DEF VlanTag
<1>16. g.len = (n + 4) + 2
  BY <1>1, <1>9, <1>14
<1>17. /\ base \cup {Bytes(name, n, 4)} \in SUBSET Fields
       /\ Covers(base \cup {Bytes(name, n, 4)}, n + 4)
  BY <1>1, CoversAndOne
<1> QED
  BY <1>1, <1>3, <1>12, <1>14, <1>15, <1>16, <1>17 DEF TypeEnds

(* Layer 2 is whole when it is finished, and the type is before the labels. *)
Tagged(l, g) ==
  /\ WholeSoFar(g) /\ Addressed(l, g.put)
  /\ l.eth = "typed" => Bytes("type", g.len - Labels(l) - 2, 2) \in g.put

(* One or two VLAN tags. *)
LEMMA VlanIs ==
  ASSUME NEW l \in Layers, NEW h, NEW base, NEW n, TypeEnds(h, base, n), Addressed(l, h.put),
         l.tag \in {"vlan", "vlan2"}
  PROVE  Tagged(l, Vlan(l, h))
<1>1. PICK h0 : h0 = [h EXCEPT !.tag = h.len - TypeSize] /\ TypeEnds(h0, base, n) /\ h0.put = h.put
  <2>1. h \in Headers
    BY DEF TypeEnds
  <2>2. PICK x \in Int : x = h.len - TypeSize
    BY <2>1 DEF Headers, TypeSize
  <2>3. PICK h0 : h0 = [h EXCEPT !.tag = x]
    OBVIOUS
  <2>4. h0 \in Headers /\ h0.len = h.len /\ h0.put = h.put
    BY <2>1, <2>3 DEF Headers
  <2>5. TypeEnds(h0, base, n)
    BY <2>4 DEF TypeEnds
  <2> QED
    BY <2>2, <2>3, <2>4, <2>5
<1>2. TypeBefore(h) = "type" /\ "vlan" \in Names /\ "vlan2" \in Names
  BY VlanTagIs DEF Names
<1>3. PICK g1 : g1 = VlanTag(h0, "vlan", "type")
  OBVIOUS
<1>4. PICK base1, n1 : base1 = base \cup {Bytes("vlan", n, 4)} /\ n1 = n + 4
                       /\ TypeEnds(g1, base1, n1)
  <2>1. TypeEnds(g1, base \cup {Bytes("vlan", n, 4)}, n + 4)
    BY <1>1, <1>2, <1>3, VlanTagIs
  <2> QED
    BY <2>1
<1>5. PICK g2 : g2 = VlanTag(g1, "vlan2", "type")
  OBVIOUS
<1>6. PICK base2, n2 : base2 = base1 \cup {Bytes("vlan2", n1, 4)} /\ n2 = n1 + 4
                       /\ TypeEnds(g2, base2, n2)
  <2>1. TypeEnds(g2, base1 \cup {Bytes("vlan2", n1, 4)}, n1 + 4)
    BY <1>2, <1>4, <1>5, VlanTagIs
  <2> QED
    BY <2>1
<1>7. Addressed(l, base)
  <2>1. h.put = base \cup {Bytes("type", n, 2)}
    BY DEF TypeEnds
  <2>2. /\ Bytes("dest", EthernetAt(l), 6) # Bytes("type", n, 2)
        /\ Bytes("src", EthernetAt(l) + 6, 6) # Bytes("type", n, 2)
    BY DEF Bytes
  <2> QED
    BY <2>1, <2>2 DEF Addressed
<1>8. ASSUME NEW g, NEW b, NEW m, TypeEnds(g, b, m), base \subseteq b
      PROVE  Tagged(l, g)
  <2>1. WholeSoFar(g)
    BY <1>8, TypeEndsWhole
  <2>2. g.put = b \cup {Bytes("type", m, 2)} /\ g.len = m + 2 /\ m \in Nat
    BY <1>8 DEF TypeEnds
  <2>3. Addressed(l, g.put)
    BY <1>7, <1>8, <2>2 DEF Addressed
  <2>4. Labels(l) = 0
    BY DEF Labels
  <2>5. g.len - Labels(l) - 2 = m
    BY <2>2, <2>4
  <2> QED
    BY <2>1, <2>2, <2>3, <2>5 DEF Tagged
<1>9. Vlan(l, h) = IF l.tag = "vlan" THEN g1 ELSE g2
  BY <1>1, <1>2, <1>3, <1>5 DEF Vlan
<1>10. Tagged(l, g1)
  <2>1. base \subseteq base1
    BY <1>4
  <2> QED
    BY <1>4, <1>8, <2>1
<1>11. Tagged(l, g2)
  <2>1. base \subseteq base2
    BY <1>4, <1>6
  <2> QED
    BY <1>6, <1>8, <2>1
<1> QED
  BY <1>9, <1>10, <1>11

(* An MPLS label. *)
LEMMA LabelIs ==
  ASSUME NEW h, WholeSoFar(h), NEW name \in Names, NEW g, g = Label(h, name)
  PROVE  WholeSoFar(g) /\ g.len = h.len + 4 /\ h.put \subseteq g.put
<1>1. PICK len \in Nat : h.len = len
  BY OffsetSet
<1>2. PICK n \in Nat : n = 4
  OBVIOUS
<1>3. PICK fields \in SUBSET Fields : fields = {Bytes(name, 0, n)} /\ Covers(fields, n)
  BY OneCovers
<1>4. WholeSoFar(g) /\ g.len = len + n /\ g.put = h.put \cup AllMoved(fields, len)
  <2>1. g = Advance(Lay(h, len, fields), n)
    BY <1>1, <1>2, <1>3 DEF Label, LabelSize
  <2>2. Covers(fields, n) /\ h.len = len
    BY <1>1, <1>3
  <2>3. Grown(h, len, fields, n, g)
    BY <2>1, <2>2, GrownIs
  <2> QED
    BY <2>3 DEF Grown
<1> QED
  BY <1>1, <1>2, <1>4

(* Layer 2 with every tag that is possible. *)
LEMMA TagIs ==
  ASSUME NEW l \in Layers, Consistent(l)
  PROVE  Tagged(l, Tag(l, Ethernet(l, Isl(l, Blank))))
<1>1. PICK h : h = Ethernet(l, Isl(l, Blank))
  OBVIOUS
<1>2. WholeSoFar(h) /\ Addressed(l, h.put) /\ (l.eth = "typed" => TypeAtEnd(h))
  BY <1>1, IslIs, EthernetIs
<1>3. l.eth = "typed" => Bytes("type", h.len - 2, 2) \in h.put
  <2> SUFFICES ASSUME l.eth = "typed" PROVE Bytes("type", h.len - 2, 2) \in h.put
    OBVIOUS
  <2>1. PICK base \in SUBSET Fields, n \in Nat :
          h.len = n + 2 /\ h.put = base \cup {Bytes("type", n, 2)}
    BY <1>2 DEF TypeAtEnd
  <2>2. h.len - 2 = n
    BY <2>1
  <2> QED
    BY <2>1, <2>2
<1>4. CASE l.tag \in {"vlan", "vlan2"}
  <2>1. l.eth = "typed"
    BY <1>4 DEF Consistent
  <2>2. PICK base \in SUBSET Fields, n \in Nat : TypeEnds(h, base, n)
    BY <1>2, <2>1 DEF TypeAtEnd, TypeEnds, WholeSoFar
  <2>3. Tagged(l, Vlan(l, h))
    BY <1>2, <1>4, <2>2, VlanIs
  <2> QED
    BY <1>1, <1>4, <2>3 DEF Tag
<1>5. CASE l.tag \in {"mpls", "mpls2"}
  <2>1. PICK g1, g2 : g1 = Label(h, "label") /\ g2 = Label(g1, "label2")
    OBVIOUS
  <2>2. "label" \in Names /\ "label2" \in Names
    BY DEF Names
  <2>3. WholeSoFar(g1) /\ g1.len = h.len + 4 /\ h.put \subseteq g1.put
    BY <1>2, <2>1, <2>2, LabelIs
  <2>4. WholeSoFar(g2) /\ g2.len = g1.len + 4 /\ g1.put \subseteq g2.put
    BY <2>1, <2>2, <2>3, LabelIs
  <2>5. h.len \in Nat
    BY <1>2, OffsetSet
  <2>6. CASE l.tag = "mpls"
    <3>1. g1.len - Labels(l) - 2 = h.len - 2
      BY <2>3, <2>5, <2>6 DEF Labels, LabelSize
    <3>2. Tagged(l, g1)
      BY <1>2, <1>3, <2>3, <3>1 DEF Tagged, Addressed
    <3> QED
      BY <1>1, <2>1, <2>6, <3>2 DEF Tag, Mpls
  <2>7. CASE l.tag = "mpls2"
    <3>1. Labels(l) = 8
      BY <2>7 DEF Labels, LabelSize
    <3>2. g2.len - Labels(l) - 2 = h.len - 2
      BY <2>3, <2>4, <2>5, <3>1
    <3>3. Tagged(l, g2)
      BY <1>2, <1>3, <2>3, <2>4, <3>2 DEF Tagged, Addressed
    <3> QED
      BY <1>1, <2>1, <2>7, <3>3 DEF Tag, Mpls
  <2> QED
    BY <1>5, <2>6, <2>7
<1>6. CASE l.tag \notin {"vlan", "vlan2", "mpls", "mpls2"}
  <2>1. Labels(l) = 0 /\ Tag(l, h) = h
    BY <1>6 DEF Labels, Tag
  <2>2. h.len \in Nat
    BY <1>2, OffsetSet
  <2>3. h.len - Labels(l) - 2 = h.len - 2
    BY <2>1, <2>2
  <2> QED
    BY <1>1, <1>2, <1>3, <2>1, <2>3 DEF Tagged
<1> QED
  BY <1>4, <1>5, <1>6

-----------------------------------------------------------------------------
(* Layer 3 *)

(* The fields of an IP header that the FPGA and the checksums look for.    *)
Ip4At(put, n) == {Bytes("ip4id", n + 4, 2), Bytes("ip4chksum", n + 10, 2),
                  Bytes("ip4sip", n + 12, 4), Bytes("ip4dip", n + 16, 4)} \subseteq put
Ip6At(put, n) == {Bytes("ip6sip", n + 8, 16), Bytes("ip6dip", n + 24, 16)} \subseteq put

(* A field of a protocol is found where the protocol's header begins.      *)
LEMMA FoundAt ==
  ASSUME NEW fields \in SUBSET Fields, NEW n \in Nat, NEW name \in Names, NEW first \in Nat,
         NEW size \in Nat, Bytes(name, first, size) \in fields
  PROVE  Bytes(name, n + first, size) \in AllMoved(fields, n)
<1>1. n \in Int /\ first \in Int
  OBVIOUS
<1>2. Moved(Bytes(name, first, size), n) = Bytes(name, n + first, size)
  BY <1>1, BytesIs
<1> QED
  BY <1>2 DEF AllMoved

(* The fields of IPv4 are at their places behind the header before it. *)
LEMMA Ip4FoundAt ==
  ASSUME NEW fields \in SUBSET Fields, Ip4Fields \subseteq fields, NEW n \in Nat
  PROVE  Ip4At(AllMoved(fields, n), n)
<1>1. /\ "ip4id" \in Names /\ "ip4chksum" \in Names /\ "ip4sip" \in Names /\ "ip4dip" \in Names
  BY DEF Names
<1>2. /\ Bytes("ip4id", 4, 2) \in fields /\ Bytes("ip4chksum", 10, 2) \in fields
      /\ Bytes("ip4sip", 12, 4) \in fields /\ Bytes("ip4dip", 16, 4) \in fields
  BY DEF Ip4Fields
<1>3. /\ Bytes("ip4id", n + 4, 2) \in AllMoved(fields, n)
      /\ Bytes("ip4chksum", n + 10, 2) \in AllMoved(fields, n)
  BY <1>1, <1>2, FoundAt
<1>4. /\ Bytes("ip4sip", n + 12, 4) \in AllMoved(fields, n)
      /\ Bytes("ip4dip", n + 16, 4) \in AllMoved(fields, n)
  BY <1>1, <1>2, FoundAt
<1> QED
  BY <1>3, <1>4 DEF Ip4At

(* So are those of IPv6. *)
LEMMA Ip6FoundAt ==
  ASSUME NEW fields \in SUBSET Fields, Ip6Fields \subseteq fields, NEW n \in Nat
  PROVE  Ip6At(AllMoved(fields, n), n)
<1>1. "ip6sip" \in Names /\ "ip6dip" \in Names
  BY DEF Names
<1>2. Bytes("ip6sip", 8, 16) \in fields /\ Bytes("ip6dip", 24, 16) \in fields
  BY DEF Ip6Fields
<1>3. /\ Bytes("ip6sip", n + 8, 16) \in AllMoved(fields, n)
      /\ Bytes("ip6dip", n + 24, 16) \in AllMoved(fields, n)
  BY <1>1, <1>2, FoundAt
<1> QED
  BY <1>3 DEF Ip6At

(* An IPv4 header, with the options that belong to its length.             *)
Ip4Grown(l, h, len, g) ==
  /\ WholeSoFar(g) /\ g.len = len + 4 * Words(l) /\ g.l3 = h.l3
  /\ h.put \subseteq g.put /\ Ip4At(g.put, len) /\ Words(l) \in 5 .. 15

(* Ip4FromPdr adds a whole IPv4 header. *)
LEMMA Ip4Is ==
  ASSUME NEW l \in Layers, Consistent(l), HasIp4(l),
         NEW h, WholeSoFar(h), NEW len \in Nat, h.len = len, NEW g, g = Ip4FromPdr(l, h)
  PROVE  Ip4Grown(l, h, len, g)
<1>1. PICK w \in 5 .. 15 : w = l.l3.hlen /\ w = Words(l) /\ l.l3.opts = 4 * (w - 5)
  <2>1. l.l3.hlen \in 5 .. 16 /\ l.l3.hlen <= 15 /\ l.l3.opts = 4 * (l.l3.hlen - 5)
    BY DEF Layers, Consistent
  <2>2. PICK w \in 5 .. 15 : w = l.l3.hlen
    BY <2>1
  <2>3. w = Words(l)
    BY <2>2 DEF Words
  <2> QED
    BY <2>1, <2>2, <2>3
<1>2. PICK n \in Nat, opts \in Nat : n = 4 * w /\ opts = 4 * (w - 5) /\ n = 20 + opts
                                     /\ (w > 5 <=> opts > 0)
  BY <1>1
<1>3. PICK fields : fields = Ip4Fields \cup (IF w > 5 THEN {Bytes("options", 20, opts)} ELSE {})
  OBVIOUS
<1>4. fields \in SUBSET Fields /\ Covers(fields, n) /\ Ip4Fields \subseteq fields
  <2>1. CASE w > 5
    <3>1. "options" \in Names /\ 20 \in Nat
      BY DEF Names
    <3>2. /\ Ip4Fields \cup {Bytes("options", 20, opts)} \in SUBSET Fields
          /\ Covers(Ip4Fields \cup {Bytes("options", 20, opts)}, 20 + opts)
      BY <3>1, Ip4Covers, CoversAndOne
    <3> QED
      BY <1>2, <1>3, <2>1, <3>2
  <2>2. CASE ~(w > 5)
    <3>1. n = 20 /\ fields = Ip4Fields
      BY <1>2, <1>3, <2>2
    <3> QED
      BY <3>1, Ip4Covers
  <2> QED
    BY <2>1, <2>2
<1>5. g = Advance(Lay(h, len, fields), n)
  BY <1>1, <1>2, <1>3 DEF Ip4FromPdr
<1>6. /\ WholeSoFar(g) /\ g.len = len + n /\ g.l3 = h.l3
      /\ g.put = h.put \cup AllMoved(fields, len)
  <2>1. Grown(h, len, fields, n, g)
    BY <1>4, <1>5, GrownIs
  <2> QED
    BY <2>1 DEF Grown
<1>7. Ip4At(AllMoved(fields, len), len)
  BY <1>4, Ip4FoundAt
<1>8. Ip4At(g.put, len)
  BY <1>6, <1>7 DEF Ip4At
<1> QED
  BY <1>1, <1>2, <1>6, <1>8 DEF Ip4Grown

Ip6Grown(l, h, len, g) ==
  /\ WholeSoFar(g) /\ g.len \in Nat /\ g.len >= len /\ g.l3 = h.l3
  /\ h.put \subseteq g.put /\ Ip6At(g.put, len)

(* Ip6FromPdr adds a whole IPv6 header with its next headers. *)
LEMMA Ip6Is ==
  ASSUME NEW l \in Layers, Consistent(l),
         NEW h, WholeSoFar(h), NEW len \in Nat, h.len = len, NEW g, g = Ip6FromPdr(l, h)
  PROVE  Ip6Grown(l, h, len, g)
<1>1. PICK n \in Nat : n = Ip6Size + SumTo(l.l3.next)[Len(l.l3.next)]
  <2>1. PICK m \in Nat : m = SumTo(l.l3.next)[Len(l.l3.next)]
    BY NextHeadersCover
  <2>2. Ip6Size + m \in Nat
    BY DEF Ip6Size
  <2> QED
    BY <2>1, <2>2
<1>2. PICK fields \in SUBSET Fields : fields = Ip6Fields \cup NextHeaders(l) /\ Covers(fields, n)
  BY <1>1, NextHeadersCover
<1>3. g = Advance(Lay(h, len, fields), n)
  BY <1>1, <1>2 DEF Ip6FromPdr
<1>4. /\ WholeSoFar(g) /\ g.len = len + n /\ g.l3 = h.l3
      /\ g.put = h.put \cup AllMoved(fields, len)
  <2>1. Grown(h, len, fields, n, g)
    BY <1>2, <1>3, GrownIs
  <2> QED
    BY <2>1 DEF Grown
<1>5. Ip6At(AllMoved(fields, len), len)
  <2>1. Ip6Fields \subseteq fields
    BY <1>2
  <2> QED
    BY <2>1, Ip6FoundAt
<1>6. Ip6At(g.put, len)
  BY <1>4, <1>5 DEF Ip6At
<1> QED
  BY <1>4, <1>6 DEF Ip6Grown

(* What layer 3 adds to h. *)
Layered(l, h, g) ==
  /\ WholeSoFar(g) /\ g.len \in Nat /\ g.len >= h.len /\ h.put \subseteq g.put
  /\ l.l3.kind \notin {"none", "ip4overip6"} => g.l3 = h.len
  /\ l.l3.kind \in {"ip4", "ip6overip4"} => Ip4At(g.put, h.len)
  /\ l.l3.kind = "ip6" => Ip6At(g.put, h.len)
  /\ l.l3.kind = "ip6overip4" => Words(l) \in 5 .. 15 /\ Ip6At(g.put, h.len + 4 * Words(l))

(* Every protocol of layer 3, and IP in IP, leaves the header whole. *)
LEMMA Layer3Is ==
  ASSUME NEW l \in Layers, Consistent(l), NEW h, WholeSoFar(h)
  PROVE  Layered(l, h, Layer3(l, h))
<1>1. PICK len \in Nat : h.len = len
  BY OffsetSet
<1>2. PICK h0 : /\ h0 = [h EXCEPT !.l3 = h.len]
                /\ WholeSoFar(h0) /\ h0.len = len /\ h0.put = h.put /\ h0.l3 = len
  BY <1>1, OffsetSet
<1>3. CASE l.l3.kind = "none"
  BY <1>1, <1>3 DEF Layered, Layer3
<1>4. CASE l.l3.kind = "arp"
  <2>1. PICK n \in Nat : n = 28
    OBVIOUS
  <2>2. PICK fields \in SUBSET Fields : fields = {Bytes("arp", 0, n)} /\ Covers(fields, n)
    <3>1. "arp" \in Names
      BY DEF Names
    <3> QED
      BY <3>1, OneCovers
  <2>3. PICK g : g = Advance(Lay(h0, len, fields), n)
    OBVIOUS
  <2>4. /\ WholeSoFar(g) /\ g.len = len + n /\ g.l3 = h0.l3
        /\ g.put = h0.put \cup AllMoved(fields, len)
    <3>1. Grown(h0, len, fields, n, g)
      BY <1>2, <2>2, <2>3, GrownIs
    <3> QED
      BY <3>1 DEF Grown
  <2>5. g = Layer3(l, h)
    BY <1>1, <1>2, <1>4, <2>1, <2>2, <2>3 DEF Layer3, Arp, ArpSize
  <2>6. g.len \in Nat /\ g.len >= len
    BY <2>4
  <2> QED
    BY <1>1, <1>2, <1>4, <2>4, <2>5, <2>6 DEF Layered
<1>5. CASE l.l3.kind = "ip4"
  <2>1. PICK g : g = Ip4FromPdr(l, h0) /\ g = Layer3(l, h)
    BY <1>2, <1>5 DEF Layer3
  <2>2. HasIp4(l)
    BY <1>5 DEF HasIp4
  <2>3. /\ WholeSoFar(g) /\ g.len = len + 4 * Words(l) /\ g.l3 = h0.l3
        /\ h0.put \subseteq g.put /\ Ip4At(g.put, len) /\ Words(l) \in 5 .. 15
    <3>1. Ip4Grown(l, h0, len, g)
      BY <1>2, <2>1, <2>2, Ip4Is
    <3> QED
      BY <3>1 DEF Ip4Grown
  <2>4. g.len \in Nat /\ g.len >= len
    BY <2>3
  <2> QED
    BY <1>1, <1>2, <1>5, <2>1, <2>3, <2>4 DEF Layered
<1>6. CASE l.l3.kind = "ip6"
  <2>1. PICK g : g = Ip6FromPdr(l, h0) /\ g = Layer3(l, h)
    BY <1>2, <1>6 DEF Layer3
  <2>2. /\ WholeSoFar(g) /\ g.len \in Nat /\ g.len >= len /\ g.l3 = h0.l3
        /\ h0.put \subseteq g.put /\ Ip6At(g.put, len)
    <3>1. Ip6Grown(l, h0, len, g)
      BY <1>2, <2>1, Ip6Is
    <3> QED
      BY <3>1 DEF Ip6Grown
  <2> QED
    BY <1>1, <1>2, <1>6, <2>1, <2>2 DEF Layered
<1>7. CASE l.l3.kind = "ip4overip6"
  <2>1. PICK g1, g : g1 = Ip6FromPdr(l, h) /\ g = Ip4FromPdr(l, g1) /\ g = Layer3(l, h)
    BY <1>7 DEF Layer3, Ip4OverIp6
  <2>2. /\ WholeSoFar(g1) /\ g1.len \in Nat /\ g1.len >= len /\ h.put \subseteq g1.put
    <3>1. Ip6Grown(l, h, len, g1)
      BY <1>1, <2>1, Ip6Is
    <3> QED
      BY <3>1 DEF Ip6Grown
  <2>3. PICK mid \in Nat : g1.len = mid /\ mid >= len
    BY <2>2
  <2>4. HasIp4(l)
    BY <1>7 DEF HasIp4
  <2>5. /\ WholeSoFar(g) /\ g.len = mid + 4 * Words(l)
        /\ g1.put \subseteq g.put /\ Words(l) \in 5 .. 15
    <3>1. Ip4Grown(l, g1, mid, g)
      BY <2>1, <2>2, <2>3, <2>4, Ip4Is
    <3> QED
      BY <3>1 DEF Ip4Grown
  <2>6. g.len \in Nat /\ g.len >= len
    BY <2>3, <2>5
  <2> QED
    BY <1>1, <1>7, <2>1, <2>2, <2>5, <2>6 DEF Layered
<1>8. CASE l.l3.kind = "ip6overip4"
  <2>1. PICK g1, g : g1 = Ip4FromPdr(l, h0) /\ g = Ip6FromPdr(l, g1) /\ g = Layer3(l, h)
    BY <1>2, <1>8 DEF Layer3, Ip6OverIp4
  <2>2. HasIp4(l)
    BY <1>8 DEF HasIp4
  <2>3. /\ WholeSoFar(g1) /\ g1.len = len + 4 * Words(l) /\ g1.l3 = h0.l3
        /\ h0.put \subseteq g1.put /\ Ip4At(g1.put, len) /\ Words(l) \in 5 .. 15
    <3>1. Ip4Grown(l, h0, len, g1)
      BY <1>2, <2>1, <2>2, Ip4Is
    <3> QED
      BY <3>1 DEF Ip4Grown
  <2>4. PICK mid \in Nat : g1.len = mid /\ mid >= len /\ mid = len + 4 * Words(l)
    BY <2>3
  <2>5. /\ WholeSoFar(g) /\ g.len \in Nat /\ g.len >= mid /\ g.l3 = g1.l3
        /\ g1.put \subseteq g.put /\ Ip6At(g.put, mid)
    <3>1. Ip6Grown(l, g1, mid, g)
      BY <2>1, <2>3, <2>4, Ip6Is
    <3> QED
      BY <3>1 DEF Ip6Grown
  <2>6. Ip4At(g.put, len)
    BY <2>3, <2>5 DEF Ip4At
  <2>7. g.len >= len
    BY <2>4, <2>5
  <2> QED
    BY <1>1, <1>2, <1>8, <2>1, <2>3, <2>4, <2>5, <2>6, <2>7 DEF Layered
<1>9. l.l3.kind \in {"none", "arp", "ip4", "ip6", "ip4overip6", "ip6overip4"}
  BY DEF Layers
<1> QED
  BY <1>3, <1>4, <1>5, <1>6, <1>7, <1>8, <1>9

-----------------------------------------------------------------------------
(* Layer 4 and the header as a whole *)

(* Fields that begin behind the header's end are not sent.                 *)
Beyond(h, put, rest) ==
  /\ h \in Headers /\ Covers(put, h.len) /\ h.put = put \cup rest
  /\ \A f \in rest : f.first >= h.len

(* Fields that cover the header fill it, whatever is behind its end. *)
LEMMA FilledIs ==
  ASSUME NEW h, NEW put, NEW rest, Beyond(h, put, rest)
  PROVE  Filled(h) = 0 .. h.len - 1
<1>0. /\ h \in Headers /\ Covers(put, h.len) /\ h.put = put \cup rest
      /\ \A f \in rest : f.first >= h.len
  BY DEF Beyond
<1>1. PICK len \in Nat : len = h.len
  BY <1>0 DEF Headers
<1>2. ASSUME NEW f \in Sent(h)
      PROVE  f \in put /\ f.first \in Nat /\ f.size \in Nat /\ f.first + f.size <= len
  <2>1. f \in h.put /\ f.first < len
    BY <1>1 DEF Sent
  <2>2. f.first \in Int /\ f.size \in Nat
    BY <1>0, <2>1 DEF Headers, Fields
  <2>3. f \notin rest
    BY <1>0, <1>1, <2>1, <2>2
  <2> QED
    BY <1>0, <1>1, <2>1, <2>2, <2>3 DEF Covers
<1>3. ASSUME NEW b \in 0 .. len - 1 PROVE b \in Filled(h)
  <2>1. PICK f \in put : f.first <= b /\ b < f.first + f.size
    BY <1>0, <1>1, <1>3 DEF Covers
  <2>2. f.first \in Int /\ f.size \in Nat
    BY <1>0 DEF Headers, Fields
  <2>3. f \in Sent(h)
    BY <1>0, <1>1, <2>1, <2>2 DEF Sent
  <2>4. b \in f.first .. f.first + f.size - 1
    BY <2>1, <2>2
  <2> QED
    BY <2>3, <2>4 DEF Filled
<1>4. ASSUME NEW b \in Filled(h) PROVE b \in 0 .. len - 1
  <2>1. PICK f \in Sent(h) : b \in f.first .. f.first + f.size - 1
    BY <1>4 DEF Filled
  <2> QED
    BY <1>2, <2>1
<1> QED
  BY <1>1, <1>3, <1>4

(* A whole header is filled. *)
LEMMA WholeIsFilled ==
  ASSUME NEW h, WholeSoFar(h)
  PROVE  Filled(h) = 0 .. h.len - 1
<1>1. Beyond(h, h.put, {})
  BY DEF WholeSoFar, Beyond
<1> QED
  BY <1>1, FilledIs

(* What layer 4 adds to h. *)
PortsAt(put, n, chksum) ==
  {Bytes("sport", n, 2), Bytes("dport", n + 2, 2), Bytes("l4chksum", n + chksum, 2)} \subseteq put

Finished(l, h, g) ==
  /\ g \in Headers /\ g.len >= h.len /\ h.put \subseteq g.put
  /\ Filled(g) = 0 .. g.len - 1 /\ g.l3 = h.l3
  /\ l.l4.kind # "none" => g.l4 = h.len
  /\ l.l4.kind \notin {"none", "igmp"} => h.len + Summed(l) + l.l4.opts = g.len
  /\ l.l4.kind = "tcp" => PortsAt(g.put, h.len, 16)
  /\ l.l4.kind = "udp" => PortsAt(g.put, h.len, 6)

(* The fields of TCP and UDP are at their places. *)
LEMMA PortsFoundAt ==
  ASSUME NEW fields \in SUBSET Fields, NEW n \in Nat, NEW chksum \in Nat,
         PortsAt(fields, 0, chksum)
  PROVE  PortsAt(AllMoved(fields, n), n, chksum)
<1>1. "sport" \in Names /\ "dport" \in Names /\ "l4chksum" \in Names
  BY DEF Names
<1>2. /\ Bytes("sport", 0, 2) \in fields /\ Bytes("dport", 2, 2) \in fields
      /\ Bytes("l4chksum", chksum, 2) \in fields
  BY DEF PortsAt
<1>3. Bytes("sport", n + 0, 2) \in AllMoved(fields, n)
  BY <1>1, <1>2, FoundAt
<1>4. Bytes("dport", n + 2, 2) \in AllMoved(fields, n)
  BY <1>1, <1>2, FoundAt
<1>5. Bytes("l4chksum", n + chksum, 2) \in AllMoved(fields, n)
  BY <1>1, <1>2, FoundAt
<1> QED
  BY <1>3, <1>4, <1>5 DEF PortsAt

(* The header of a protocol whose fields all lie before its end.           *)
LEMMA FinishedWhole ==
  ASSUME NEW h, NEW len \in Nat, NEW fields, NEW n \in Nat, NEW g,
         Grown(h, len, fields, n, g)
  PROVE  /\ g \in Headers /\ g.len >= len /\ h.put \subseteq g.put
         /\ Filled(g) = 0 .. g.len - 1 /\ g.l3 = h.l3 /\ g.l4 = h.l4
         /\ g.len = len + n /\ AllMoved(fields, len) \subseteq g.put
<1>1. /\ WholeSoFar(g) /\ g.len = len + n /\ g.l3 = h.l3 /\ g.l4 = h.l4
      /\ g.put = h.put \cup AllMoved(fields, len)
  BY DEF Grown
<1>2. g \in Headers
  BY <1>1 DEF WholeSoFar
<1>3. Filled(g) = 0 .. g.len - 1
  BY <1>1, WholeIsFilled
<1> QED
  BY <1>1, <1>2, <1>3

(* The TCP header with the options that belong to its length. *)
LEMMA TcpIs ==
  ASSUME NEW l \in Layers, Consistent(l), l.l4.kind = "tcp",
         NEW h, WholeSoFar(h), NEW len \in Nat, h.len = len, h.l4 = len, NEW g, g = Tcp(l, h)
  PROVE  Finished(l, h, g)
<1>1. PICK w \in 5 .. 15, opts \in Nat : w = l.l4.words /\ opts = l.l4.opts /\ opts = 4 * (w - 5)
  <2>1. l.l4.words \in 5 .. 15 /\ l.l4.opts \in Nat /\ l.l4.opts = 4 * (l.l4.words - 5)
    BY DEF Layers, Consistent
  <2> QED
    BY <2>1
<1>2. PICK n \in Nat : n = 4 * w /\ n = 20 + opts
  <2>1. 4 * w \in Nat /\ 4 * w = 20 + 4 * (w - 5)
    OBVIOUS
  <2>2. 4 * w = 20 + opts
    BY <1>1, <2>1
  <2> QED
    BY <2>1, <2>2
<1>3. PICK fields : fields = TcpFields \cup (IF opts > 0 THEN {Bytes("tcpoptions", 20, opts)}
                                             ELSE {})
  OBVIOUS
<1>4. fields \in SUBSET Fields /\ Covers(fields, n)
  <2>1. CASE opts > 0
    <3>1. "tcpoptions" \in Names /\ 20 \in Nat
      BY DEF Names
    <3>2. /\ TcpFields \cup {Bytes("tcpoptions", 20, opts)} \in SUBSET Fields
          /\ Covers(TcpFields \cup {Bytes("tcpoptions", 20, opts)}, 20 + opts)
      BY <3>1, TcpCovers, CoversAndOne
    <3> QED
      BY <1>2, <1>3, <2>1, <3>2
  <2>2. CASE ~(opts > 0)
    <3>1. n = 20 /\ fields = TcpFields
      BY <1>2, <1>3, <2>2
    <3> QED
      BY <3>1, TcpCovers
  <2> QED
    BY <2>1, <2>2
<1>5. g = Advance(Lay(h, len, fields), n)
  BY <1>1, <1>2, <1>3 DEF Tcp
<1>6. Grown(h, len, fields, n, g)
  BY <1>4, <1>5, GrownIs
<1>7. /\ g \in Headers /\ g.len >= len /\ h.put \subseteq g.put
      /\ Filled(g) = 0 .. g.len - 1 /\ g.l3 = h.l3 /\ g.l4 = h.l4
      /\ g.len = len + n /\ AllMoved(fields, len) \subseteq g.put
  BY <1>4, <1>6, FinishedWhole
<1>8. PortsAt(fields, 0, 16)
  BY <1>3 DEF PortsAt, TcpFields
<1>9. PICK chksum \in Nat : chksum = 16
  OBVIOUS
<1>10. PortsAt(AllMoved(fields, len), len, chksum)
  BY <1>4, <1>8, <1>9, PortsFoundAt
<1>11. PortsAt(g.put, len, 16)
  BY <1>7, <1>9, <1>10 DEF PortsAt
<1>12. len + Summed(l) + l.l4.opts = len + n
  BY <1>1, <1>2 DEF Summed
<1> QED
  BY <1>7, <1>11, <1>12 DEF Finished

(* The UDP header. *)
LEMMA UdpIs ==
  ASSUME NEW l \in Layers, Consistent(l), l.l4.kind = "udp",
         NEW h, WholeSoFar(h), NEW len \in Nat, h.len = len, h.l4 = len, NEW g, g = Udp(h)
  PROVE  Finished(l, h, g)
<1>1. PICK n \in Nat, fields \in SUBSET Fields : n = 8 /\ fields = UdpFields /\ Covers(fields, n)
  <2>1. PICK n \in Nat : n = 8
    OBVIOUS
  <2> QED
    BY <2>1, UdpCovers
<1>2. g = Advance(Lay(h, len, fields), n)
  BY <1>1 DEF Udp
<1>3. Grown(h, len, fields, n, g)
  BY <1>1, <1>2, GrownIs
<1>4. /\ g \in Headers /\ g.len >= len /\ h.put \subseteq g.put
      /\ Filled(g) = 0 .. g.len - 1 /\ g.l3 = h.l3 /\ g.l4 = h.l4
      /\ g.len = len + n /\ AllMoved(fields, len) \subseteq g.put
  BY <1>3, FinishedWhole
<1>5. PortsAt(fields, 0, 6)
  BY <1>1 DEF PortsAt, UdpFields
<1>6. PICK chksum \in Nat : chksum = 6
  OBVIOUS
<1>7. PortsAt(AllMoved(fields, len), len, chksum)
  BY <1>5, <1>6, PortsFoundAt
<1>8. PortsAt(g.put, len, 6)
  BY <1>4, <1>6, <1>7 DEF PortsAt
<1>9. Summed(l) = 8 /\ l.l4.opts = 0
  BY DEF Summed, Consistent
<1> QED
  BY <1>1, <1>4, <1>8, <1>9 DEF Finished

(* The IGMP header. *)
LEMMA IgmpIs ==
  ASSUME NEW l \in Layers, l.l4.kind = "igmp",
         NEW h, WholeSoFar(h), NEW len \in Nat, h.len = len, h.l4 = len, NEW g, g = Igmp(h)
  PROVE  Finished(l, h, g)
<1>1. PICK n \in Nat, fields \in SUBSET Fields : n = 8 /\ fields = IgmpFields /\ Covers(fields, n)
  <2>1. PICK n \in Nat : n = 8
    OBVIOUS
  <2> QED
    BY <2>1, IgmpCovers
<1>2. g = Advance(Lay(h, len, fields), n)
  BY <1>1 DEF Igmp
<1>3. Grown(h, len, fields, n, g)
  BY <1>1, <1>2, GrownIs
<1>4. /\ g \in Headers /\ g.len >= len /\ h.put \subseteq g.put
      /\ Filled(g) = 0 .. g.len - 1 /\ g.l3 = h.l3 /\ g.l4 = h.l4
      /\ g.len = len + n /\ AllMoved(fields, len) \subseteq g.put
  BY ONLY <1>3, FinishedWhole
<1> QED
  BY <1>4 DEF Finished

(* The data of a message without identifier begin where the header ends.   *)
LEMMA IcmpIs ==
  ASSUME NEW l \in Layers, Consistent(l), l.l4.kind = "icmp",
         NEW h, WholeSoFar(h), NEW len \in Nat, h.len = len, h.l4 = len, NEW g, g = Icmp(l, h)
  PROVE  Finished(l, h, g)
<1>1. Summed(l) = (IF HasData(l) THEN 8 ELSE 4) /\ l.l4.opts = 0
  BY DEF Summed, Consistent
<1>2. CASE HasData(l)
  <2>1. PICK n \in Nat, fields \in SUBSET Fields :
          n = 8 /\ fields = IcmpFields /\ Covers(fields, n)
    <3>1. PICK n \in Nat : n = 8
      OBVIOUS
    <3> QED
      BY <3>1, IcmpCovers
  <2>2. g = Advance(Lay(h, len, fields), n)
    BY <1>2, <2>1 DEF Icmp
  <2>3. Grown(h, len, fields, n, g)
    BY <2>1, <2>2, GrownIs
  <2>4. /\ g \in Headers /\ g.len >= len /\ h.put \subseteq g.put
        /\ Filled(g) = 0 .. g.len - 1 /\ g.l3 = h.l3 /\ g.l4 = h.l4
        /\ g.len = len + n /\ AllMoved(fields, len) \subseteq g.put
    BY <2>3, FinishedWhole
  <2> QED
    BY <1>1, <1>2, <2>1, <2>4 DEF Finished
<1>3. CASE ~HasData(l)
  <2>1. PICK n \in Nat : n = 4
    OBVIOUS
  <2>2. PICK part \in SUBSET Fields :
          part = {f \in IcmpFields : f.first < 4} /\ Covers(part, n)
    BY <2>1, IcmpCovers
  <2>3. h \in Headers /\ Covers(h.put, h.len) /\ IcmpFields \in SUBSET Fields
        /\ \A f \in IcmpFields : f.first \in Nat
    BY IcmpCovers DEF WholeSoFar
  <2>4. PICK g0 : g0 = Advance(Lay(h, h.len, IcmpFields), n)
    OBVIOUS
  <2>5. /\ g0 \in Headers /\ g0.len = h.len + n
        /\ g0.put = h.put \cup AllMoved(IcmpFields, h.len)
        /\ g0.tag = h.tag /\ g0.l3 = h.l3 /\ g0.l4 = h.l4
    BY <2>3, <2>4, Appended
  <2>6. g = g0
    BY <1>3, <2>1, <2>4 DEF Icmp
  <2>7. PICK rest \in SUBSET Fields : rest = IcmpFields \ part /\ \A f \in rest : f.first >= 4
    <3>1. \A f \in IcmpFields \ part : f.first >= 4
      BY <2>2, <2>3
    <3> QED
      BY <2>3, <3>1
  <2>8. PICK put : put = h.put \cup AllMoved(part, len)
    OBVIOUS
  <2>9. Covers(put, len + n)
    <3>1. h.put \in SUBSET Fields /\ Covers(h.put, len)
      BY <2>3 DEF Headers
    <3> QED
      BY <2>2, <2>8, <3>1, CoversMore
  <2>10. \A f \in AllMoved(rest, len) : f.first >= len + n
    <3> SUFFICES ASSUME NEW e \in rest PROVE Moved(e, len).first >= len + n
      BY DEF AllMoved
    <3>1. len \in Int /\ e \in Fields /\ e.first >= 4 /\ e.first \in Nat
      BY <2>3, <2>7
    <3>2. Moved(e, len).first = len + e.first
      BY <3>1, MovedIs
    <3> QED
      BY <2>1, <3>1, <3>2
  <2>11. AllMoved(IcmpFields, len) = AllMoved(part, len) \cup AllMoved(rest, len)
    <3>1. IcmpFields = part \cup rest
      BY <2>2, <2>7
    <3> QED
      BY <3>1 DEF AllMoved
  <2>12. g.len = len + n /\ g.put = put \cup AllMoved(rest, len) /\ g \in Headers
    BY <2>5, <2>6, <2>8, <2>11
  <2>13. Filled(g) = 0 .. g.len - 1
    <3>1. Beyond(g, put, AllMoved(rest, len))
      BY <2>9, <2>10, <2>12 DEF Beyond
    <3> QED
      BY <3>1, FilledIs
  <2>14. g.len >= len /\ h.put \subseteq g.put /\ g.l3 = h.l3 /\ g.l4 = len
    BY <2>5, <2>6, <2>12
  <2>15. len + Summed(l) + l.l4.opts = g.len
    BY <1>1, <1>3, <2>1, <2>12
  <2> QED
    BY <2>12, <2>13, <2>14, <2>15 DEF Finished
<1> QED
  BY <1>2, <1>3

(* Every protocol of layer 4 leaves a header without a hole. *)
LEMMA Layer4Is ==
  ASSUME NEW l \in Layers, Consistent(l), NEW h, WholeSoFar(h)
  PROVE  Finished(l, h, Layer4(l, h))
<1>1. PICK len \in Nat : h.len = len
  BY OffsetSet
<1>2. PICK h0 : /\ h0 = [h EXCEPT !.l4 = h.len]
                /\ WholeSoFar(h0) /\ h0.len = len /\ h0.put = h.put /\ h0.l4 = len
                /\ h0.l3 = h.l3
  BY <1>1, OffsetSet
<1>3. CASE l.l4.kind = "none"
  <2>1. h \in Headers
    BY DEF WholeSoFar
  <2>2. Filled(h) = 0 .. h.len - 1
    BY WholeIsFilled
  <2>3. h.len >= h.len
    BY <1>1
  <2> QED
    BY <1>3, <2>1, <2>2, <2>3 DEF Finished, Layer4
<1>4. \A g : Finished(l, h0, g) => Finished(l, h, g)
  BY <1>1, <1>2 DEF Finished
<1>5. CASE l.l4.kind = "tcp"
  <2>1. PICK g : g = Tcp(l, h0) /\ g = Layer4(l, h)
    BY <1>2, <1>5 DEF Layer4
  <2>2. Finished(l, h0, g)
    BY <1>2, <1>5, <2>1, TcpIs
  <2> QED
    BY <1>4, <2>1, <2>2
<1>6. CASE l.l4.kind = "udp"
  <2>1. PICK g : g = Udp(h0) /\ g = Layer4(l, h)
    BY <1>2, <1>6 DEF Layer4
  <2>2. Finished(l, h0, g)
    BY <1>2, <1>6, <2>1, UdpIs
  <2> QED
    BY <1>4, <2>1, <2>2
<1>7. CASE l.l4.kind = "icmp"
  <2>1. PICK g : g = Icmp(l, h0) /\ g = Layer4(l, h)
    BY <1>2, <1>7 DEF Layer4
  <2>2. Finished(l, h0, g)
    BY <1>2, <1>7, <2>1, IcmpIs
  <2> QED
    BY <1>4, <2>1, <2>2
<1>8. CASE l.l4.kind = "igmp"
  <2>1. PICK g : g = Igmp(h0) /\ g = Layer4(l, h)
    BY <1>2, <1>8 DEF Layer4
  <2>2. Finished(l, h0, g)
    BY <1>2, <1>8, <2>1, IgmpIs
  <2> QED
    BY <1>4, <2>1, <2>2
<1>9. l.l4.kind \in {"none", "tcp", "udp", "icmp", "igmp"}
  BY DEF Layers
<1> QED
  BY <1>3, <1>5, <1>6, <1>7, <1>8, <1>9

(* A field is at this place of the header. *)
Placed(g, name, n) == n \in Nat /\ n <= g.len /\ At(g, name, n)
Ip4Placed(g, n) == /\ Placed(g, "ip4id", n + 4) /\ Placed(g, "ip4chksum", n + 10)
                   /\ Placed(g, "ip4sip", n + 12) /\ Placed(g, "ip4dip", n + 16)
Ip6Placed(g, n) == Placed(g, "ip6sip", n + 8) /\ Placed(g, "ip6dip", n + 24)
PortsPlaced(g, n, chksum) ==
  /\ Placed(g, "sport", n) /\ Placed(g, "dport", n + 2) /\ Placed(g, "l4chksum", n + chksum)

(* A field that is in the header when a layer is finished stays there. *)
LEMMA PlacedIs ==
  ASSUME NEW h, WholeSoFar(h), NEW g, h.put \subseteq g.put, g.len \in Int, g.len >= h.len,
         NEW name, NEW n, NEW size, Bytes(name, n, size) \in h.put
  PROVE  Placed(g, name, n)
<1>1. PICK f : f = Bytes(name, n, size) /\ f \in h.put
  OBVIOUS
<1>2. f.name = name /\ f.first = n
  BY <1>1 DEF Bytes
<1>3. f.first \in Nat /\ f.size \in Nat /\ h.len \in Nat /\ f.first + f.size <= h.len
  BY <1>1 DEF WholeSoFar, Headers, Fields, Covers
<1>4. n \in Nat /\ n <= g.len
  BY <1>2, <1>3
<1>5. At(g, name, n)
  BY <1>1, <1>2 DEF At
<1> QED
  BY <1>4, <1>5 DEF Placed

(* What is true of every header, and of those that are not of IPv4 in IPv6. *)
HeaderIs(l, g) ==
  /\ g \in Headers /\ Filled(g) = 0 .. g.len - 1
  /\ l.eth = "typed" /\ l.l3.kind \notin {"none", "ip4overip6"} =>
       Bytes("type", g.l3 - Labels(l) - 2, 2) \in g.put
  /\ l.eth # "none" => Placed(g, "dest", EthernetAt(l)) /\ Placed(g, "src", EthernetAt(l) + 6)
  /\ l.l3.kind \in {"ip4", "ip6overip4"} => Ip4Placed(g, g.l3)
  /\ l.l3.kind = "ip6" => Ip6Placed(g, g.l3)
  /\ l.l3.kind = "ip6overip4" => Ip6Placed(g, g.l3 + 4 * Words(l))
  /\ l.l4.kind = "tcp" => PortsPlaced(g, g.l4, 16)
  /\ l.l4.kind = "udp" => PortsPlaced(g, g.l4, 6)
  /\ l.l4.kind \notin {"none", "igmp"} => g.l4 + Summed(l) + l.l4.opts = g.len

(* The header of any layers whose records agree with themselves. *)
LEMMA MakeHeaderIs ==
  ASSUME NEW l \in Layers, Consistent(l)
  PROVE  HeaderIs(l, MakeHeader(l))
<1>1. PICK t, u, g : /\ t = Tag(l, Ethernet(l, Isl(l, Blank)))
                     /\ u = Layer3(l, t) /\ g = Layer4(l, u) /\ g = MakeHeader(l)
  BY DEF MakeHeader
<1>2. Tagged(l, t)
  BY <1>1, TagIs
<1>3. Layered(l, t, u)
  BY <1>1, <1>2, Layer3Is DEF Tagged
<1>4. Finished(l, u, g)
  BY <1>1, <1>3, Layer4Is DEF Layered
<1>5. WholeSoFar(t) /\ WholeSoFar(u) /\ g \in Headers
  BY <1>2, <1>3, <1>4 DEF Tagged, Layered, Finished
<1>6. /\ t.len \in Nat /\ u.len \in Nat /\ g.len \in Nat /\ t.len <= u.len /\ u.len <= g.len
      /\ t.put \subseteq u.put /\ u.put \subseteq g.put /\ t.put \subseteq g.put
  <2>1. t.len \in Nat /\ u.len \in Nat /\ g.len \in Nat
    BY <1>5, OffsetSet DEF Headers
  <2>2. t.len <= u.len /\ u.len <= g.len /\ t.put \subseteq u.put /\ u.put \subseteq g.put
    BY <1>3, <1>4, <2>1 DEF Layered, Finished
  <2> QED
    BY <2>1, <2>2
<1>7. Filled(g) = 0 .. g.len - 1
  BY <1>4 DEF Finished
<1>8. l.l3.kind \notin {"none", "ip4overip6"} => g.l3 = t.len
  BY <1>3, <1>4 DEF Layered, Finished
<1>9. l.eth = "typed" /\ l.l3.kind \notin {"none", "ip4overip6"} =>
        Bytes("type", g.l3 - Labels(l) - 2, 2) \in g.put
  BY <1>2, <1>6, <1>8 DEF Tagged
<1>10. l.eth # "none" =>
         Placed(g, "dest", EthernetAt(l)) /\ Placed(g, "src", EthernetAt(l) + 6)
  <2> SUFFICES ASSUME l.eth # "none"
               PROVE  Placed(g, "dest", EthernetAt(l)) /\ Placed(g, "src", EthernetAt(l) + 6)
    OBVIOUS
  <2>1. Bytes("dest", EthernetAt(l), 6) \in u.put /\ Bytes("src", EthernetAt(l) + 6, 6) \in u.put
    BY <1>2, <1>6 DEF Tagged, Addressed
  <2>2. g.len \in Int /\ g.len >= u.len
    BY <1>6
  <2>3. PICK n : n = EthernetAt(l) + 6
    OBVIOUS
  <2>4. Placed(g, "dest", EthernetAt(l))
    BY <1>5, <1>6, <2>1, <2>2, PlacedIs
  <2>5. Placed(g, "src", n)
    BY <1>5, <1>6, <2>1, <2>2, <2>3, PlacedIs
  <2> QED
    BY <2>3, <2>4, <2>5
<1>11. ASSUME NEW n, Ip4At(u.put, n) PROVE Ip4Placed(g, n)
  <2>1. g.len \in Int /\ g.len >= u.len
    BY <1>6
  <2>2. PICK a, b, c, d : a = n + 4 /\ b = n + 10 /\ c = n + 12 /\ d = n + 16
    OBVIOUS
  <2>3. /\ Bytes("ip4id", a, 2) \in u.put /\ Bytes("ip4chksum", b, 2) \in u.put
        /\ Bytes("ip4sip", c, 4) \in u.put /\ Bytes("ip4dip", d, 4) \in u.put
    BY <1>11, <2>2 DEF Ip4At
  <2>4. Placed(g, "ip4id", a) /\ Placed(g, "ip4chksum", b)
    BY <1>5, <1>6, <2>1, <2>3, PlacedIs
  <2>5. Placed(g, "ip4sip", c) /\ Placed(g, "ip4dip", d)
    BY <1>5, <1>6, <2>1, <2>3, PlacedIs
  <2> QED
    BY <2>2, <2>4, <2>5 DEF Ip4Placed
<1>12. ASSUME NEW n, Ip6At(u.put, n) PROVE Ip6Placed(g, n)
  <2>1. g.len \in Int /\ g.len >= u.len
    BY <1>6
  <2>2. PICK a, b : a = n + 8 /\ b = n + 24
    OBVIOUS
  <2>3. Bytes("ip6sip", a, 16) \in u.put /\ Bytes("ip6dip", b, 16) \in u.put
    BY <1>12, <2>2 DEF Ip6At
  <2>4. Placed(g, "ip6sip", a) /\ Placed(g, "ip6dip", b)
    BY <1>5, <1>6, <2>1, <2>3, PlacedIs
  <2> QED
    BY <2>2, <2>4 DEF Ip6Placed
<1>13. /\ l.l3.kind \in {"ip4", "ip6overip4"} => Ip4Placed(g, g.l3)
       /\ l.l3.kind = "ip6" => Ip6Placed(g, g.l3)
       /\ l.l3.kind = "ip6overip4" => Ip6Placed(g, g.l3 + 4 * Words(l))
  <2>1. /\ l.l3.kind \in {"ip4", "ip6overip4"} => Ip4At(u.put, t.len)
        /\ l.l3.kind = "ip6" => Ip6At(u.put, t.len)
        /\ l.l3.kind = "ip6overip4" => Ip6At(u.put, t.len + 4 * Words(l))
    BY <1>3 DEF Layered
  <2> QED
    BY <1>8, <1>11, <1>12, <2>1
<1>14. /\ l.l4.kind # "none" => g.l4 = u.len
       /\ l.l4.kind \notin {"none", "igmp"} => g.l4 + Summed(l) + l.l4.opts = g.len
  BY <1>4 DEF Finished
<1>15. ASSUME NEW chksum \in Nat, PortsAt(g.put, u.len, chksum), u.len + chksum <= g.len, chksum >= 2
       PROVE  PortsPlaced(g, u.len, chksum)
  <2>1. \A n, name : Bytes(name, n, 2) \in g.put => At(g, name, n)
    BY DEF At, Bytes
  <2>2. PICK a, b, c \in Nat : a = u.len /\ b = a + 2 /\ c = a + chksum
    BY <1>6
  <2>3. At(g, "sport", a) /\ At(g, "dport", b) /\ At(g, "l4chksum", c)
    BY <1>15, <2>1, <2>2 DEF PortsAt
  <2>4. a <= g.len /\ b <= g.len /\ c <= g.len
    BY <1>6, <1>15, <2>2
  <2> QED
    BY <2>2, <2>3, <2>4 DEF PortsPlaced, Placed
<1>16. l.l4.kind = "tcp" => PortsPlaced(g, g.l4, 16)
  <2> SUFFICES ASSUME l.l4.kind = "tcp" PROVE PortsPlaced(g, u.len, 16)
    BY <1>14
  <2>1. PortsAt(g.put, u.len, 16)
    BY <1>4 DEF Finished
  <2>2. Summed(l) = 20 /\ l.l4.opts \in Nat
    BY DEF Summed, Layers
  <2>3. u.len + 20 + l.l4.opts = g.len
    BY <1>14, <2>2
  <2>4. u.len + 16 <= g.len
    BY <1>6, <2>2, <2>3
  <2> QED
    BY <1>15, <2>1, <2>4
<1>17. l.l4.kind = "udp" => PortsPlaced(g, g.l4, 6)
  <2> SUFFICES ASSUME l.l4.kind = "udp" PROVE PortsPlaced(g, u.len, 6)
    BY <1>14
  <2>1. PortsAt(g.put, u.len, 6)
    BY <1>4 DEF Finished
  <2>2. Summed(l) = 8 /\ l.l4.opts \in Nat
    BY DEF Summed, Layers
  <2>3. u.len + 8 + l.l4.opts = g.len
    BY <1>14, <2>2
  <2>4. u.len + 6 <= g.len
    BY <1>6, <2>2, <2>3
  <2> QED
    BY <1>15, <2>1, <2>4
<1>18. HeaderIs(l, g)
  BY <1>5, <1>7, <1>9, <1>10, <1>13, <1>14, <1>16, <1>17 DEF HeaderIs
<1> QED
  BY <1>1, <1>18

(* The distances fit their register, and lead to the fields they name.     *)
LEMMA DistancesLead ==
  ASSUME NEW l \in Layers, l.l3.kind # "ip4overip6", NEW g, HeaderIs(l, g), g.len <= HeaderRoom
  PROVE  \A d \in Distances(l, g) : At(g, d[1], d[2])
<1>1. g.len \in Nat /\ g.len < 256
  BY DEF HeaderIs, Headers, HeaderRoom
<1>2. \A name, n : Placed(g, name, n) => n % 256 = n /\ At(g, name, n)
  BY <1>1 DEF Placed
<1>3. \A d \in MacDistances(l) : Placed(g, d[1], d[2])
  BY DEF MacDistances, HeaderIs, EthernetAt
<1>4. \A d \in Ip6Distances(l, g) : Placed(g, d[1], d[2])
  <2>1. CASE l.l3.kind = "ip6"
    <3>1. Ip6Placed(g, g.l3)
      BY <2>1 DEF HeaderIs
    <3>2. g.l3 \in Nat
      BY DEF HeaderIs, Headers
    <3>3. Ip6Distances(l, g) = {<<"ip6sip", g.l3 + 8>>}
      BY <2>1, <3>2 DEF Ip6Distances, HasIp6
    <3> QED
      BY <3>1, <3>3 DEF Ip6Placed
  <2>2. CASE l.l3.kind = "ip6overip4"
    <3>1. Ip6Placed(g, g.l3 + 4 * Words(l))
      BY <2>2 DEF HeaderIs
    <3>2. g.l3 \in Nat /\ Words(l) \in Nat
      <4>1. l.l3.hlen \in 5 .. 16
        BY DEF Layers
      <4>2. Words(l) \in Nat
        BY <4>1 DEF Words
      <4> QED
        BY <4>2 DEF HeaderIs, Headers
    <3>3. PICK w \in Nat : w = 4 * Words(l)
      BY <3>2
    <3>4. (g.l3 + w) + 8 = g.l3 + 8 + w
      BY <3>2
    <3>5. Ip6Distances(l, g) = {<<"ip6sip", (g.l3 + w) + 8>>}
      BY <2>2, <3>3, <3>4 DEF Ip6Distances, HasIp6, Ip4Length
    <3> QED
      BY <3>1, <3>3, <3>5 DEF Ip6Placed
  <2>3. CASE l.l3.kind \notin {"ip6", "ip6overip4"}
    BY <2>3 DEF Ip6Distances, HasIp6
  <2> QED
    BY <2>1, <2>2, <2>3
<1>5. \A d \in Ip4Distances(l, g) : Placed(g, d[1], d[2])
  <2>1. CASE l.l3.kind \in {"ip4", "ip6overip4"}
    <3>1. Ip4Placed(g, g.l3)
      BY <2>1 DEF HeaderIs
    <3>2. PICK n \in Nat : n = g.l3 /\ n + 10 + 0 = n + 10 /\ (n + 10) + 2 = n + 12
      BY DEF HeaderIs, Headers
    <3>3. Ip4Distances(l, g) =
            {<<"ip4chksum", n + 10>>, <<"ip4sip", n + 12>>, <<"ip4id", n + 4>>}
      BY <2>1, <3>2 DEF Ip4Distances, HasIp4
    <3> QED
      BY <3>1, <3>2, <3>3 DEF Ip4Placed
  <2>2. CASE l.l3.kind \notin {"ip4", "ip6overip4"}
    BY <2>2 DEF Ip4Distances, HasIp4
  <2> QED
    BY <2>1, <2>2
<1>6. \A d \in PortDistances(l, g) : Placed(g, d[1], d[2])
  <2>1. CASE l.l4.kind = "tcp"
    <3>1. PortDistances(l, g) = {<<"sport", g.l4>>, <<"l4chksum", g.l4 + 16>>}
      BY <2>1 DEF PortDistances, HasPorts
    <3>2. PortsPlaced(g, g.l4, 16)
      BY <2>1 DEF HeaderIs
    <3> QED
      BY <3>1, <3>2 DEF PortsPlaced
  <2>2. CASE l.l4.kind = "udp"
    <3>1. PortDistances(l, g) = {<<"sport", g.l4>>, <<"l4chksum", g.l4 + 6>>}
      BY <2>2 DEF PortDistances, HasPorts
    <3>2. PortsPlaced(g, g.l4, 6)
      BY <2>2 DEF HeaderIs
    <3> QED
      BY <3>1, <3>2 DEF PortsPlaced
  <2>3. CASE l.l4.kind \notin {"tcp", "udp"}
    BY <2>3 DEF PortDistances, HasPorts
  <2> QED
    BY <2>1, <2>2, <2>3
<1>7. ASSUME NEW d \in Distances(l, g) PROVE At(g, d[1], d[2])
  <2>1. PICK e \in MacDistances(l) \cup Ip6Distances(l, g)
                    \cup Ip4Distances(l, g) \cup PortDistances(l, g) : d = <<e[1], e[2] % 256>>
    BY <1>7 DEF Distances
  <2>2. PICK name, n : name = e[1] /\ n = e[2]
    OBVIOUS
  <2>3. Placed(g, name, n)
    BY <1>3, <1>4, <1>5, <1>6, <2>1, <2>2
  <2>4. d = <<name, n>> /\ At(g, name, n)
    BY <1>2, <2>1, <2>2, <2>3
  <2> QED
    BY <2>4
<1> QED
  BY <1>7

(* So do the marks, and the address in the pseudo header's checksum.       *)
LEMMA MarksLead ==
  ASSUME NEW l \in Layers, l.l3.kind # "ip4overip6", NEW g, HeaderIs(l, g)
  PROVE  /\ \A name \in Marks(l) \ {"l4chksum"} : \E f \in g.put : f.name = name
         /\ l.l3.kind \notin {"none", "arp"} =>
              \E name \in {"ip4sip", "ip6sip"} : At(g, name, PseudoAt(l, g))
<1>1. \A name, n : Placed(g, name, n) => At(g, name, n) /\ \E f \in g.put : f.name = name
  BY DEF Placed, At
<1>2. l.l3.kind \in {"none", "arp", "ip4", "ip6", "ip6overip4"}
  BY DEF Layers
<1>3. l.eth # "none" => \A name \in {"dest", "src"} : \E f \in g.put : f.name = name
  BY <1>1 DEF HeaderIs
<1>4. HasIp6(l) => \A name \in {"ip6sip", "ip6dip"} : \E f \in g.put : f.name = name
  BY <1>1, <1>2 DEF HeaderIs, HasIp6, Ip6Placed
<1>5. HasIp4(l) => \A name \in {"ip4sip", "ip4dip", "ip4chksum"} : \E f \in g.put : f.name = name
  BY <1>1, <1>2 DEF HeaderIs, HasIp4, Ip4Placed
<1>6. HasPorts(l) => \A name \in {"sport", "dport"} : \E f \in g.put : f.name = name
  BY <1>1 DEF HeaderIs, HasPorts, PortsPlaced
<1>7. \A name \in Marks(l) \ {"l4chksum"} : \E f \in g.put : f.name = name
  BY <1>3, <1>4, <1>5, <1>6 DEF Marks
<1>8. CASE l.l3.kind = "ip4"
  <2>1. At(g, "ip4sip", g.l3 + 12) /\ PseudoAt(l, g) = g.l3 + 12
    BY <1>1, <1>8 DEF HeaderIs, Ip4Placed, PseudoAt
  <2> QED
    BY <1>7, <2>1
<1>9. CASE l.l3.kind = "ip6"
  <2>1. At(g, "ip6sip", g.l3 + 8) /\ PseudoAt(l, g) = g.l3 + 8
    BY <1>1, <1>9 DEF HeaderIs, Ip6Placed, PseudoAt
  <2> QED
    BY <1>7, <2>1
<1>10. CASE l.l3.kind = "ip6overip4"
  <2>1. /\ At(g, "ip6sip", (g.l3 + 4 * Words(l)) + 8)
        /\ PseudoAt(l, g) = (g.l3 + 4 * Words(l)) + 8
    BY <1>1, <1>10 DEF HeaderIs, Ip6Placed, PseudoAt, Ip4Length
  <2> QED
    BY <1>7, <2>1
<1> QED
  BY <1>2, <1>7, <1>8, <1>9, <1>10

-----------------------------------------------------------------------------
(* Headers and distances of the ports *)

(* A stream is only programmed if its checksum could be made. *)
AliveInv ==
  pc \in {"program", "done"} \/ (\E j \in Ports : regs[j] # NoRegs) => ~DiesOfChecksum(layers)

(* Every action keeps it. *)
LEMMA AliveNext == SplitInv /\ AliveInv /\ [Next]_vars => AliveInv'
<1> SUFFICES ASSUME SplitInv, AliveInv, [Next]_vars PROVE AliveInv'
  OBVIOUS
<1>1. regs = [j \in Ports |-> regs[j]]
  BY DEF SplitInv, RegistersOK
<1>2. CASE AskForty
  BY <1>2 DEF AskForty, AliveInv, layers
<1>3. CASE \E i \in Ports : AskOther(i)
  BY <1>3 DEF AskOther, AliveInv, layers
<1>4. CASE Copy
  <2>1. pc' \in {"copy", "makeup"} /\ regs' = regs /\ layers' = layers
    BY <1>4 DEF Copy, layers
  <2> QED
    BY <2>1 DEF AliveInv
<1>5. CASE Makeup
  <2>1. regs' = regs /\ layers' = layers
    BY <1>5 DEF Makeup, layers
  <2>2. pc' \in {"program", "done"} => ~DiesOfChecksum(layers)
    BY <1>5 DEF Makeup
  <2> QED
    BY <2>1, <2>2 DEF AliveInv
<1>6. CASE Program
  <2>1. ~DiesOfChecksum(layers) /\ layers' = layers
    BY <1>6 DEF Program, AliveInv, layers
  <2> QED
    BY <2>1 DEF AliveInv
<1>7. CASE UNCHANGED vars
  BY <1>7 DEF vars, AliveInv, layers
<1> QED
  BY <1>2, <1>3, <1>4, <1>5, <1>6, <1>7 DEF Next

(* So it holds always. *)
LEMMA AliveInvariant == Spec => []AliveInv
<1>1. Init => AliveInv
  BY DEF Init, AliveInv
<1>2. SplitInv /\ AliveInv /\ [Next]_vars => AliveInv'
  BY AliveNext
<1> QED
  BY <1>1, <1>2, SplitInvariant, PTL DEF Spec

(* A header that was made is one of those above, and fits the registers. *)
LEMMA MadeIs ==
  ASSUME SplitInv, NEW i \in Ports, Made(i)
  PROVE  /\ layers \in Layers /\ header[i] = MakeHeader(layers)
         /\ HeaderIs(layers, header[i]) /\ header[i].len <= HeaderRoom
<1>1. request \in Requests
  BY DEF SplitInv, RequestOK
<1>2. layers \in Layers /\ MakeHeader(layers).len <= HeaderRoom
  BY <1>1, SplitAssumption DEF layers
<1>3. header[i] = MakeHeader(layers) /\ Consistent(layers)
  BY DEF SplitInv, HeadersOK, Made
<1>4. HeaderIs(layers, MakeHeader(layers))
  BY <1>2, <1>3, MakeHeaderIs
<1> QED
  BY <1>2, <1>3, <1>4

(* HeaderWhole: the fields of a header that bsl_makeHeader made cover it   *)
(* without a hole, and the ether type comes last of layer 2, for every     *)
(* combination of layers whose records agree with themselves.              *)
THEOREM HeadersAreWhole == Spec => []HeaderWhole
<1>1. SplitInv => HeaderWhole
  <2> SUFFICES ASSUME SplitInv, NEW i \in Ports, Made(i)
               PROVE  /\ Filled(header[i]) = 0 .. header[i].len - 1
                      /\ layers.eth = "typed" /\ layers.l3.kind \notin {"none", "ip4overip6"} =>
                           At(header[i], "type", header[i].l3 - Labels(layers) - TypeSize)
    BY DEF HeaderWhole
  <2>1. HeaderIs(layers, header[i])
    BY MadeIs
  <2>2. Filled(header[i]) = 0 .. header[i].len - 1
    BY <2>1 DEF HeaderIs
  <2>3. ASSUME layers.eth = "typed", layers.l3.kind \notin {"none", "ip4overip6"}
        PROVE  At(header[i], "type", header[i].l3 - Labels(layers) - TypeSize)
    <3>1. PICK n : n = header[i].l3 - Labels(layers) - 2
      OBVIOUS
    <3>2. Bytes("type", n, 2) \in header[i].put
      BY <2>1, <2>3, <3>1 DEF HeaderIs
    <3> QED
      BY <3>1, <3>2 DEF At, Bytes, TypeSize
  <2> QED
    BY <2>2, <2>3
<1> QED
  BY <1>1, SplitInvariant, PTL

(* DistancesPoint: what bsl_device_setStreamDetail programs as distances   *)
(* are the places of the fields they name, none is cut by its register,    *)
(* the marked fields exist, and the checksum of layer 4 is computed of the *)
(* right addresses and over the whole header of that layer.                *)
THEOREM DistancesLeadToFields == Spec => []DistancesPoint
<1>1. SplitInv /\ AliveInv => DistancesPoint
  <2> SUFFICES ASSUME SplitInv, AliveInv, NEW i \in Ports, Made(i), regs[i] # NoRegs,
                      layers.l3.kind # "ip4overip6"
               PROVE  /\ \A d \in regs[i].points : At(header[i], d[1], d[2])
                      /\ \A name \in regs[i].marks \ {"l4chksum"} :
                           \E f \in header[i].put : f.name = name
                      /\ layers.l3.kind \notin {"none", "arp"} =>
                           \E name \in {"ip4sip", "ip6sip"} :
                             At(header[i], name, PseudoAt(layers, header[i]))
                      /\ layers.l4.kind # "none" =>
                           header[i].l4 + Summed(layers) + layers.l4.opts = header[i].len
    BY DEF DistancesPoint
  <2>1. /\ layers \in Layers /\ HeaderIs(layers, header[i]) /\ header[i].len <= HeaderRoom
    BY MadeIs
  <2>2. regs[i].points = Distances(layers, header[i]) /\ regs[i].marks = Marks(layers)
    <3>1. regs[i] = Programmed(i, field[i])
      BY DEF SplitInv, RegistersOK
    <3> QED
      BY <3>1 DEF Programmed
  <2>3. layers.l4.kind # "igmp"
    BY DEF AliveInv, DiesOfChecksum
  <2>4. \A d \in regs[i].points : At(header[i], d[1], d[2])
    BY <2>1, <2>2, DistancesLead
  <2>5. layers.l4.kind # "none" =>
          header[i].l4 + Summed(layers) + layers.l4.opts = header[i].len
    BY <2>1, <2>3 DEF HeaderIs
  <2> QED
    BY <2>1, <2>2, <2>4, <2>5, MarksLead
<1> QED
  BY <1>1, SplitInvariant, AliveInvariant, PTL
=============================================================================
