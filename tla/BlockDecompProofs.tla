-------------------------- MODULE BlockDecompProofs --------------------------
(***************************************************************************)
(* The block decomposition deals out every item, each to one slave; and    *)
(* facts about numbers that other proofs use, too.                         *)
(***************************************************************************)
EXTENDS BlockDecomp, FiniteSetTheorems, WellFoundedInduction, TLAPS

(* A set of numbers has a least element.                                   *)
LEMMA Least ==
  ASSUME NEW S \in SUBSET Nat, S # {}
  PROVE  \E m \in S : \A k \in S : m <= k
<1>1. PICK n \in S : TRUE
  OBVIOUS
<1> DEFINE R == StrictSubsetOrdering(0..n)
           T == {0..s : s \in {k \in S : k <= n}}
<1>2. n \in Nat /\ n <= n
  BY <1>1
<1>3. IsWellFoundedOn(R, FiniteSubsetsOf(0..n))
  BY FS_StrictSubsetOrderingWellFounded
<1>4. T # {} /\ T \subseteq FiniteSubsetsOf(0..n)
  <2>1. \A s \in S : s <= n => 0..s \subseteq 0..n
    BY <1>2
  <2>2. \A s \in S : IsFiniteSet(0..s)
    BY FS_Interval
  <2>3. T # {}
    BY <1>2
  <2> QED BY <2>1, <2>2, <2>3 DEF FiniteSubsetsOf
<1>5. \E x \in T : \A y \in T : <<y, x>> \notin R
  <2> HIDE DEF T, R
  <2> QED BY <1>3, <1>4, WFMin
<1>6. PICK m \in S : m <= n /\ \A k \in S : k <= n => <<0..k, 0..m>> \notin R
  BY <1>5
<1>7. ASSUME NEW k \in S, k < m PROVE FALSE
  <2>1. k \in Nat /\ m \in Nat /\ k <= n
    BY <1>2, <1>6, <1>7
  <2>2. 0..k \subseteq 0..m /\ 0..k # 0..m /\ 0..k \subseteq 0..n /\ 0..m \subseteq 0..n
    <3>1. m \in 0..m /\ m \notin 0..k
      BY <1>7, <2>1
    <3> QED BY <1>2, <1>6, <1>7, <2>1, <3>1
  <2>3. <<0..k, 0..m>> \in R
    BY <2>2 DEF StrictSubsetOrdering
  <2> QED BY <1>6, <2>1, <2>3
<1> QED BY <1>7

(* What holds of 0 and passes from every number to the next up to m. *)
LEMMA UpTo ==
  ASSUME NEW m \in Nat, NEW S, 0 \in S, \A n \in 1..m : n - 1 \in S => n \in S
  PROVE  0..m \subseteq S
<1> DEFINE Bad == {n \in 0..m : n \notin S}
<1> SUFFICES ASSUME Bad # {} PROVE FALSE
  OBVIOUS
<1>1. PICK n \in Bad : \A k \in Bad : n <= k
  <2>1. Bad \in SUBSET Nat
    OBVIOUS
  <2> QED BY <2>1, Least
<1>2. n \in 1..m
  BY <1>1
<1>3. PICK k : k = n - 1
  OBVIOUS
<1>4. k \in 0..m /\ ~(n <= k)
  BY <1>2, <1>3
<1>5. k \in S
  BY <1>1, <1>4
<1> QED BY <1>1, <1>2, <1>3, <1>5

LEMMA MulMono ==
  ASSUME NEW a \in Nat, NEW b \in Nat, NEW c \in Nat, a <= b
  PROVE  a * c <= b * c
<1>1. PICK d \in Nat : b = a + d
  OBVIOUS
<1>2. b * c = a * c + d * c
  BY <1>1
<1>3. d * c >= 0 /\ a * c \in Int /\ d * c \in Int
  OBVIOUS
<1> QED BY <1>2, <1>3

LEMMA Division ==
  ASSUME NEW a \in Nat, NEW b \in Nat \ {0}
  PROVE  /\ a \div b \in Nat
         /\ (a \div b) * b <= a
         /\ a < (a \div b + 1) * b
OBVIOUS

(* A quotient lies below a bound exactly when the dividend does. *)
LEMMA QuotientBelow ==
  ASSUME NEW a \in Nat, NEW b \in Nat \ {0}, NEW c \in Nat
  PROVE  a \div b < c <=> a < c * b
<1> DEFINE q == a \div b
<1>1. q \in Nat /\ q * b <= a /\ a < (q + 1) * b
  BY Division
<1>2. ASSUME q < c PROVE a < c * b
  <2>1. (q + 1) * b <= c * b
    BY <1>1, <1>2, MulMono
  <2>2. (q + 1) * b \in Nat /\ c * b \in Nat
    BY <1>1
  <2> HIDE DEF q
  <2> QED BY <1>1, <2>1, <2>2
<1>3. ASSUME c <= q PROVE c * b <= a
  <2>1. c * b <= q * b
    BY <1>1, <1>3, MulMono
  <2>2. q * b \in Nat /\ c * b \in Nat
    BY <1>1
  <2> HIDE DEF q
  <2> QED BY <1>1, <2>1, <2>2
<1>4. c * b \in Nat
  OBVIOUS
<1> HIDE DEF q
<1>5. q < c <=> a < c * b
  BY <1>1, <1>2, <1>3, <1>4
<1> QED BY <1>5 DEF q

(* Every one of the n items lies in the block of some rank.                *)
THEOREM BlocksCover ==
  ASSUME NEW size \in Nat \ {0}, NEW n \in Nat, NEW i \in 0..(n - 1)
  PROVE  \E rank \in 0..(size - 1) :
           i \in BLOCK_LOW(rank, size, n)..BLOCK_HIGH(rank, size, n)
<1> DEFINE x == (i + 1) * size - 1
           r == x \div n
<1>1. x \in Nat
  <2>1. 1 * size <= (i + 1) * size
    BY MulMono
  <2> QED BY <2>1
<1>2. n \in Nat \ {0} /\ r \in Nat /\ r * n <= x /\ x < (r + 1) * n
  BY <1>1, Division
<1>3. (i + 1) * size \in Nat /\ r * n \in Nat /\ (r + 1) * n \in Nat
  BY <1>2
<1>4. r < size
  <2>1. (i + 1) * size <= n * size
    BY MulMono
  <2>2. x < size * n
    BY <2>1, <1>3
  <2> QED BY <2>2, <1>1, <1>2, QuotientBelow
<1>5. r * n < (i + 1) * size /\ ~((r + 1) * n < (i + 1) * size)
  BY <1>2, <1>3 DEF x
<1> HIDE DEF r, x
<1>6. (r * n) \div size < i + 1
  BY <1>3, <1>5, QuotientBelow
<1>7. ~(((r + 1) * n) \div size < i + 1)
  BY <1>3, <1>5, QuotientBelow
<1>8. (r * n) \div size \in Nat /\ ((r + 1) * n) \div size \in Nat
  BY <1>3, Division
<1>9. i \in BLOCK_LOW(r, size, n)..BLOCK_HIGH(r, size, n)
  BY <1>6, <1>7, <1>8 DEF BLOCK_LOW, BLOCK_HIGH
<1> QED BY <1>2, <1>4, <1>9

(* The blocks of two ranks have no item in common. *)
THEOREM BlocksDisjoint ==
  ASSUME NEW size \in Nat \ {0}, NEW n \in Nat, NEW q \in Nat, NEW r \in Nat, q < r
  PROVE  BLOCK_HIGH(q, size, n) < BLOCK_LOW(r, size, n)
<1>1. (q + 1) * n <= r * n /\ (q + 1) * n \in Nat /\ r * n \in Nat
  BY MulMono
<1> DEFINE m == r * n
           k == (q + 1) * n
<1>2. m \div size \in Nat /\ m < (m \div size + 1) * size
  BY <1>1, Division
<1>3. k \div size < m \div size + 1
  <2>1. k < (m \div size + 1) * size /\ m \div size + 1 \in Nat
    BY <1>1, <1>2
  <2> QED BY <2>1, <1>1, QuotientBelow
<1>4. k \div size \in Nat
  BY <1>1, Division
<1> QED BY <1>2, <1>3, <1>4 DEF BLOCK_LOW, BLOCK_HIGH

(* The first block begins with item 0, the last ends with item n - 1. *)
THEOREM BlocksBounds ==
  ASSUME NEW size \in Nat \ {0}, NEW n \in Nat, NEW r \in 0..(size - 1)
  PROVE  /\ BLOCK_LOW(r, size, n) \in Nat
         /\ BLOCK_HIGH(r, size, n) < n
         /\ BLOCK_HIGH(r, size, n) \in Int
<1>1. (r + 1) * n <= size * n /\ (r + 1) * n \in Nat /\ r * n \in Nat /\ size * n \in Nat
  BY MulMono
<1>2. ((r + 1) * n) \div size < n + 1
  <2>1. size * n < (n + 1) * size
    OBVIOUS
  <2> QED BY <1>1, <2>1, QuotientBelow
<1>3. ((r + 1) * n) \div size \in Nat /\ (r * n) \div size \in Nat
  BY <1>1, Division
<1> QED BY <1>2, <1>3 DEF BLOCK_LOW, BLOCK_HIGH

-----------------------------------------------------------------------------
(* Remainders, for counters of limited range.                              *)

(* A remainder is the rest of any quotient.                                *)
LEMMA RestOfAnyQuotient ==
  ASSUME NEW m \in Nat \ {0}, NEW n \in Int, NEW q \in Int, NEW r \in 0..(m - 1), n = m * q + r
  PROVE  n % m = r
<1> DEFINE p == n \div m
           s == n % m
<1>1. p \in Int /\ s \in 0..(m - 1) /\ n = m * p + s
  OBVIOUS
<1> HIDE DEF p, s
<1>2. ASSUME NEW x \in Int, NEW y \in Int, x < y PROVE m * x + m <= m * y
  <2>1. PICK d \in Nat : y = x + 1 + d
    <3>1. y - x - 1 \in Nat /\ y = x + 1 + (y - x - 1)
      BY <1>2
    <3> QED BY <3>1
  <2>2. m * y = m * x + m + m * d /\ m * d \in Nat
    BY <2>1
  <2>3. m * x \in Int
    OBVIOUS
  <2> QED BY <2>2, <2>3
<1>3. m * p \in Int /\ m * q \in Int
  BY <1>1
<1>4. ~(p < q)
  <2> SUFFICES ASSUME p < q PROVE FALSE
    OBVIOUS
  <2>1. m * p + m <= m * q
    BY <1>1, <1>2
  <2> QED BY <1>1, <1>3, <2>1
<1>5. ~(q < p)
  <2> SUFFICES ASSUME q < p PROVE FALSE
    OBVIOUS
  <2>1. m * q + m <= m * p
    BY <1>1, <1>2
  <2> QED BY <1>1, <1>3, <2>1
<1>6. p = q
  BY <1>1, <1>4, <1>5
<1>7. s = r
  BY <1>1, <1>3, <1>6
<1> QED BY <1>7 DEF s

(* Steps of a counter modulo m add up. *)
LEMMA RemainderStep ==
  ASSUME NEW m \in Nat \ {0}, NEW n \in Int, NEW d \in Int
  PROVE  ((n % m) + d) % m = (n + d) % m
<1> DEFINE q == n \div m
           s == n % m
           p == (s + d) \div m
           r == (s + d) % m
<1>1. q \in Int /\ s \in Int /\ n = m * q + s
  OBVIOUS
<1>2. p \in Int /\ r \in 0..(m - 1) /\ s + d = m * p + r
  BY <1>1
<1> HIDE DEF q, s, p, r
<1>3. m * q \in Int /\ m * p \in Int /\ m * (q + p) = m * q + m * p
  BY <1>1, <1>2
<1>4. n + d = m * (q + p) + r /\ q + p \in Int /\ n + d \in Int
  BY <1>1, <1>2, <1>3
<1>5. (n + d) % m = r
  BY <1>2, <1>4, RestOfAnyQuotient
<1> QED BY <1>5 DEF r, s
=============================================================================
