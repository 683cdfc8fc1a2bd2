---------------------------- MODULE PriceListProofs ----------------------------
(***************************************************************************)
(* Proofs about PriceList, and about the arithmetic of Money it rests on,  *)
(* for any catalogue, numbers and requests, and for any column and word    *)
(* that satisfy the assumptions of Money.                                  *)
(***************************************************************************)
EXTENDS PriceList, Positions, TLAPS

-----------------------------------------------------------------------------
(* Sequences.                                                              *)

\* An element of a sequence over X is in X.
LEMMA ElementType == ASSUME NEW X, NEW s \in Seq(X), NEW i \in 1..Len(s) PROVE s[i] \in X
  OBVIOUS

\* A function on the positions of a sequence is a sequence.
LEMMA MappedType ==
  ASSUME NEW X, NEW Y, NEW s \in Seq(X), NEW F, F \in [1..Len(s) -> Y]
  PROVE  F \in Seq(Y)
  OBVIOUS
-----------------------------------------------------------------------------
(* Arithmetic.                                                             *)

\* What fits the word is not changed by it.
LEMMA WrapKeeps == ASSUME NEW x \in Int, -Word <= x, x < Word PROVE Wrap(x) = x
  <1> DEFINE y == x + Word
             w == 2 * Word
  <1>1. y \in Nat /\ w \in Nat \ {0} /\ y < w
    BY WordAssumption, MaxAmountAssumption
  <1>2. y % w = y
    <2> HIDE DEF y, w
    <2> QED BY <1>1
  <1>3. QED BY <1>2, WordAssumption DEF Wrap

\* A factor that passes the division does not leave the bound.
LEMMA DivisionBounds ==
  ASSUME NEW a \in Nat, NEW b \in Nat \ {0}, NEW q \in Nat, q <= a \div b
  PROVE  q * b <= a
  OBVIOUS

\* And a factor that does not leave the bound passes the division.
LEMMA QuotientBound ==
  ASSUME NEW a \in Nat, NEW p \in Nat \ {0}, NEW q \in Nat, q * p <= a
  PROVE  q <= a \div p
<1> DEFINE k == a \div p
           r == a % p
<1>1. k \in Nat /\ r \in 0..(p - 1) /\ a = p * k + r
  OBVIOUS
<1> HIDE DEF k, r
<1>2. ASSUME q > k PROVE FALSE
  <2>1. PICK j \in Nat : q = k + 1 + j
    <3>1. q - k - 1 \in Nat /\ q = k + 1 + (q - k - 1)
      BY <1>1, <1>2
    <3>2. QED
      BY <3>1
  <2>2. q * p = p * k + p + j * p /\ j * p >= 0 /\ p * k \in Int /\ j * p \in Int
    BY <1>1, <2>1
  <2>3. QED
    BY <1>1, <2>2
<1>3. q <= k
  BY <1>1, <1>2
<1>4. QED
  BY <1>3 DEF k

\* A multiple divides without a rest.
LEMMA DividesExactly ==
  ASSUME NEW m \in Nat, NEW p \in Nat \ {0}
  PROVE  (m * p) % p = 0 /\ (m * p) \div p = m
<1> DEFINE d == m * p
           q == d \div p
           r == d % p
<1>1. d \in Nat /\ q \in Nat /\ r \in 0..(p - 1) /\ d = p * q + r
  <2>1. d \in Nat
    OBVIOUS
  <2> HIDE DEF d
  <2>2. QED
    BY <2>1
<1> HIDE DEF q, r
<1>2. q = m
  <2>1. ASSUME q < m PROVE FALSE
    <3>1. PICK k \in Nat : m = q + 1 + k
      <4>1. m - q - 1 \in Nat /\ m = q + 1 + (m - q - 1)
        BY <1>1, <2>1
      <4>2. QED
        BY <4>1
    <3>2. m * p = q * p + p + k * p /\ k * p >= 0
      BY <1>1, <3>1
    <3>3. d >= p * q + p
      BY <1>1, <3>2
    <3> HIDE DEF d
    <3>4. QED
      BY <1>1, <3>3
  <2>2. ASSUME q > m PROVE FALSE
    <3>1. PICK k \in Nat : q = m + 1 + k
      <4>1. q - m - 1 \in Nat /\ q = m + 1 + (q - m - 1)
        BY <1>1, <2>2
      <4>2. QED
        BY <4>1
    <3>2. p * q = m * p + p + k * p /\ k * p >= 0
      BY <1>1, <3>1
    <3>3. p * q >= d + p
      BY <1>1, <3>2
    <3> HIDE DEF d
    <3>4. QED
      BY <1>1, <3>3
  <2>3. QED
    BY <1>1, <2>1, <2>2
<1>3. r = 0
  BY <1>1, <1>2
<1>4. QED
  BY <1>2, <1>3 DEF q, r

\* What divides without a rest is a multiple.
LEMMA IsMultiple ==
  ASSUME NEW d \in Nat, NEW p \in Nat \ {0}, d % p = 0
  PROVE  d \div p \in Nat /\ d = (d \div p) * p
OBVIOUS

\* A product that is accepted is the exact product, and the column holds it.
LEMMA MulQuantityIsExact ==
  ASSUME NEW c \in Int, NEW quantity \in Int, MulQuantity(c, quantity).ok
  PROVE  /\ MulQuantity(c, quantity).cents = c * quantity
         /\ c * quantity \in Int
         /\ Validate(c * quantity)
  <1>1. /\ quantity > 0
        /\ Validate(c)
        /\ c = 0 \/ quantity <= MaxAmount \div Magnitude(c)
        /\ MulQuantity(c, quantity).cents = Wrap(c * quantity)
    <2>1. Magnitude(c) \in Nat /\ (c # 0 => Magnitude(c) \in Nat \ {0})
      BY DEF Magnitude
    <2>2. c # 0 => MaxAmount \div Magnitude(c) \in Int
      BY <2>1, MaxAmountAssumption
    <2>3. QED
      BY <2>1, <2>2 DEF MulQuantity, Rejected, Accepted
  <1>2. c * quantity \in Int /\ Magnitude(c * quantity) <= MaxAmount
    <2>1. CASE c = 0
      BY <2>1, MaxAmountAssumption DEF Magnitude
    <2>2. CASE c # 0
      <3>1. Magnitude(c) \in Nat \ {0} /\ quantity \in Nat
        BY <2>2, <1>1 DEF Magnitude
      <3>2. quantity * Magnitude(c) <= MaxAmount
        BY <3>1, <1>1, <2>2, DivisionBounds, MaxAmountAssumption
      <3>3. CASE c > 0
        <4>1. c * quantity >= 0
          BY <3>3, <3>1
        <4>2. QED
          BY <3>3, <3>2, <4>1, <3>1 DEF Magnitude
      <3>4. CASE c < 0
        <4>1. (-c) * quantity = -(c * quantity)
          BY <3>1
        <4>2. (-c) * quantity >= 0
          BY <3>4, <3>1
        <4>3. QED
          BY <3>4, <3>2, <4>1, <4>2, <3>1 DEF Magnitude
      <3>5. QED
        BY <3>3, <3>4, <2>2
    <2>3. QED
      BY <2>1, <2>2
  <1>3. -Word <= c * quantity /\ c * quantity < Word
    BY <1>2, MaxAmountAssumption, WordAssumption DEF Magnitude
  <1>4. QED
    BY <1>1, <1>2, <1>3, WrapKeeps DEF Validate

\* A sum that is accepted is the exact sum.
LEMMA AddIsExact ==
  ASSUME NEW a \in Int, NEW b \in Int, Add(a, b).ok
  PROVE  Add(a, b).cents = a + b /\ Validate(a + b)
  <1>1. Validate(a) /\ Validate(b) /\ Validate(Wrap(a + b)) /\ Add(a, b).cents = Wrap(a + b)
    BY DEF Add, Accepted, Rejected
  <1>2. -Word <= a + b /\ a + b < Word
    BY <1>1, WordAssumption, MaxAmountAssumption DEF Validate, Magnitude
  <1>3. QED
    BY <1>1, <1>2, WrapKeeps
-----------------------------------------------------------------------------
(* Powers of ten.  The equation that defines them is shown by a smallest   *)
(* number without a table of its powers, the rest from the equation.       *)

\* p holds the powers of ten up to the n-th.
PowersUp(p, n) == p = [k \in 0..n |-> IF k = 0 THEN 1 ELSE 10 * p[k - 1]]

\* Two tables of powers agree as far as both go.
LEMMA PowersAgree ==
  ASSUME NEW m \in Nat, NEW n \in Nat, NEW p, NEW q, PowersUp(p, m), PowersUp(q, n),
         NEW k \in Nat, k <= m, k <= n
  PROVE  p[k] = q[k]
<1> DEFINE X == {i \in 0..k : p[i] # q[i]}
<1>1. SUFFICES ASSUME X # {} PROVE FALSE
  OBVIOUS
<1>2. X \in SUBSET Nat
  OBVIOUS
<1>3. PICK i \in X : \A j \in X : j >= i
  <2> HIDE DEF X
  <2> QED BY <1>1, <1>2, LeastNumber
<1>4. /\ i \in 0..m /\ i \in 0..n
      /\ p[i] = IF i = 0 THEN 1 ELSE 10 * p[i - 1]
      /\ q[i] = IF i = 0 THEN 1 ELSE 10 * q[i - 1]
  BY DEF PowersUp
<1>5. i # 0 => i - 1 \in 0..k /\ i - 1 \notin X
  BY <1>3
<1>6. p[i] = q[i]
  BY <1>4, <1>5
<1>7. QED
  BY <1>3, <1>6

\* There is a table up to any power.
LEMMA PowersExist ==
  ASSUME NEW n \in Nat
  PROVE  \E p : PowersUp(p, n)
<1> DEFINE X == {i \in Nat : ~ \E p : PowersUp(p, i)}
<1>1. SUFFICES ASSUME X # {} PROVE FALSE
  OBVIOUS
<1>2. PICK i \in X : \A j \in X : j >= i
  <2>1. X \in SUBSET Nat
    OBVIOUS
  <2> HIDE DEF X
  <2>2. QED
    BY <1>1, <2>1, LeastNumber
<1>3. i \in Nat /\ ~ \E p : PowersUp(p, i)
  OBVIOUS
<1>4. CASE i = 0
  <2>1. PowersUp([k \in 0..0 |-> 1], 0)
    BY DEF PowersUp
  <2>2. QED
    BY <1>3, <1>4, <2>1
<1>5. CASE i # 0
  <2>1. i - 1 \in Nat /\ i - 1 \notin X
    BY <1>2, <1>3, <1>5
  <2>2. PICK p : PowersUp(p, i - 1)
    BY <2>1
  <2> DEFINE q == [k \in 0..i |-> IF k = i THEN 10 * p[i - 1] ELSE p[k]]
  <2>3. ASSUME NEW k \in 0..i
        PROVE  q[k] = IF k = 0 THEN 1 ELSE 10 * q[k - 1]
    <3>1. CASE k = i
      BY <1>3, <1>5, <3>1
    <3>2. CASE k # i
      <4>1. k \in 0..(i - 1) /\ (k # 0 => k - 1 \in 0..i /\ k - 1 # i)
        BY <1>3, <3>2
      <4>2. p[k] = IF k = 0 THEN 1 ELSE 10 * p[k - 1]
        BY <2>2, <4>1 DEF PowersUp
      <4>3. QED
        BY <3>2, <4>1, <4>2
    <3>3. QED
      BY <3>1, <3>2
  <2>4. PowersUp(q, i)
    <3>1. DOMAIN q = 0..i /\ q = [k \in 0..i |-> q[k]]
      OBVIOUS
    <3> HIDE DEF q
    <3>2. QED
      BY <2>3, <3>1 DEF PowersUp
  <2>5. QED
    BY <1>3, <2>4
<1>6. QED
  BY <1>4, <1>5

\* What the powers of ten are made of.
LEMMA PowerEquation ==
  Power10 = [k \in Nat |-> IF k = 0 THEN 1 ELSE 10 * Power10[k - 1]]
<1> DEFINE P(n) == CHOOSE p : PowersUp(p, n)
           f == [k \in Nat |-> P(k)[k]]
<1>1. \A n \in Nat : PowersUp(P(n), n)
  BY PowersExist
<1> HIDE DEF P
<1>2. ASSUME NEW k \in Nat
      PROVE  f[k] = IF k = 0 THEN 1 ELSE 10 * f[k - 1]
  <2>1. P(k)[k] = IF k = 0 THEN 1 ELSE 10 * P(k)[k - 1]
    <3> DEFINE p == P(k)
    <3>1. PowersUp(p, k) /\ k \in 0..k
      BY <1>1
    <3> HIDE DEF p
    <3>2. p[k] = IF k = 0 THEN 1 ELSE 10 * p[k - 1]
      BY <3>1 DEF PowersUp
    <3>3. QED
      BY <3>2 DEF p
  <2>2. ASSUME k # 0 PROVE P(k)[k - 1] = P(k - 1)[k - 1]
    <3> DEFINE j == k - 1
    <3>1. j \in Nat /\ j <= k /\ j <= j
      BY <2>2
    <3> HIDE DEF j
    <3>2. P(k)[j] = P(j)[j]
      BY <1>1, <3>1, PowersAgree
    <3>3. QED
      BY <3>2 DEF j
  <2>3. k # 0 => k - 1 \in Nat /\ f[k - 1] = P(k - 1)[k - 1]
    OBVIOUS
  <2>4. f[k] = P(k)[k]
    OBVIOUS
  <2> HIDE DEF f
  <2>5. QED
    BY <2>1, <2>2, <2>3, <2>4
<1>3. f = [k \in Nat |-> IF k = 0 THEN 1 ELSE 10 * f[k - 1]]
  <2>1. f = [k \in Nat |-> f[k]]
    OBVIOUS
  <2> HIDE DEF f
  <2>2. QED
    BY <1>2, <2>1
<1> HIDE DEF f
<1>4. QED
  BY <1>3, Zenon DEF Power10

\* The equation, one step at a time.
LEMMA PowerSteps ==
  /\ Power10[0] = 1
  /\ \A k \in Nat : k # 0 => Power10[k] = 10 * Power10[k - 1]
<1> DEFINE p == Power10
<1>1. p = [k \in Nat |-> IF k = 0 THEN 1 ELSE 10 * p[k - 1]]
  BY PowerEquation
<1> HIDE DEF p
<1>2. p[0] = 1 /\ \A k \in Nat : k # 0 => p[k] = 10 * p[k - 1]
  BY <1>1
<1>3. QED
  BY <1>2 DEF p

\* A power of ten is a positive number.
LEMMA PowerType == \A k \in Nat : Power10[k] \in Nat \ {0}
<1> DEFINE p == Power10
           X == {k \in Nat : p[k] \notin Nat \ {0}}
<1>1. SUFFICES ASSUME X # {} PROVE FALSE
  OBVIOUS
<1>2. PICK i \in X : \A j \in X : j >= i
  <2>1. X \in SUBSET Nat
    OBVIOUS
  <2> HIDE DEF X
  <2>2. QED
    BY <1>1, <2>1, LeastNumber
<1>3. p[0] = 1 /\ \A k \in Nat : k # 0 => p[k] = 10 * p[k - 1]
  BY PowerSteps
<1> HIDE DEF p
<1>4. CASE i = 0
  BY <1>3, <1>4
<1>5. CASE i # 0
  <2>1. i \in Nat /\ i - 1 \in Nat /\ i - 1 \notin X
    BY <1>2, <1>5
  <2>2. p[i - 1] \in Nat \ {0} /\ p[i] = 10 * p[i - 1]
    BY <1>3, <1>5, <2>1
  <2>3. p[i] \in Nat \ {0}
    BY <2>2
  <2>4. QED
    BY <2>3
<1>6. QED
  BY <1>4, <1>5

\* Exponents add up.
LEMMA PowerSum ==
  ASSUME NEW a \in Nat, NEW b \in Nat
  PROVE  Power10[a + b] = Power10[a] * Power10[b]
<1> DEFINE p == Power10
           X == {k \in Nat : p[a + k] # p[a] * p[k]}
<1>1. SUFFICES ASSUME X # {} PROVE FALSE
  OBVIOUS
<1>2. PICK i \in X : \A j \in X : j >= i
  <2>1. X \in SUBSET Nat
    OBVIOUS
  <2> HIDE DEF X
  <2>2. QED
    BY <1>1, <2>1, LeastNumber
<1>3. p[0] = 1 /\ \A k \in Nat : k # 0 => p[k] = 10 * p[k - 1]
  BY PowerSteps
<1>4. \A k \in Nat : p[k] \in Nat
  BY PowerType
<1> HIDE DEF p
<1>5. CASE i = 0
  <2>1. a + 0 = a /\ p[a] * 1 = p[a]
    BY <1>4
  <2>2. QED
    BY <1>3, <1>5, <2>1
<1>6. CASE i # 0
  <2>1. i \in Nat /\ i - 1 \in Nat /\ i - 1 \notin X
    BY <1>2, <1>6
  <2>2. p[a + (i - 1)] = p[a] * p[i - 1]
    BY <2>1
  <2>3. a + i \in Nat /\ a + i # 0 /\ (a + i) - 1 = a + (i - 1)
    BY <1>6, <2>1
  <2>4. p[a + i] = 10 * p[a + (i - 1)]
    BY <1>3, <2>3
  <2>5. p[i] = 10 * p[i - 1]
    BY <1>3, <1>6, <2>1
  <2> DEFINE x == p[a]
             y == p[i - 1]
  <2>6. x \in Nat /\ y \in Nat
    BY <1>4, <2>1
  <2>7. p[a + i] = 10 * (x * y) /\ p[a] * p[i] = x * (10 * y)
    BY <2>2, <2>4, <2>5
  <2> HIDE DEF x, y
  <2>8. 10 * (x * y) = x * (10 * y)
    BY <2>6
  <2>9. QED
    BY <2>7, <2>8
<1>7. QED
  BY <1>5, <1>6

\* Powers grow with their exponents, tenfold at least.
LEMMA PowerMonotone ==
  ASSUME NEW a \in Nat, NEW b \in Nat, a <= b
  PROVE  Power10[a] <= Power10[b] /\ (a < b => 10 * Power10[a] <= Power10[b])
<1> DEFINE x == Power10[a]
           y == Power10[b - a]
<1>1. b - a \in Nat /\ a + (b - a) = b
  OBVIOUS
<1>2. Power10[b] = x * y
  BY <1>1, PowerSum
<1>3. x \in Nat \ {0} /\ y \in Nat \ {0}
  BY <1>1, PowerType
<1>4. a < b => y = 10 * Power10[(b - a) - 1] /\ Power10[(b - a) - 1] \in Nat \ {0}
  BY <1>1, PowerType, PowerSteps
<1> DEFINE z == Power10[(b - a) - 1]
<1> HIDE DEF x, y, z
<1>5. x <= x * y
  BY <1>3
<1>6. ASSUME a < b PROVE 10 * x <= x * y
  <2>1. y = 10 * z /\ z \in Nat \ {0}
    BY <1>4, <1>6 DEF z
  <2>2. x <= x * z
    BY <1>3, <2>1
  <2>3. x * (10 * z) = 10 * (x * z) /\ x * z \in Nat
    BY <1>3, <2>1
  <2>4. QED
    BY <1>3, <2>1, <2>2, <2>3
<1>7. QED
  BY <1>2, <1>5, <1>6 DEF x
-----------------------------------------------------------------------------
(* Numbers: what is accepted, and what is refused.                         *)

\* The digits are counted right: the number is less than that power of ten, but
\* not than the one before.
LEMMA DigitCountBounds ==
  ASSUME NEW d \in 0..(Power10[LongestNumber] - 1)
  PROVE  /\ DigitCount(d) \in Nat
         /\ d < Power10[DigitCount(d)]
         /\ d # 0 => DigitCount(d) # 0 /\ Power10[DigitCount(d) - 1] <= d
<1> DEFINE p == Power10
           L == LongestNumber
           X == {k \in Nat : p[k] > d}
           S == {k \in 0..(L - 1) : p[k] <= d}
<1>1. L \in Nat
  BY NumberAssumption
<1>2. \A k \in Nat : p[k] \in Nat \ {0}
  BY PowerType
<1>3. \A a, b \in Nat : a <= b => p[a] <= p[b]
  BY PowerMonotone
<1>4. p[0] = 1
  BY PowerSteps
<1>5. p[L] > d
  BY <1>1, <1>2
<1> HIDE DEF p, L
<1>6. PICK m \in X : \A k \in X : k >= m
  <2>1. X \in SUBSET Nat /\ X # {}
    BY <1>1, <1>5
  <2> HIDE DEF X
  <2>2. QED
    BY <2>1, LeastNumber
<1>7. m \in Nat /\ m <= L /\ p[m] > d
  BY <1>1, <1>5, <1>6
<1>8. \A k \in Nat : k < m => p[k] <= d
  <2>1. SUFFICES ASSUME NEW k \in Nat, k < m PROVE p[k] <= d
    OBVIOUS
  <2>2. k \notin X
    BY <1>6, <1>7, <2>1
  <2>3. QED
    BY <1>2, <2>2
<1>9. S = 0..(m - 1)
  <2>1. ASSUME NEW k \in S PROVE k \in 0..(m - 1)
    <3>1. k \in Nat /\ p[k] <= d
      BY <1>1
    <3>2. k < m
      BY <1>2, <1>3, <1>7, <3>1
    <3>3. QED
      BY <1>7, <3>1, <3>2
  <2>2. ASSUME NEW k \in 0..(m - 1) PROVE k \in S
    BY <1>1, <1>7, <1>8
  <2> HIDE DEF S
  <2>3. QED
    BY <2>1, <2>2
<1>10. DigitCount(d) = Cardinality(S)
  BY Zenon DEF DigitCount, p, L
<1> HIDE DEF S
<1>11. Cardinality(S) = m
  <2> DEFINE e == m - 1
  <2>1. 0 \in Int /\ e \in Int
    BY <1>7
  <2> HIDE DEF e
  <2>2. Cardinality(0..e) = IF 0 > e THEN 0 ELSE e - 0 + 1
    BY <2>1, FS_Interval, Zenon
  <2>3. Cardinality(S) = Cardinality(0..e)
    BY <1>9 DEF e
  <2>4. (IF 0 > e THEN 0 ELSE e - 0 + 1) = m
    BY <1>7 DEF e
  <2>5. QED
    BY <2>2, <2>3, <2>4
<1>12. d # 0 => m # 0 /\ p[m - 1] <= d
  <2>1. d # 0 => m # 0
    BY <1>4, <1>7
  <2>2. m # 0 => m - 1 \in Nat /\ m - 1 < m
    BY <1>7
  <2>3. QED
    BY <1>8, <2>1, <2>2
<1>13. DigitCount(d) = m
  BY <1>10, <1>11
<1>14. QED
  BY <1>7, <1>12, <1>13 DEF p

\* Only zeros are trimmed, only behind the point, and all of them.
LEMMA TrailingZerosTrimmed ==
  ASSUME NEW d \in Nat, NEW s \in Int
  PROVE  /\ TrailingZeros(d, s) \in Nat
         /\ d % Power10[TrailingZeros(d, s)] = 0
         /\ TrailingZeros(d, s) # 0 => TrailingZeros(d, s) <= s
         /\ \A j \in 0..s : d % Power10[j] = 0 => j <= TrailingZeros(d, s)
<1> DEFINE S == {j \in 0..s : d % Power10[j] = 0} \cup {0}
           n == IF s >= 0 THEN s ELSE 0
           t == Max(S)
<1>1. n \in Nat /\ S \in SUBSET (0..n) /\ S # {} /\ 0 \in S
  OBVIOUS
<1>2. d % Power10[0] = 0
  <2>1. d % 1 = 0
    OBVIOUS
  <2>2. QED
    BY <2>1, PowerSteps
<1>3. \A j \in S : d % Power10[j] = 0 /\ (j # 0 => j <= s)
  BY <1>2
<1>4. \A j \in 0..s : d % Power10[j] = 0 => j \in S
  OBVIOUS
<1> HIDE DEF S
<1>5. t \in S /\ \A y \in S : t >= y
  BY <1>1, LastPosition, GreatestNumber
<1>6. TrailingZeros(d, s) = t
  BY DEF TrailingZeros, S
<1> HIDE DEF t, n
<1>7. t \in Nat /\ d % Power10[t] = 0 /\ (t # 0 => t <= s)
  BY <1>1, <1>3, <1>5
<1>8. \A j \in 0..s : d % Power10[j] = 0 => j <= t
  BY <1>4, <1>5, <1>7
<1>9. QED
  BY <1>6, <1>7, <1>8

\* Trimming takes nothing from the digits but zeros.
LEMMA TrimmingKeeps ==
  ASSUME NEW d \in 0..(Power10[LongestNumber] - 1), NEW t \in Nat, d % Power10[t] = 0
  PROVE  /\ d \div Power10[t] \in 0..(Power10[LongestNumber] - 1)
         /\ d = (d \div Power10[t]) * Power10[t]
         /\ d # 0 => d \div Power10[t] # 0
<1> DEFINE p == Power10[t]
           q == d \div p
           b == Power10[LongestNumber]
<1>1. p \in Nat \ {0} /\ b \in Nat /\ d \in Nat
  BY PowerType, NumberAssumption
<1> HIDE DEF p, b
<1>2. q \in Nat /\ d = q * p
  BY <1>1, IsMultiple DEF p
<1> HIDE DEF q
<1>3. q <= q * p
  BY <1>1, <1>2
<1>4. q <= d /\ d <= b - 1
  BY <1>2, <1>3 DEF b
<1>5. q \in 0..(b - 1)
  BY <1>1, <1>2, <1>4
<1>6. d # 0 => q # 0
  BY <1>1, <1>2
<1>7. QED
  BY <1>2, <1>5, <1>6 DEF q, p, b

\* The trimmed digits with zeros up to the cents are the number's cents.
LEMMA ZerosUpToTheCents ==
  ASSUME NEW q \in Nat, NEW t \in Nat, NEW scale \in Int, scale <= 2
  PROVE  /\ q * Power10[2 - scale] \in Nat
         /\ 2 - scale - t >= 0 =>
              q * Power10[2 - scale] = (q * Power10[t]) * Power10[2 - scale - t]
         /\ 2 - scale - t < 0 =>
              q * Power10[t] = (q * Power10[2 - scale]) * Power10[-(2 - scale - t)]
<1> DEFINE k == 2 - scale
           a == Power10[k]
           b == Power10[t]
<1>1. k \in Nat /\ a \in Nat /\ b \in Nat
  <2>1. k \in Nat
    OBVIOUS
  <2> HIDE DEF k
  <2>2. QED
    BY <2>1, PowerType
<1>2. ASSUME k - t >= 0
      PROVE  q * a = (q * b) * Power10[k - t]
  <2> DEFINE c == Power10[k - t]
  <2>1. k - t \in Nat /\ t + (k - t) = k
    BY <1>1, <1>2
  <2>2. a = b * c /\ c \in Nat
    BY <2>1, PowerSum, PowerType
  <2> HIDE DEF a, b, c
  <2>3. q * (b * c) = (q * b) * c
    BY <1>1, <2>2
  <2>4. QED
    BY <2>2, <2>3 DEF c
<1>3. ASSUME k - t < 0
      PROVE  q * b = (q * a) * Power10[-(k - t)]
  <2> DEFINE c == Power10[-(k - t)]
  <2>1. -(k - t) \in Nat /\ k + (-(k - t)) = t
    BY <1>1, <1>3
  <2>2. b = a * c /\ c \in Nat
    BY <1>1, <2>1, PowerSum, PowerType
  <2> HIDE DEF a, b, c
  <2>3. q * (a * c) = (q * a) * c
    BY <1>1, <2>2
  <2>4. QED
    BY <2>2, <2>3 DEF c
<1>4. q * a \in Nat
  <2> HIDE DEF a
  <2> QED BY <1>1
<1>5. QED
  BY <1>2, <1>3, <1>4

\* The count of the digits tells whether the column holds the amount.
LEMMA DigitsTellTheRange ==
  ASSUME NEW q \in 1..(Power10[LongestNumber] - 1), NEW scale \in Int, scale <= 2
  PROVE  DigitCount(q) + 2 - scale > MaxAmountDigits <=> q * Power10[2 - scale] > MaxAmount
<1> DEFINE k == 2 - scale
           c == DigitCount(q)
           a == Power10[k]
           e == c - 1
           x == Power10[c]
           y == Power10[e]
           z == Power10[MaxAmountDigits]
<1>1. k \in Nat /\ q \in Nat /\ q # 0 /\ q \in 0..(Power10[LongestNumber] - 1)
  OBVIOUS
<1>2. c \in Nat /\ q < x /\ c # 0 /\ y <= q
  BY <1>1, DigitCountBounds
<1> HIDE DEF c, k
<1>3. e \in Nat /\ c + k \in Nat /\ e + k \in Nat
  BY <1>1, <1>2
<1>4. MaxAmountDigits \in Nat /\ MaxAmount = z - 1
  BY MaxAmountDigitsAssumption
<1>5. a \in Nat \ {0} /\ x \in Nat /\ y \in Nat /\ z \in Nat
  BY <1>1, <1>2, <1>3, <1>4, PowerType
<1> DEFINE m == q * a
<1>6. ASSUME ~ c + k > MaxAmountDigits
      PROVE  ~ m > MaxAmount
  <2>1. Power10[c + k] <= z
    BY <1>3, <1>4, <1>6, PowerMonotone
  <2>2. Power10[c + k] = x * a
    BY <1>1, <1>2, PowerSum
  <2> HIDE DEF x, a, z
  <2>3. x * a <= z
    BY <2>1, <2>2
  <2>4. PICK r \in Nat : x = q + 1 + r
    <3>1. x - q - 1 \in Nat /\ x = q + 1 + (x - q - 1)
      BY <1>1, <1>2, <1>5
    <3>2. QED
      BY <3>1
  <2>5. x * a = m + a + r * a /\ r * a >= 0 /\ m \in Nat /\ r * a \in Int
    BY <1>1, <1>5, <2>4
  <2> HIDE DEF m
  <2>6. QED
    BY <1>4, <1>5, <2>3, <2>5
<1>7. ASSUME c + k > MaxAmountDigits
      PROVE  m > MaxAmount
  <2>1. MaxAmountDigits <= e + k
    BY <1>1, <1>2, <1>4, <1>7
  <2>2. z <= Power10[e + k]
    BY <1>3, <1>4, <2>1, PowerMonotone
  <2>3. Power10[e + k] = y * a
    BY <1>1, <1>3, PowerSum
  <2> HIDE DEF y, a, z, e
  <2>4. z <= y * a
    BY <2>2, <2>3
  <2>5. PICK r \in Nat : q = y + r
    <3>1. q - y \in Nat /\ q = y + (q - y)
      BY <1>1, <1>2, <1>5
    <3>2. QED
      BY <3>1
  <2>6. m = y * a + r * a /\ r * a >= 0 /\ y * a \in Int /\ r * a \in Int
    BY <1>1, <1>5, <2>5
  <2> HIDE DEF m
  <2>7. QED
    BY <1>4, <1>5, <2>4, <2>6
<1>8. c + k = c + 2 - scale
  BY <1>2 DEF k
<1>9. c + 2 - scale > MaxAmountDigits <=> m > MaxAmount
  BY <1>6, <1>7, <1>8
<1>10. QED
  BY <1>9 DEF k, c

\* How far the point moves to count in cents.
Shift(n) == n.exponent - n.decimals + 2

\* A number denotes the amount it is a multiple, or a fraction, of.
LEMMA MultipleDenotes ==
  ASSUME NEW n \in JSONNumbers, NEW c \in Int,
         Shift(n) >= 0 => Magnitude(c) = n.digits * Power10[Shift(n)],
         Shift(n) < 0 => n.digits = Magnitude(c) * Power10[-Shift(n)],
         c > 0 => ~ n.negative, c < 0 => n.negative
  PROVE  Denotes(n, c)
<1> DEFINE shift == n.exponent - n.decimals + 2
           m == Magnitude(c)
           d == n.digits
<1>1. m \in Nat /\ d \in Nat /\ shift \in Int
  BY DEF Magnitude, JSONNumbers
<1>2. /\ shift >= 0 => m = d * Power10[shift]
      /\ shift < 0 => d = m * Power10[-shift]
  BY DEF Shift
<1> HIDE DEF m, d, shift
<1>3. ASSUME shift >= 0
      PROVE  m % Power10[shift] = 0 /\ m \div Power10[shift] = d
  <2> DEFINE p == Power10[shift]
  <2>1. p \in Nat \ {0} /\ m = d * p
    BY <1>1, <1>2, <1>3, PowerType
  <2> HIDE DEF p
  <2>2. m % p = 0 /\ m \div p = d
    BY <1>1, <2>1, DividesExactly
  <2>3. QED
    BY <2>2 DEF p
<1>4. ASSUME ~ shift >= 0
      PROVE  d % Power10[-shift] = 0 /\ d \div Power10[-shift] = m
  <2> DEFINE p == Power10[-shift]
  <2>1. shift < 0 /\ -shift \in Nat
    BY <1>1, <1>4
  <2>2. p \in Nat \ {0} /\ d = m * p
    BY <1>2, <2>1, PowerType
  <2> HIDE DEF p
  <2>3. d % p = 0 /\ d \div p = m
    BY <1>1, <2>2, DividesExactly
  <2>4. QED
    BY <2>3 DEF p
<1>5. IF shift >= 0 THEN m % Power10[shift] = 0 /\ m \div Power10[shift] = d
      ELSE d % Power10[-shift] = 0 /\ d \div Power10[-shift] = m
  BY <1>3, <1>4
<1>6. QED
  BY <1>5, Zenon DEF Denotes, shift, m, d

\* And the other way round.
LEMMA DenotedIsMultiple ==
  ASSUME NEW n \in JSONNumbers, NEW c \in Int, Denotes(n, c)
  PROVE  /\ Shift(n) >= 0 => Magnitude(c) = n.digits * Power10[Shift(n)]
         /\ Shift(n) < 0 => n.digits = Magnitude(c) * Power10[-Shift(n)]
<1> DEFINE shift == n.exponent - n.decimals + 2
           m == Magnitude(c)
           d == n.digits
<1>1. m \in Nat /\ d \in Nat /\ shift \in Int
  BY DEF Magnitude, JSONNumbers
<1>2. IF shift >= 0 THEN m % Power10[shift] = 0 /\ m \div Power10[shift] = d
      ELSE d % Power10[-shift] = 0 /\ d \div Power10[-shift] = m
  BY Zenon DEF Denotes
<1> HIDE DEF m, d, shift
<1>3. ASSUME shift >= 0 PROVE m = d * Power10[shift]
  <2> DEFINE p == Power10[shift]
  <2>1. p \in Nat \ {0} /\ m % p = 0 /\ m \div p = d
    BY <1>1, <1>2, <1>3, PowerType
  <2> HIDE DEF p
  <2>2. m = d * p
    BY <1>1, <2>1, IsMultiple
  <2>3. QED
    BY <2>2 DEF p
<1>4. ASSUME shift < 0 PROVE d = m * Power10[-shift]
  <2> DEFINE p == Power10[-shift]
  <2>1. -shift \in Nat /\ ~ shift >= 0
    BY <1>1, <1>4
  <2>2. p \in Nat \ {0} /\ d % p = 0 /\ d \div p = m
    BY <1>2, <2>1, PowerType
  <2> HIDE DEF p
  <2>3. d = m * p
    BY <1>1, <2>2, IsMultiple
  <2>4. QED
    BY <2>3 DEF p
<1>5. QED
  BY <1>3, <1>4 DEF Shift, shift, m, d

\* A number that is representable is such a multiple of an amount that fits.
LEMMA RepresentableFits ==
  ASSUME NEW n \in JSONNumbers, n.digits # 0, Representable(n)
  PROVE  /\ Shift(n) >= 0 => /\ Shift(n) <= MaxAmountDigits
                             /\ n.digits * Power10[Shift(n)] <= MaxAmount
         /\ Shift(n) < 0 => /\ n.digits % Power10[-Shift(n)] = 0
                            /\ \E m \in 0..MaxAmount : n.digits = m * Power10[-Shift(n)]
<1> DEFINE shift == n.exponent - n.decimals + 2
           d == n.digits
<1>1. d \in Nat /\ shift \in Int /\ d # 0
  BY DEF JSONNumbers
<1>2. IF shift >= 0
      THEN d = 0 \/ (shift <= MaxAmountDigits /\ d <= MaxAmount \div Power10[shift])
      ELSE d % Power10[-shift] = 0 /\ d \div Power10[-shift] <= MaxAmount
  BY Zenon DEF Representable
<1> HIDE DEF d, shift
<1>3. ASSUME shift >= 0
      PROVE  shift <= MaxAmountDigits /\ d * Power10[shift] <= MaxAmount
  <2> DEFINE p == Power10[shift]
  <2>1. p \in Nat \ {0} /\ d <= MaxAmount \div p /\ shift <= MaxAmountDigits
    BY <1>1, <1>2, <1>3, PowerType
  <2> HIDE DEF p
  <2>2. d * p <= MaxAmount
    BY <1>1, <2>1, DivisionBounds, MaxAmountAssumption
  <2>3. QED
    BY <2>1, <2>2 DEF p
<1>4. ASSUME shift < 0
      PROVE  /\ d % Power10[-shift] = 0
             /\ \E m \in 0..MaxAmount : d = m * Power10[-shift]
  <2> DEFINE p == Power10[-shift]
             m == d \div p
  <2>1. -shift \in Nat /\ ~ shift >= 0
    BY <1>1, <1>4
  <2>2. p \in Nat \ {0} /\ d % p = 0 /\ m <= MaxAmount
    BY <1>2, <2>1, PowerType
  <2> HIDE DEF p
  <2>3. d = m * p /\ m \in Nat
    BY <1>1, <2>2, IsMultiple
  <2>4. m \in 0..MaxAmount
    BY <2>2, <2>3, MaxAmountAssumption
  <2> HIDE DEF m
  <2>5. QED
    BY <2>2, <2>3, <2>4 DEF p
<1>5. QED
  BY <1>3, <1>4 DEF Shift, shift, d

\* The parts Parse takes a number into.
Trim(n) == TrailingZeros(n.digits, n.decimals - n.exponent)
Digits(n) == n.digits \div Power10[Trim(n)]
Scale(n) == n.decimals - n.exponent - Trim(n)
InCents(n) == Digits(n) * Power10[2 - Scale(n)]

\* The parts a number is taken into.
LEMMA PartsOfNumber ==
  ASSUME NEW n \in JSONNumbers
  PROVE  /\ Trim(n) \in Nat /\ Scale(n) \in Int
         /\ Shift(n) = 2 - Scale(n) - Trim(n)
         /\ Digits(n) \in 0..(Power10[LongestNumber] - 1)
         /\ n.digits = Digits(n) * Power10[Trim(n)]
         /\ n.digits # 0 => Digits(n) # 0
         /\ \A j \in 0..(n.decimals - n.exponent) : n.digits % Power10[j] = 0 => j <= Trim(n)
<1>1. /\ n.digits \in 0..(Power10[LongestNumber] - 1) /\ n.digits \in Nat
      /\ n.decimals - n.exponent \in Int /\ n.decimals \in Int /\ n.exponent \in Int
  BY DEF JSONNumbers
<1>2. /\ Trim(n) \in Nat /\ n.digits % Power10[Trim(n)] = 0
      /\ \A j \in 0..(n.decimals - n.exponent) : n.digits % Power10[j] = 0 => j <= Trim(n)
  <2> DEFINE s == n.decimals - n.exponent
  <2>1. s \in Int
    BY <1>1
  <2> HIDE DEF s
  <2>2. /\ TrailingZeros(n.digits, s) \in Nat
        /\ n.digits % Power10[TrailingZeros(n.digits, s)] = 0
        /\ \A j \in 0..s : n.digits % Power10[j] = 0 => j <= TrailingZeros(n.digits, s)
    BY <1>1, <2>1, TrailingZerosTrimmed
  <2>3. QED
    BY <2>2 DEF Trim, s
<1>3. /\ Digits(n) \in 0..(Power10[LongestNumber] - 1)
      /\ n.digits = Digits(n) * Power10[Trim(n)]
      /\ n.digits # 0 => Digits(n) # 0
  BY <1>1, <1>2, TrimmingKeeps DEF Digits
<1>4. Scale(n) \in Int /\ Shift(n) = 2 - Scale(n) - Trim(n)
  BY <1>1, <1>2 DEF Scale, Shift
<1>5. QED
  BY <1>2, <1>3, <1>4

\* What becomes of a number.
LEMMA ParseByParts ==
  ASSUME NEW n \in JSONNumbers
  PROVE  Parse(n) =
           IF ExponentTooLong(n) THEN Rejected("invalid")
           ELSE IF n.digits = 0 THEN Accepted(0)
           ELSE IF Scale(n) > 2 THEN Rejected("too many decimals")
           ELSE IF InCents(n) > MaxAmount THEN Rejected("out of range")
           ELSE Accepted((IF n.negative THEN -1 ELSE 1) * InCents(n))
<1>1. Parse(n) =
        IF ExponentTooLong(n) THEN Rejected("invalid")
        ELSE IF n.digits = 0 THEN Accepted(0)
        ELSE IF Scale(n) > 2 THEN Rejected("too many decimals")
        ELSE IF DigitCount(Digits(n)) + 2 - Scale(n) > MaxAmountDigits THEN Rejected("out of range")
        ELSE Accepted((IF n.negative THEN -1 ELSE 1) * Digits(n) * Power10[2 - Scale(n)])
  BY Zenon DEF Parse, Trim, Digits, Scale
<1>2. /\ Digits(n) \in 0..(Power10[LongestNumber] - 1) /\ Scale(n) \in Int
      /\ n.digits # 0 => Digits(n) # 0
  BY PartsOfNumber
<1>3. ASSUME n.digits # 0, ~ Scale(n) > 2
      PROVE  /\ DigitCount(Digits(n)) + 2 - Scale(n) > MaxAmountDigits <=> InCents(n) > MaxAmount
             /\ (IF n.negative THEN -1 ELSE 1) * Digits(n) * Power10[2 - Scale(n)]
                  = (IF n.negative THEN -1 ELSE 1) * InCents(n)
  <2>1. Digits(n) \in 1..(Power10[LongestNumber] - 1) /\ Scale(n) <= 2 /\ 2 - Scale(n) \in Nat
    BY <1>2, <1>3
  <2>2. DigitCount(Digits(n)) + 2 - Scale(n) > MaxAmountDigits <=> InCents(n) > MaxAmount
    BY <1>2, <2>1, DigitsTellTheRange DEF InCents
  <2> DEFINE p == Power10[2 - Scale(n)]
             q == Digits(n)
  <2>3. p \in Nat /\ q \in Nat
    BY <2>1, PowerType
  <2> HIDE DEF p, q
  <2>4. (IF n.negative THEN -1 ELSE 1) * q * p = (IF n.negative THEN -1 ELSE 1) * (q * p)
    BY <2>3
  <2>5. QED
    BY <2>2, <2>4 DEF InCents, p, q
<1>4. QED
  BY <1>1, <1>3

\* A number that is accepted denotes the amount it is read as, and the column
\* holds it.
LEMMA AcceptedIsDenoted ==
  ASSUME NEW n \in JSONNumbers, Parse(n).ok
  PROVE  /\ Parse(n) = Accepted(Parse(n).cents)
         /\ Parse(n).cents \in Int /\ Magnitude(Parse(n).cents) <= MaxAmount
         /\ ~ n.negative => Parse(n).cents >= 0
         /\ Denotes(n, Parse(n).cents)
<1>1. /\ n.negative \in BOOLEAN /\ n.digits \in Nat
      /\ MaxAmount \in Nat
  BY MaxAmountAssumption DEF JSONNumbers
<1>2. \A why : ~ Rejected(why).ok
  BY DEF Rejected
<1>3. CASE Parse(n) = Accepted(0) /\ n.digits = 0
  <2>1. Parse(n).cents = 0 /\ Magnitude(0) = 0
    BY <1>3 DEF Accepted, Magnitude
  <2>2. Shift(n) \in Int
    BY DEF Shift, JSONNumbers
  <2>3. /\ Shift(n) >= 0 => 0 = 0 * Power10[Shift(n)]
        /\ Shift(n) < 0 => 0 = 0 * Power10[-Shift(n)]
    <3>1. \A x \in Int : 0 = 0 * x
      OBVIOUS
    <3>2. /\ Shift(n) >= 0 => Power10[Shift(n)] \in Int
          /\ Shift(n) < 0 => Power10[-Shift(n)] \in Int
      BY <2>2, PowerType
    <3>3. QED
      BY <3>1, <3>2
  <2>4. Denotes(n, 0)
    BY <1>3, <2>1, <2>3, MultipleDenotes
  <2>5. QED
    BY <1>1, <1>3, <2>1, <2>4
<1>4. CASE /\ n.digits # 0 /\ ~ Scale(n) > 2 /\ ~ InCents(n) > MaxAmount
           /\ Parse(n) = Accepted((IF n.negative THEN -1 ELSE 1) * InCents(n))
  <2> DEFINE m == InCents(n)
             c == (IF n.negative THEN -1 ELSE 1) * m
  <2>1. /\ Scale(n) \in Int /\ Scale(n) <= 2 /\ Trim(n) \in Nat /\ Digits(n) \in Nat
        /\ Shift(n) = 2 - Scale(n) - Trim(n)
        /\ n.digits = Digits(n) * Power10[Trim(n)]
    BY <1>4, PartsOfNumber
  <2>2. /\ m \in Nat
        /\ Shift(n) >= 0 => m = n.digits * Power10[Shift(n)]
        /\ Shift(n) < 0 => n.digits = m * Power10[-Shift(n)]
    BY <2>1, ZerosUpToTheCents DEF InCents
  <2>3. m <= MaxAmount
    BY <1>1, <1>4, <2>2
  <2>4. Parse(n) = Accepted(c)
    BY <1>4
  <2> HIDE DEF m
  <2>5. c \in Int /\ Magnitude(c) = m /\ (c > 0 => ~ n.negative) /\ (c < 0 => n.negative)
        /\ (~ n.negative => c >= 0)
    BY <1>1, <2>2 DEF Magnitude
  <2> HIDE DEF c
  <2>6. Denotes(n, c)
    BY <2>2, <2>5, MultipleDenotes
  <2>7. Parse(n).cents = c
    BY <2>4 DEF Accepted
  <2>8. QED
    BY <2>3, <2>4, <2>5, <2>6, <2>7
<1>5. QED
  BY <1>2, <1>3, <1>4, ParseByParts

\* An exponent of too many digits is beyond the largest, if it has no zero in
\* front.
LEMMA LongExponentIsLarge ==
  ASSUME NEW n \in JSONNumbers, ExponentTooLong(n), ~ ZeroPadded(n)
  PROVE  Magnitude(n.exponent) > MaxExponent
<1> DEFINE w == n.exponentDigits - 1
           x == Magnitude(n.exponent)
<1>1. n.exponentDigits \in Nat /\ x \in Int
  BY DEF JSONNumbers, Magnitude
<1>2. w \in Nat /\ MaxExponentDigits \in Nat /\ MaxExponentDigits <= w /\ n.exponentDigits > 1
  BY <1>1, NumberAssumption DEF ExponentTooLong
<1>3. ~ x < Power10[w]
  BY <1>2 DEF ZeroPadded
<1>4. /\ Power10[MaxExponentDigits] <= Power10[w]
      /\ Power10[MaxExponentDigits] \in Nat /\ Power10[w] \in Nat
  BY <1>2, PowerMonotone, PowerType
<1> HIDE DEF w, x
<1>5. x > Power10[MaxExponentDigits] - 1
  BY <1>1, <1>3, <1>4
<1>6. QED
  BY <1>5 DEF MaxExponent, x

\* A number that is refused denotes no amount the column holds, unless its
\* exponent is written with too many digits that are not needed.
LEMMA RefusedIsNotRepresentable ==
  ASSUME NEW n \in JSONNumbers, ~ Parse(n).ok, n.digits # 0, Representable(n),
         ExponentTooLong(n) => ~ ZeroPadded(n)
  PROVE  FALSE
<1>1. /\ n.digits \in Nat /\ n.digits \in 0..(Power10[LongestNumber] - 1)
      /\ n.decimals \in 0..LongestNumber /\ n.exponent \in Int
      /\ MaxAmount \in Nat /\ MaxAmountDigits \in Nat /\ MaxExponent \in Int
      /\ LongestNumber \in Nat /\ Shift(n) \in Int
      /\ MaxAmount = Power10[MaxAmountDigits] - 1
  BY MaxAmountAssumption, MaxAmountDigitsAssumption, NumberAssumption, PowerType
  DEF JSONNumbers, Shift, MaxExponent
<1>2. /\ Shift(n) >= 0 => /\ Shift(n) <= MaxAmountDigits
                          /\ n.digits * Power10[Shift(n)] <= MaxAmount
      /\ Shift(n) < 0 => /\ n.digits % Power10[-Shift(n)] = 0
                         /\ \E m \in 0..MaxAmount : n.digits = m * Power10[-Shift(n)]
  BY RepresentableFits
<1>3. CASE n.exponent > MaxExponent
  <2>1. Shift(n) >= MaxAmountDigits /\ Shift(n) >= 0
    BY <1>1, <1>3, LengthAssumption DEF Shift
  <2> DEFINE z == Power10[MaxAmountDigits]
             d == n.digits
  <2>2. Shift(n) = MaxAmountDigits
    BY <1>1, <1>2, <2>1
  <2>3. d * z <= MaxAmount
    BY <1>2, <2>1, <2>2
  <2>4. z \in Nat /\ d \in Nat /\ d # 0 /\ MaxAmount = z - 1
    BY <1>1, PowerType
  <2> HIDE DEF z, d
  <2>5. d * z >= z
    BY <2>4
  <2>6. d * z \in Int
    BY <2>4
  <2>7. QED
    BY <2>3, <2>4, <2>5, <2>6
<1>4. CASE n.exponent < -MaxExponent
  <2>1. Shift(n) < 0 /\ -Shift(n) >= LongestNumber /\ -Shift(n) \in Nat
    BY <1>1, <1>4, LengthAssumption DEF Shift
  <2> DEFINE p == Power10[-Shift(n)]
             b == Power10[LongestNumber]
             d == n.digits
  <2>2. b <= p
    BY <1>1, <2>1, PowerMonotone
  <2>3. PICK m \in 0..MaxAmount : d = m * p
    BY <1>2, <2>1
  <2>4. p \in Nat /\ b \in Nat /\ d \in Nat /\ d < b /\ d # 0
    BY <1>1, <2>1, PowerType
  <2> HIDE DEF p, b, d
  <2>5. m \in Nat /\ m # 0
    BY <1>1, <2>3, <2>4
  <2>6. m * p >= p /\ m * p \in Int
    BY <2>4, <2>5
  <2>7. QED
    BY <2>2, <2>3, <2>4, <2>6
<1>5. CASE ~ ExponentTooLong(n)
  <2>1. /\ Scale(n) \in Int /\ Trim(n) \in Nat /\ Digits(n) \in Nat
        /\ Shift(n) = 2 - Scale(n) - Trim(n)
        /\ n.digits = Digits(n) * Power10[Trim(n)]
        /\ \A j \in 0..(n.decimals - n.exponent) : n.digits % Power10[j] = 0 => j <= Trim(n)
    BY PartsOfNumber
  <2>2. ~ Scale(n) > 2
    <3>1. SUFFICES ASSUME Scale(n) > 2 PROVE FALSE
      OBVIOUS
    <3> DEFINE j == -Shift(n)
    <3>2. Shift(n) < 0 /\ j \in Nat /\ j > Trim(n)
      BY <2>1, <3>1
    <3>3. j \in 0..(n.decimals - n.exponent)
      BY <1>1, <3>2 DEF Shift
    <3>4. n.digits % Power10[j] = 0
      BY <1>2, <3>2
    <3> HIDE DEF j
    <3>5. j <= Trim(n)
      BY <2>1, <3>3, <3>4
    <3>6. QED
      BY <2>1, <3>2, <3>5
  <2>3. ~ InCents(n) > MaxAmount
    <3>1. /\ InCents(n) \in Nat
          /\ Shift(n) >= 0 => InCents(n) = n.digits * Power10[Shift(n)]
          /\ Shift(n) < 0 => n.digits = InCents(n) * Power10[-Shift(n)]
      BY <2>1, <2>2, ZerosUpToTheCents DEF InCents
    <3>2. CASE Shift(n) >= 0
      BY <1>1, <1>2, <3>1, <3>2
    <3>3. CASE Shift(n) < 0
      <4> DEFINE p == Power10[-Shift(n)]
                 x == InCents(n)
      <4>1. PICK m \in 0..MaxAmount : n.digits = m * p
        BY <1>2, <3>3
      <4>2. p \in Nat \ {0} /\ x \in Nat /\ m \in Nat
        <5>1. -Shift(n) \in Nat
          BY <1>1, <3>3
        <5>2. QED
          BY <1>1, <3>1, <5>1, PowerType
      <4>3. n.digits = x * p
        BY <3>1, <3>3
      <4> HIDE DEF p, x
      <4>4. (m * p) \div p = m /\ (x * p) \div p = x
        BY <4>2, DividesExactly
      <4>5. x = m
        BY <4>1, <4>3, <4>4
      <4>6. QED
        BY <1>1, <4>5 DEF x
    <3>4. QED
      BY <1>1, <3>2, <3>3
  <2>4. Parse(n) = Accepted((IF n.negative THEN -1 ELSE 1) * InCents(n))
    BY <1>5, <2>2, <2>3, ParseByParts
  <2>5. QED
    BY <2>4 DEF Accepted
<1>6. n.exponent > MaxExponent \/ n.exponent < -MaxExponent \/ ~ ExponentTooLong(n)
  BY <1>1, LongExponentIsLarge DEF Magnitude
<1>7. QED
  BY <1>3, <1>4, <1>5, <1>6

\* What a number that is sent as a price is worth, or why it is refused.
LEMMA DecodeIsExact ==
  ASSUME NEW n \in JSONNumbers
  PROVE  /\ Decode(n).ok => Decode(n).cents \in 0..MaxAmount
         /\ IF Decode(n).ok THEN Denotes(n, Decode(n).cents)
            ELSE \/ n.negative /\ n.digits # 0
                 \/ ~ Representable(n)
                 \/ ExponentTooLong(n) /\ (n.digits = 0 \/ ZeroPadded(n))
<1>1. n.negative \in BOOLEAN /\ MaxAmount \in Nat
  BY MaxAmountAssumption DEF JSONNumbers
<1>2. CASE Parse(n).ok
  <2>1. /\ Parse(n).cents \in Int /\ Magnitude(Parse(n).cents) <= MaxAmount
        /\ ~ n.negative => Parse(n).cents >= 0
        /\ Denotes(n, Parse(n).cents)
    BY <1>2, AcceptedIsDenoted
  <2>2. CASE Parse(n).cents < 0
    <3>1. Decode(n) = Rejected("negative")
      BY <1>2, <2>2 DEF Decode
    <3>2. ~ Decode(n).ok
      BY <3>1 DEF Rejected
    <3>3. n.digits # 0
      <4>1. Accepted(0).cents = 0 /\ \A why : ~ Rejected(why).ok
        BY DEF Accepted, Rejected
      <4>2. SUFFICES ASSUME n.digits = 0 PROVE FALSE
        OBVIOUS
      <4>3. Parse(n) = Accepted(0)
        BY <1>2, <4>1, <4>2, ParseByParts
      <4>4. QED
        BY <2>2, <4>1, <4>3
    <3>4. QED
      BY <1>1, <2>1, <2>2, <3>2, <3>3
  <2>3. CASE ~ Parse(n).cents < 0
    <3>1. Decode(n) = Parse(n)
      BY <2>3 DEF Decode
    <3>2. Parse(n).cents \in 0..MaxAmount
      BY <1>1, <2>1, <2>3 DEF Magnitude
    <3>3. QED
      BY <1>2, <2>1, <3>1, <3>2
  <2>4. QED
    BY <2>2, <2>3
<1>3. CASE ~ Parse(n).ok
  <2>1. Decode(n) = Parse(n)
    BY <1>3 DEF Decode
  <2>2. CASE n.digits = 0
    <3>1. Accepted(0).ok
      BY DEF Accepted
    <3>2. ExponentTooLong(n)
      BY <1>3, <2>2, <3>1, ParseByParts
    <3>3. QED
      BY <1>3, <2>1, <2>2, <3>2
  <2>3. CASE n.digits # 0
    BY <1>3, <2>1, <2>3, RefusedIsNotRepresentable
  <2>4. QED
    BY <2>2, <2>3
<1>4. QED
  BY <1>2, <1>3

-----------------------------------------------------------------------------
(* Numbers that are shown.                                                 *)

\* The number shown for an amount of the column denotes it.
LEMMA ShownIsDenoted ==
  ASSUME NEW c \in 0..MaxAmount
  PROVE  /\ MarshalJSON(c) \in JSONNumbers
         /\ ~ MarshalJSON(c).negative
         /\ ~ ExponentTooLong(MarshalJSON(c)) /\ MarshalJSON(c).exponent = 0
         /\ Shift(MarshalJSON(c)) \in 0..2
         /\ Denotes(MarshalJSON(c), c)
<1> DEFINE n == MarshalJSON(c)
           whole == c \div 100
           fraction == c % 100
           places == IF fraction = 0 THEN 0 ELSE IF fraction % 10 = 0 THEN 1 ELSE 2
           behind == IF fraction % 10 = 0 THEN fraction \div 10 ELSE fraction
           p == Power10[places]
           q == Power10[2 - places]
           d == whole * p + behind
<1>1. c \in Nat /\ Magnitude(c) = c /\ ~ c < 0
  BY MaxAmountAssumption DEF Magnitude
<1>2. n = [negative |-> FALSE, digits |-> d, decimals |-> places,
           exponent |-> 0, exponentDigits |-> 0]
  <2>1. n = [negative |-> c < 0, digits |-> d, decimals |-> places,
             exponent |-> 0, exponentDigits |-> 0]
    BY <1>1, Zenon DEF MarshalJSON
  <2>2. (c < 0) = FALSE
    BY <1>1
  <2> HIDE DEF n, d, places
  <2>3. QED
    BY <2>1, <2>2
<1>3. Power10[0] = 1 /\ Power10[1] = 10 /\ Power10[2] = 100
  <2>1. 1 \in Nat /\ 2 \in Nat /\ 1 # 0 /\ 2 # 0 /\ 1 - 1 = 0 /\ 2 - 1 = 1
    OBVIOUS
  <2>2. Power10[0] = 1 /\ Power10[1] = 10 * Power10[0] /\ Power10[2] = 10 * Power10[1]
    BY <2>1, PowerSteps
  <2>3. QED
    BY <2>2
<1>4. p = (IF places = 0 THEN 1 ELSE IF places = 1 THEN 10 ELSE 100)
      /\ q = (IF places = 0 THEN 100 ELSE IF places = 1 THEN 10 ELSE 1)
  <2>1. places \in {0, 1, 2} /\ 2 - 0 = 2 /\ 2 - 1 = 1 /\ 2 - 2 = 0
    OBVIOUS
  <2> HIDE DEF places
  <2>2. QED
    BY <1>3, <2>1
<1> HIDE DEF p, q
<1>5. c = d * q /\ d \in Nat /\ d <= c
  <2>1. c = whole * 100 + fraction /\ whole \in Nat /\ fraction \in 0..99
    BY <1>1
  <2>2. CASE fraction = 0
    BY <1>1, <1>4, <2>1, <2>2
  <2>3. CASE fraction # 0 /\ fraction % 10 = 0
    BY <1>1, <1>4, <2>1, <2>3
  <2>4. CASE fraction # 0 /\ fraction % 10 # 0
    BY <1>1, <1>4, <2>1, <2>4
  <2>5. QED
    BY <2>2, <2>3, <2>4
<1>6. places \in Nat /\ places <= 2
  OBVIOUS
<1> HIDE DEF n, d, places
<1>7. /\ MaxAmount = Power10[MaxAmountDigits] - 1 /\ MaxAmount \in Nat \ {0}
      /\ Power10[MaxAmountDigits] <= Power10[LongestNumber]
      /\ Power10[LongestNumber] \in Nat /\ Power10[MaxAmountDigits] \in Nat
      /\ LongestNumber \in Nat
  BY MaxAmountAssumption, MaxAmountDigitsAssumption, NumberAssumption, LengthAssumption,
     PowerMonotone, PowerType
<1>8. d \in 0..(Power10[LongestNumber] - 1)
  <2> DEFINE b == Power10[LongestNumber]
             z == Power10[MaxAmountDigits]
  <2>1. MaxAmount = z - 1 /\ z <= b /\ b \in Nat /\ z \in Nat /\ c <= MaxAmount
    BY <1>7
  <2> HIDE DEF b, z
  <2>2. d \in 0..(b - 1)
    BY <1>1, <1>5, <2>1
  <2>3. QED
    BY <2>2 DEF b
<1>9. places \in 0..LongestNumber
  BY <1>6, <1>7, LengthAssumption, MaxAmountDigitsAssumption
<1>10. n \in JSONNumbers /\ ~ n.negative
  <2>1. Magnitude(0) < Power10[0]
    BY <1>3 DEF Magnitude
  <2>2. QED
    BY <1>2, <1>8, <1>9, <2>1 DEF JSONNumbers
<1>11. Denotes(n, c)
  <2>1. n.digits = d /\ Shift(n) = 2 - places /\ Shift(n) >= 0 /\ n.negative = FALSE
    BY <1>2, <1>6 DEF Shift
  <2>2. Magnitude(c) = n.digits * Power10[Shift(n)]
    BY <1>1, <1>5, <2>1 DEF q
  <2>3. c \in Int /\ ~ c < 0
    BY <1>1
  <2>4. /\ Shift(n) >= 0 => Magnitude(c) = n.digits * Power10[Shift(n)]
        /\ Shift(n) < 0 => n.digits = Magnitude(c) * Power10[-Shift(n)]
    <3>1. ~ Shift(n) < 0
      BY <1>6, <2>1
    <3>2. QED
      BY <2>2, <3>1, Zenon
  <2>5. (c > 0 => ~ n.negative) /\ (c < 0 => n.negative)
    BY <1>10, <2>3
  <2>6. QED
    BY <1>10, <2>3, <2>4, <2>5, MultipleDenotes, Zenon
<1>12. ~ ExponentTooLong(n) /\ n.exponent = 0 /\ Shift(n) \in 0..2
  BY <1>2, <1>6, NumberAssumption DEF Shift, ExponentTooLong
<1>13. QED
  BY <1>10, <1>11, <1>12 DEF n

\* Sent again, what is shown is accepted as the same amount.
LEMMA ShownIsAccepted ==
  ASSUME NEW c \in 0..MaxAmount
  PROVE  Parse(MarshalJSON(c)) = Accepted(c)
<1> DEFINE n == MarshalJSON(c)
           a == Parse(n).cents
           p == Power10[Shift(n)]
           d == n.digits
<1>1. /\ n \in JSONNumbers /\ ~ n.negative /\ ~ ExponentTooLong(n) /\ n.exponent = 0
      /\ Shift(n) \in 0..2 /\ Denotes(n, c)
  BY ShownIsDenoted
<1>2. c \in Nat /\ Magnitude(c) = c /\ MaxAmount \in Nat /\ c <= MaxAmount
  BY MaxAmountAssumption DEF Magnitude
<1> HIDE DEF n
<1>3. d \in Nat /\ p \in Nat \ {0} /\ c = d * p
  <2>1. Shift(n) \in Nat /\ Shift(n) >= 0
    BY <1>1
  <2>2. Magnitude(c) = n.digits * Power10[Shift(n)]
    BY <1>1, <1>2, <2>1, DenotedIsMultiple
  <2>3. QED
    BY <1>1, <1>2, <2>1, <2>2, PowerType DEF JSONNumbers
<1>4. CASE d = 0
  <2>1. Parse(n) = Accepted(0)
    BY <1>1, <1>4, ParseByParts
  <2>2. c = 0
    <3> HIDE DEF d, p
    <3> QED BY <1>3, <1>4
  <2>3. QED
    BY <2>1, <2>2 DEF n
<1>5. CASE d # 0
  <2>1. Representable(n)
    <3> DEFINE shift == n.exponent - n.decimals + 2
    <3>1. shift = Shift(n)
      BY DEF Shift
    <3>2. d <= MaxAmount \div p
      <4> HIDE DEF d, p
      <4> QED BY <1>2, <1>3, QuotientBound
    <3>3. shift >= 0 /\ shift <= MaxAmountDigits
      BY <1>1, <3>1, LengthAssumption, MaxAmountDigitsAssumption
    <3>4. d <= MaxAmount \div Power10[shift]
      BY <3>1, <3>2
    <3> HIDE DEF shift
    <3>5. IF shift >= 0
          THEN d = 0 \/ (shift <= MaxAmountDigits /\ d <= MaxAmount \div Power10[shift])
          ELSE d % Power10[-shift] = 0 /\ d \div Power10[-shift] <= MaxAmount
      BY <3>3, <3>4
    <3>6. QED
      BY <3>5, Zenon DEF Representable, shift, d
  <2>2. Parse(n).ok
    BY <1>1, <1>5, <2>1, RefusedIsNotRepresentable
  <2>3. Parse(n) = Accepted(a) /\ a \in Int /\ a >= 0 /\ Denotes(n, a)
    BY <1>1, <2>2, AcceptedIsDenoted
  <2> HIDE DEF a
  <2>4. Magnitude(a) = d * p
    <3>1. Shift(n) >= 0
      BY <1>1
    <3>2. QED
      BY <1>1, <2>3, <3>1, DenotedIsMultiple
  <2>5. a = c
    BY <1>2, <1>3, <2>3, <2>4 DEF Magnitude
  <2>6. QED
    BY <2>3, <2>5 DEF n
<1>6. QED
  BY <1>4, <1>5
-----------------------------------------------------------------------------
(* The column.                                                             *)

\* What the column was given comes back, in whichever form the driver hands it
\* over.
LEMMA ColumnReturnsWhatItHolds ==
  ASSUME NEW c \in Int, Validate(c), NEW n \in Stored(NumericFromCents(c))
  PROVE  CentsFromNumeric(n) = Accepted(c)
  <1>1. Power10[0] = 1 /\ Power10[2] = 100
    <2>1. 1 \in Nat /\ 2 \in Nat /\ 1 # 0 /\ 2 # 0 /\ 1 - 1 = 0 /\ 2 - 1 = 1
      OBVIOUS
    <2>2. Power10[0] = 1 /\ Power10[1] = 10 * Power10[0] /\ Power10[2] = 10 * Power10[1]
      BY <2>1, PowerSteps
    <2>3. QED
      BY <2>2
  <1>2. ASSUME n.exp \in Int, n.exp + 2 >= 0, n.int * Power10[n.exp + 2] = c
        PROVE  CentsFromNumeric(n) = Accepted(c)
    <2>1. ~ n.exp + 2 < 0
      BY <1>2
    <2>2. ~ Magnitude(c) > MaxAmount
      BY MaxAmountAssumption DEF Validate, Magnitude
    <2>3. QED
      BY <1>2, <2>1, <2>2, Zenon DEF CentsFromNumeric
  <1>3. CASE n = [int |-> c, exp |-> -2]
    <2>1. n.int = c /\ n.exp \in Int /\ n.exp + 2 = 0
      BY <1>3
    <2>2. Power10[n.exp + 2] = 1
      BY <1>1, <2>1, Zenon
    <2>3. n.int * Power10[n.exp + 2] = c
      BY <2>1, <2>2
    <2>4. QED
      BY <1>2, <2>1, <2>3
  <1>4. CASE n = [int |-> c \div 100, exp |-> 0] /\ c % 100 = 0
    <2>1. (c \div 100) * 100 = c
      BY <1>4
    <2>2. n.int = c \div 100 /\ n.exp \in Int /\ n.exp + 2 = 2
      BY <1>4
    <2>3. Power10[n.exp + 2] = 100
      BY <1>1, <2>2, Zenon
    <2>4. n.int * Power10[n.exp + 2] = c
      BY <2>1, <2>2, <2>3
    <2>5. QED
      BY <1>2, <2>2, <2>4
  <1>5. QED
    BY <1>3, <1>4 DEF Stored, NumericFromCents

PricesFit == price \in [Entries -> (0..MaxAmount) \cup {NoPrice}]

\* A price that is read is the price that is stored.
LEMMA ReadIsExact ==
  ASSUME PricesFit, NEW e \in Entries, price[e] # NoPrice, NEW row \in Read(e)
  PROVE  row = Accepted(price[e]) /\ price[e] \in Int /\ Validate(price[e])
  <1>1. price[e] \in Int /\ Validate(price[e])
    BY MaxAmountAssumption DEF PricesFit, Validate, Magnitude
  <1>2. QED
    BY <1>1, ColumnReturnsWhatItHolds DEF Read

\* The CHECK keeps a column of prices a column of prices.
LEMMA KeptFits ==
  ASSUME NEW column \in [Entries -> (0..MaxAmount) \cup {NoPrice}], NEW e, NEW cents
  PROVE  Kept(column, e, cents) \in [Entries -> (0..MaxAmount) \cup {NoPrice}]
  BY DEF Kept, Fits, NumericFromCents

\* Every action keeps the prices within their columns.
LEMMA PricesFitStep == PricesFit /\ [PriceNext]_priceVars => PricesFit'
  <1> SUFFICES ASSUME PricesFit, [PriceNext]_priceVars PROVE PricesFit'
    OBVIOUS
  <1>1. ASSUME NEW e, NEW cents, price' = Kept(price, e, cents) PROVE PricesFit'
    BY <1>1, KeptFits DEF PricesFit
  <1>2. ASSUME NEW e, NEW n, Create(e, n) \/ RepriceService(e, n) PROVE PricesFit'
    BY <1>1, <1>2 DEF Create, RepriceService, Write
  <1>3. ASSUME NEW r, EndEdit(r) PROVE PricesFit'
    BY <1>1, <1>3 DEF EndEdit
  <1>4. CASE UNCHANGED price
    BY <1>4 DEF PricesFit
  <1>5. QED
    BY <1>2, <1>3, <1>4
    DEF PriceNext, priceVars, Refuse, BeginRenaming, BeginRepricing, AbandonEdit, Compose,
        ResolveLine, RefuseUnknown, RefuseInvalid, PriceLines, RefuseLine, AddLine, RefuseSum,
        Save, Answer, Quote, RefuseQuote
-----------------------------------------------------------------------------
(* Quotes.                                                                 *)

Lines == [unit : Int, quantity : Int, total : Int]

Phases == {"none", "resolve", "add", "saved", "not found", "invalid", "too large"}

QuoteRecords ==
    [phase : Phases, request : Seq([id : Entries, quantity : Int]), lines : Seq(Lines),
     added : Nat, total : Int, exact : Int]

QuoteType == quote \in QuoteRecords

\* Before lines are added, each has its exact total.
LinesAreExact ==
    quote.phase = "add" =>
        \A i \in DOMAIN quote.lines :
            quote.lines[i].total = quote.lines[i].unit * quote.lines[i].quantity

ExactInv == PricesFit /\ QuoteType /\ LinesAreExact /\ QuoteIsExact

\* An empty quote is a quote, and its sums are exact.
LEMMA NoQuoteIsExact ==
  NoQuote \in QuoteRecords /\ NoQuote.phase # "add" /\ NoQuote.total = NoQuote.exact
  <1>1. <<>> \in Seq(Lines) /\ <<>> \in Seq([id : Entries, quantity : Int])
    OBVIOUS
  <1>2. QED
    BY <1>1 DEF NoQuote, QuoteRecords, Phases

\* The wanted line asks for an entry and an integer quantity.
LEMMA WantedType ==
  ASSUME QuoteType, Len(quote.lines) < Len(quote.request)
  PROVE  Wanted.id \in Entries /\ Wanted.quantity \in Int
  <1>1. quote.request \in Seq([id : Entries, quantity : Int])
    BY DEF QuoteType, QuoteRecords
  <1>2. quote.lines \in Seq(Lines)
    BY DEF QuoteType, QuoteRecords
  <1>3. Len(quote.lines) + 1 \in 1..Len(quote.request)
    BY <1>1, <1>2
  <1>4. quote.request[Len(quote.lines) + 1] \in [id : Entries, quantity : Int]
    BY <1>1, <1>3, ElementType
  <1>5. QED
    BY <1>4 DEF Wanted

\* A step that leaves the sums alone and adds no line keeps them exact.
LEMMA SumsKept ==
  ASSUME QuoteType, QuoteIsExact, quote' \in QuoteRecords,
         quote'.total = quote.total, quote'.exact = quote.exact, quote'.phase # "add"
  PROVE  QuoteType' /\ LinesAreExact' /\ QuoteIsExact'
  BY DEF QuoteType, LinesAreExact, QuoteIsExact

\* A catalogue without entries and without a quote.
LEMMA ExactInvAtStart == PriceInit => ExactInv
  BY NoQuoteIsExact
  DEF PriceInit, ExactInv, PricesFit, QuoteType, LinesAreExact, QuoteIsExact

\* Every step keeps the sums exact.
LEMMA ExactInvKept ==
  ASSUME ExactInv, [PriceNext]_priceVars
  PROVE  ExactInv'
<1>0. PricesFit'
  BY PricesFitStep DEF ExactInv
<1>1. ASSUME NEW why \in Phases, why # "add", RefuseQuote(why)
      PROVE  ExactInv'
  <2>1. quote' = [quote EXCEPT !.phase = why]
    BY <1>1 DEF RefuseQuote, Quote
  <2>2. QED
    BY <1>0, <1>1, <2>1, SumsKept DEF ExactInv, QuoteType, QuoteRecords
<1>2. ASSUME NEW request \in Requests, Compose(request) PROVE ExactInv'
  <2>1. quote' = [NoQuote EXCEPT !.phase = "resolve", !.request = request]
    BY <1>2 DEF Compose, Quote
  <2>2. request \in Seq([id : Entries, quantity : Int])
    BY RequestsAssumption DEF Entries
  <2>3. quote' \in QuoteRecords
    BY <2>1, <2>2, NoQuoteIsExact DEF QuoteRecords, Phases
  <2>4. quote'.phase # "add" /\ quote'.total = quote'.exact
    BY <2>1 DEF NoQuote
  <2>5. QED
    BY <1>0, <2>3, <2>4 DEF ExactInv, QuoteType, LinesAreExact, QuoteIsExact
<1>3. CASE ResolveLine
  <2>1. PICK row \in Read(Wanted.id) :
           /\ row.ok
           /\ Quote([quote EXCEPT !.lines = Append(@, [unit     |-> row.cents,
                                                       quantity |-> Wanted.quantity,
                                                       total    |-> 0])])
    BY <1>3 DEF ResolveLine
  <2>2. Wanted.id \in Entries /\ Wanted.quantity \in Int /\ price[Wanted.id] # NoPrice
    BY <1>3, WantedType DEF ResolveLine, ExactInv
  <2>3. row.cents \in Int
    BY <2>2, ReadIsExact DEF ExactInv, Accepted
  <2> DEFINE line == [unit |-> row.cents, quantity |-> Wanted.quantity, total |-> 0]
  <2>4. line \in Lines
    BY <2>2, <2>3 DEF Lines
  <2>5. quote' = [quote EXCEPT !.lines = Append(@, line)] /\ quote.phase = "resolve"
    BY <1>3, <2>1 DEF Quote, ResolveLine
  <2> HIDE DEF line
  <2>6. Append(quote.lines, line) \in Seq(Lines)
    BY <2>4 DEF ExactInv, QuoteType, QuoteRecords
  <2>7. QED
    BY <1>0, <2>5, <2>6, SumsKept DEF ExactInv, QuoteType, QuoteRecords, Phases
<1>4. CASE PriceLines
  <2> DEFINE priced == [i \in DOMAIN quote.lines |->
                          [quote.lines[i] EXCEPT !.total = LineTotal(quote.lines[i]).cents]]
  <2>1. ASSUME NEW i \in DOMAIN quote.lines
        PROVE  /\ priced[i] \in Lines
               /\ priced[i].total = priced[i].unit * priced[i].quantity
    <3>1. quote.lines[i] \in Lines
      BY DEF ExactInv, QuoteType, QuoteRecords
    <3>2. LineTotal(quote.lines[i]).ok
      BY <1>4 DEF PriceLines
    <3>3. /\ LineTotal(quote.lines[i]).cents = quote.lines[i].unit * quote.lines[i].quantity
          /\ quote.lines[i].unit * quote.lines[i].quantity \in Int
      BY <3>1, <3>2, MulQuantityIsExact DEF LineTotal, Lines
    <3>4. QED
      BY <3>1, <3>3 DEF Lines
  <2>2. quote' = [quote EXCEPT !.phase = "add", !.lines = priced]
    BY <1>4 DEF PriceLines, Quote
  <2>3. quote.lines \in Seq(Lines) /\ quote \in QuoteRecords
    BY DEF ExactInv, QuoteType, QuoteRecords
  <2>4. DOMAIN priced = DOMAIN quote.lines
    OBVIOUS
  <2>5. priced \in Seq(Lines)
    <3>1. DOMAIN quote.lines = 1..Len(quote.lines)
      BY <2>3
    <3>2. priced \in [1..Len(quote.lines) -> Lines]
      BY <2>1, <3>1, Zenon
    <3>3. QED
      BY <2>3, <3>2, MappedType
  <2> HIDE DEF priced
  <2>6. quote' \in QuoteRecords /\ quote'.lines = priced
    BY <2>2, <2>3, <2>5 DEF QuoteRecords, Phases
  <2>7. quote'.total = quote.total /\ quote'.exact = quote.exact
    BY <2>2, <2>3 DEF QuoteRecords
  <2>8. LinesAreExact'
    BY <2>1, <2>4, <2>6, Zenon DEF LinesAreExact
  <2>9. QED
    BY <1>0, <2>6, <2>7, <2>8 DEF ExactInv, QuoteType, QuoteIsExact
<1>5. CASE AddLine
  <2>1. quote.added + 1 \in DOMAIN quote.lines
    BY <1>5 DEF AddLine, ExactInv, QuoteType, QuoteRecords
  <2>2. /\ NextLine.total \in Int
        /\ NextLine.total = NextLine.unit * NextLine.quantity
    <3>1. quote.lines[quote.added + 1] \in Lines
      BY <2>1 DEF ExactInv, QuoteType, QuoteRecords
    <3>2. quote.phase = "add"
      BY <1>5 DEF AddLine
    <3>3. QED
      BY <2>1, <3>1, <3>2, Zenon DEF NextLine, ExactInv, LinesAreExact, Lines
  <2>3. Add(quote.total, NextLine.total).cents = quote.total + NextLine.total
    BY <1>5, <2>2, AddIsExact DEF AddLine, ExactInv, QuoteType, QuoteRecords
  <2>4. quote' = [quote EXCEPT !.added = @ + 1, !.total = @ + NextLine.total,
                               !.exact = @ + NextLine.total]
    BY <1>5, <2>2, <2>3 DEF AddLine, Quote
  <2> HIDE DEF NextLine
  <2>5. /\ quote' \in QuoteRecords /\ quote'.lines = quote.lines /\ quote'.phase = quote.phase
        /\ quote'.total = quote.total + NextLine.total
        /\ quote'.exact = quote.exact + NextLine.total
    <3>1. /\ quote.total + NextLine.total \in Int
          /\ quote.exact + NextLine.total \in Int
          /\ quote.added + 1 \in Nat
      BY <2>2 DEF ExactInv, QuoteType, QuoteRecords
    <3>2. QED
      BY <2>4, <3>1 DEF ExactInv, QuoteType, QuoteRecords
  <2>6. LinesAreExact'
    BY <2>5, Zenon DEF ExactInv, LinesAreExact
  <2>7. QED
    BY <1>0, <2>5, <2>6 DEF ExactInv, QuoteType, QuoteIsExact
<1>6. CASE Save
  <2>1. RefuseQuote("saved")
    BY <1>6 DEF Save, RefuseQuote
  <2>2. QED
    BY <1>1, <2>1 DEF Phases
<1>7. CASE Answer
  <2>1. quote' = NoQuote
    BY <1>7 DEF Answer, Quote
  <2>2. QED
    BY <1>0, <2>1, NoQuoteIsExact DEF ExactInv, QuoteType, LinesAreExact, QuoteIsExact
<1>8. CASE UNCHANGED quote
  BY <1>0, <1>8 DEF ExactInv, QuoteType, LinesAreExact, QuoteIsExact
<1>9. CASE RefuseUnknown \/ RefuseInvalid \/ RefuseLine \/ RefuseSum
  BY <1>1, <1>9 DEF RefuseUnknown, RefuseInvalid, RefuseLine, RefuseSum, Phases
<1>10. QED
  BY <1>2, <1>3, <1>4, <1>5, <1>6, <1>7, <1>8, <1>9
  DEF PriceNext, priceVars, Refuse, Create, BeginRenaming, BeginRepricing, EndEdit,
      AbandonEdit, RepriceService

\* Prices fit their column, and sums are exact, in every state.
THEOREM ExactInvariant == PriceSpec => []ExactInv
<1>1. PriceInit => ExactInv
  BY ExactInvAtStart
<1>2. ExactInv /\ [PriceNext]_priceVars => ExactInv'
  BY ExactInvKept
<1>3. QED
  BY <1>1, <1>2, PTL DEF PriceSpec

\* The running total of a quote is always the exact sum of unit price times
\* quantity over the lines added, for every request, catalogue and column.
THEOREM QuotesAreExact == PriceSpec => []QuoteIsExact
<1>1. ExactInv => QuoteIsExact
  BY DEF ExactInv
<1>2. QED
  BY <1>1, ExactInvariant, PTL
-----------------------------------------------------------------------------
(* Totals: a refused quote is worth more than the column holds, because    *)
(* what was added when it was refused is part of what it is worth.         *)

\* What each line is worth, over the integers.
Worth(lines) == [i \in DOMAIN lines |-> lines[i].unit * lines[i].quantity]

FittingLines == [unit : 0..MaxAmount, quantity : Int, total : 0..MaxAmount]

\* The total holds the worth of the lines added, and no more than the column
\* holds, so that what is refused is too much of it.
TotalInv ==
    /\ quote.request \in Requests \cup {<<>>}
    /\ quote.lines \in Seq(FittingLines)
    /\ Len(quote.lines) <= Len(quote.request)
    /\ quote.added \in 0..Len(quote.lines)
    /\ quote.total \in 0..MaxAmount
    /\ quote.phase = "resolve" => quote.added = 0 /\ quote.total = 0
    /\ quote.phase = "add" =>
          /\ Valid(quote.lines)
          /\ quote.total = SumFunctionOnSet(Worth(quote.lines), 1..quote.added)
    /\ OnlyTooLargeIsRefused

\* A product that is refused, of amounts and quantities that are valid, does
\* not fit the column.
LEMMA RefusedProductIsTooLarge ==
  ASSUME NEW c \in 0..MaxAmount, NEW quantity \in Int, quantity > 0,
         ~ MulQuantity(c, quantity).ok
  PROVE  c * quantity > MaxAmount
<1>1. /\ c \in Nat /\ quantity \in Nat /\ MaxAmount \in Nat
      /\ Magnitude(c) = c /\ Validate(c) /\ ~ quantity <= 0
  BY MaxAmountAssumption DEF Magnitude, Validate
<1>2. c # 0 /\ quantity > MaxAmount \div Magnitude(c)
  BY <1>1 DEF MulQuantity, Accepted
<1>3. c \in Nat \ {0} /\ quantity > MaxAmount \div c
  BY <1>1, <1>2
<1>4. MaxAmount \div c \in Int
  BY <1>1, <1>3
<1> DEFINE k == MaxAmount \div c
<1>5. ~ quantity <= k
  <2> HIDE DEF k
  <2>1. k \in Int /\ quantity > k
    BY <1>3, <1>4 DEF k
  <2>2. QED
    BY <1>1, <2>1
<1>6. ~ quantity * c <= MaxAmount
  BY <1>1, <1>3, <1>5, QuotientBound
<1> DEFINE x == c * quantity
<1>7. x \in Int /\ x = quantity * c
  BY <1>1
<1> HIDE DEF x
<1>8. x > MaxAmount
  BY <1>1, <1>6, <1>7
<1>9. QED
  BY <1>8 DEF x

\* And a sum that is refused does not fit either.
LEMMA RefusedSumIsTooLarge ==
  ASSUME NEW a \in 0..MaxAmount, NEW b \in 0..MaxAmount, ~ Add(a, b).ok
  PROVE  a + b > MaxAmount
<1>1. MaxAmount \in Nat /\ a \in Nat /\ b \in Nat /\ Validate(a) /\ Validate(b)
  BY MaxAmountAssumption DEF Magnitude, Validate
<1>2. Wrap(a + b) = a + b
  BY <1>1, WrapKeeps, WordAssumption
<1>3. ~ Validate(a + b)
  BY <1>1, <1>2 DEF Add, Accepted
<1>4. QED
  BY <1>1, <1>3 DEF Validate, Magnitude

\* The lines of a valid quote are worth something, and part of them is worth no
\* more than all.
LEMMA WorthOfLines ==
  ASSUME NEW lines \in Seq(FittingLines), Valid(lines)
  PROVE  /\ DOMAIN lines = 1..Len(lines) /\ IsFiniteSet(1..Len(lines)) /\ Len(lines) \in Nat
         /\ \A i \in DOMAIN lines :
              /\ Worth(lines)[i] = lines[i].unit * lines[i].quantity
              /\ Worth(lines)[i] \in Nat /\ lines[i] \in FittingLines
              /\ lines[i].quantity \in Nat /\ lines[i].quantity > 0
         /\ \A S \in SUBSET (DOMAIN lines) :
              SumFunctionOnSet(Worth(lines), S) <= ExactTotal(lines)
<1> DEFINE w == Worth(lines)
           n == Len(lines)
<1>1. DOMAIN lines = 1..n /\ n \in Nat
  OBVIOUS
<1>2. ASSUME NEW i \in DOMAIN lines
      PROVE  /\ lines[i] \in FittingLines
             /\ lines[i].quantity \in Nat /\ lines[i].quantity > 0
             /\ w[i] = lines[i].unit * lines[i].quantity
             /\ w[i] \in Nat
  <2>1. lines[i] \in FittingLines
    BY <1>1, ElementType
  <2>2. lines[i].quantity > 0 /\ lines[i].quantity \in Int
    BY <2>1 DEF Valid, FittingLines
  <2>3. lines[i].unit \in Nat
    BY <2>1, MaxAmountAssumption DEF FittingLines
  <2>4. w[i] = lines[i].unit * lines[i].quantity
    BY DEF Worth
  <2>5. lines[i].unit * lines[i].quantity \in Nat
    BY <2>2, <2>3
  <2>6. QED
    BY <2>1, <2>2, <2>4, <2>5
<1> HIDE DEF n
<1>3. IsFiniteSet(1..n)
  <2>1. 1 \in Int /\ n \in Int
    BY <1>1
  <2>2. QED
    BY <2>1, FS_Interval, Zenon
<1>4. ExactTotal(lines) = SumFunctionOnSet(w, DOMAIN lines)
  BY Zenon DEF ExactTotal, Worth
<1> HIDE DEF w
<1> DEFINE D == DOMAIN lines
<1>5. IsFiniteSet(D) /\ \A i \in D : w[i] \in Nat
  BY <1>1, <1>2, <1>3
<1> HIDE DEF D
<1>6. \A S \in SUBSET D : SumFunctionOnSet(w, S) <= SumFunctionOnSet(w, D)
  BY <1>5, SumMonotone
<1>7. QED
  BY <1>1, <1>2, <1>3, <1>4, <1>6 DEF D, w, n

\* The sum over one more position.
LEMMA OneLineMore ==
  ASSUME NEW w, NEW a \in Nat, \A i \in 1..(a + 1) : w[i] \in Int
  PROVE  SumFunctionOnSet(w, 1..(a + 1)) = SumFunctionOnSet(w, 1..a) + w[a + 1]
<1> DEFINE S == 1..a
           y == a + 1
<1>1. y \notin S /\ S \cup {y} = 1..(a + 1) /\ \A x \in S \cup {y} : w[x] \in Int
  OBVIOUS
<1>2. IsFiniteSet(S)
  <2>1. 1 \in Int /\ a \in Int
    OBVIOUS
  <2>2. QED
    BY <2>1, FS_Interval, Zenon
<1> HIDE DEF S, y
<1>3. SumFunctionOnSet(w, S \cup {y}) = SumFunctionOnSet(w, S) + w[y]
  BY <1>1, <1>2, SumAdd
<1>4. SumFunctionOnSet(w, 1..(a + 1)) = SumFunctionOnSet(w, S) + w[y]
  BY <1>1, <1>3, Zenon
<1>5. QED
  BY <1>4 DEF S, y

\* A single line is worth no more than all.
LEMMA OneLineOfAll ==
  ASSUME NEW lines \in Seq(FittingLines), Valid(lines), NEW i \in DOMAIN lines
  PROVE  /\ ExactTotal(lines) \in Int
         /\ lines[i].unit * lines[i].quantity <= ExactTotal(lines)
<1> DEFINE w == Worth(lines)
           D == DOMAIN lines
           T == ExactTotal(lines)
<1>1. /\ IsFiniteSet(D) /\ \A j \in D : w[j] \in Nat
      /\ \A S \in SUBSET D : SumFunctionOnSet(w, S) <= T
      /\ w[i] = lines[i].unit * lines[i].quantity
  BY WorthOfLines
<1>2. T = SumFunctionOnSet(w, D)
  BY Zenon DEF ExactTotal, Worth
<1> HIDE DEF w, D, T
<1>3. T \in Int
  <2>1. \A j \in D : w[j] \in Int
    BY <1>1
  <2>2. QED
    BY <1>1, <1>2, <2>1, SumType
<1>4. i \in D
  BY DEF D
<1>5. {} \cup {i} = {i} /\ i \notin {} /\ (\A x \in {} \cup {i} : w[x] \in Int)
  BY <1>1, <1>4
<1>6. SumFunctionOnSet(w, {} \cup {i}) = SumFunctionOnSet(w, {}) + w[i]
  BY <1>5, FS_EmptySet, SumAdd
<1>7. SumFunctionOnSet(w, {i}) = 0 + w[i]
  BY <1>5, <1>6, SumEmpty, Zenon
<1>8. {i} \in SUBSET D
  BY <1>4
<1>9. 0 + w[i] <= T
  BY <1>1, <1>7, <1>8
<1>10. w[i] \in Int
  BY <1>1, <1>4
<1>11. w[i] <= T
  BY <1>3, <1>9, <1>10
<1>12. QED
  BY <1>1, <1>3, <1>11 DEF T

\* No quote has a total of its own at the start.
LEMMA TotalInvAtStart == PriceInit => TotalInv
<1> SUFFICES ASSUME PriceInit PROVE TotalInv
  OBVIOUS
<1>1. quote = [phase |-> "none", request |-> <<>>, lines |-> <<>>, added |-> 0,
               total |-> 0, exact |-> 0]
  BY DEF PriceInit, NoQuote
<1>2. <<>> \in Seq(FittingLines) /\ Len(<<>>) = 0
  OBVIOUS
<1>3. OnlyTooLargeIsRefused
  BY <1>1 DEF OnlyTooLargeIsRefused
<1>4. QED
  BY <1>1, <1>2, <1>3, MaxAmountAssumption DEF TotalInv

\* A quote that is refused, or saved, keeps its lines and its total.
LEMMA PhaseKeepsTotalInv ==
  ASSUME ExactInv, TotalInv, NEW why \in Phases, why \notin {"resolve", "add"},
         quote' = [quote EXCEPT !.phase = why],
         why = "too large" => ExactTotal(quote.lines) > MaxAmount,
         why = "saved" => ExactTotal(quote.lines) = quote.total
  PROVE  TotalInv'
<1>1. /\ quote'.phase = why /\ quote'.request = quote.request /\ quote'.lines = quote.lines
      /\ quote'.added = quote.added /\ quote'.total = quote.total
  BY DEF ExactInv, QuoteType, QuoteRecords
<1>2. OnlyTooLargeIsRefused'
  BY <1>1, Zenon DEF OnlyTooLargeIsRefused
<1>3. QED
  BY <1>1, <1>2, Zenon DEF TotalInv

\* A composition begins with the request alone.
LEMMA ComposeKeepsTotalInv ==
  ASSUME TotalInv, NEW request \in Requests, Compose(request)
  PROVE  TotalInv'
<1>1. quote' = [phase |-> "resolve", request |-> request, lines |-> <<>>, added |-> 0,
                total |-> 0, exact |-> 0]
  BY DEF Compose, Quote, NoQuote
<1>2. request \in Seq([id : Products \cup Services, quantity : Int]) /\ Len(request) \in Nat
  <2>1. request \in Seq([id : Products \cup Services, quantity : Int])
    BY RequestsAssumption
  <2> DEFINE X == [id : Products \cup Services, quantity : Int]
  <2> HIDE DEF X
  <2>2. request \in Seq(X)
    BY <2>1 DEF X
  <2>3. Len(request) \in Nat
    BY <2>2
  <2>4. QED
    BY <2>1, <2>3
<1>3. <<>> \in Seq(FittingLines) /\ Len(<<>>) = 0
  OBVIOUS
<1>4. OnlyTooLargeIsRefused'
  BY <1>1 DEF OnlyTooLargeIsRefused
<1>5. QED
  BY <1>1, <1>2, <1>3, <1>4, MaxAmountAssumption DEF TotalInv

\* Sent answers leave nothing behind.
LEMMA AnswerKeepsTotalInv ==
  ASSUME quote' = NoQuote
  PROVE  TotalInv'
<1>1. quote' = [phase |-> "none", request |-> <<>>, lines |-> <<>>, added |-> 0,
                total |-> 0, exact |-> 0]
  BY DEF NoQuote
<1>2. <<>> \in Seq(FittingLines) /\ Len(<<>>) = 0
  OBVIOUS
<1>3. OnlyTooLargeIsRefused'
  BY <1>1 DEF OnlyTooLargeIsRefused
<1>4. QED
  BY <1>1, <1>2, <1>3, MaxAmountAssumption DEF TotalInv

\* A line takes the price of its entry, which fits.
LEMMA ResolveKeepsTotalInv ==
  ASSUME ExactInv, TotalInv, ResolveLine
  PROVE  TotalInv'
<1>1. PICK row \in Read(Wanted.id) :
         /\ row.ok
         /\ Quote([quote EXCEPT !.lines = Append(@, [unit     |-> row.cents,
                                                     quantity |-> Wanted.quantity,
                                                     total    |-> 0])])
  BY DEF ResolveLine
<1>2. Wanted.id \in Entries /\ Wanted.quantity \in Int /\ price[Wanted.id] # NoPrice
  BY WantedType DEF ResolveLine, ExactInv
<1>3. row.cents \in 0..MaxAmount
  BY <1>2, ReadIsExact DEF ExactInv, Accepted, PricesFit
<1> DEFINE line == [unit |-> row.cents, quantity |-> Wanted.quantity, total |-> 0]
<1>4. line \in FittingLines
  BY <1>2, <1>3, MaxAmountAssumption DEF FittingLines
<1>5. quote' = [quote EXCEPT !.lines = Append(@, line)] /\ quote.phase = "resolve"
  BY <1>1 DEF Quote, ResolveLine
<1>6. Len(quote.lines) < Len(quote.request)
  BY DEF ResolveLine
<1> HIDE DEF line
<1>7. /\ quote'.phase = "resolve" /\ quote'.request = quote.request
      /\ quote'.lines = Append(quote.lines, line)
      /\ quote'.added = quote.added /\ quote'.total = quote.total
  BY <1>5 DEF ExactInv, QuoteType, QuoteRecords
<1>8. /\ Append(quote.lines, line) \in Seq(FittingLines)
      /\ Len(Append(quote.lines, line)) = Len(quote.lines) + 1
      /\ Len(quote.lines) \in Nat
  BY <1>4 DEF TotalInv
<1>9. Len(quote.request) \in Nat
  BY DEF ExactInv, QuoteType, QuoteRecords
<1>10. Len(quote'.lines) <= Len(quote'.request)
  BY <1>6, <1>7, <1>8, <1>9
<1>11. quote'.added \in 0..Len(quote'.lines)
  BY <1>7, <1>8 DEF TotalInv
<1>12. OnlyTooLargeIsRefused'
  BY <1>7 DEF OnlyTooLargeIsRefused
<1>13. quote.added = 0 /\ quote.total = 0
  BY <1>5 DEF TotalInv
<1>14. quote'.lines \in Seq(FittingLines)
  BY <1>7, <1>8
<1>15. /\ quote'.request \in Requests \cup {<<>>} /\ quote'.total \in 0..MaxAmount
       /\ quote'.phase # "add" /\ quote'.added = 0 /\ quote'.total = 0
  BY <1>7, <1>13 DEF TotalInv
<1>16. QED
  BY <1>10, <1>11, <1>12, <1>14, <1>15 DEF TotalInv

\* Lines that are priced all fit.
LEMMA PriceLinesKeepsTotalInv ==
  ASSUME ExactInv, TotalInv, PriceLines
  PROVE  TotalInv'
<1> DEFINE priced == [i \in DOMAIN quote.lines |->
                        [quote.lines[i] EXCEPT !.total = LineTotal(quote.lines[i]).cents]]
<1>1. quote' = [quote EXCEPT !.phase = "add", !.lines = priced]
  BY DEF PriceLines, Quote
<1>2. /\ quote.lines \in Seq(FittingLines) /\ quote \in QuoteRecords
      /\ DOMAIN quote.lines = 1..Len(quote.lines) /\ Len(quote.lines) \in Nat
      /\ Valid(quote.lines) /\ quote.phase = "resolve"
  BY DEF ExactInv, TotalInv, QuoteType, PriceLines, Resolved
<1>3. ASSUME NEW i \in DOMAIN quote.lines
      PROVE  priced[i] \in FittingLines /\ priced[i].quantity = quote.lines[i].quantity
  <2>1. /\ quote.lines[i] \in FittingLines
        /\ quote.lines[i].quantity \in Nat
    BY <1>2, WorthOfLines
  <2>2. LineTotal(quote.lines[i]).ok
    BY DEF PriceLines
  <2> DEFINE u == quote.lines[i].unit
             q == quote.lines[i].quantity
             c == LineTotal(quote.lines[i]).cents
  <2>3. u \in 0..MaxAmount /\ u \in Nat /\ q \in Nat
    BY <2>1, MaxAmountAssumption DEF FittingLines
  <2>4. c = u * q /\ Validate(u * q)
    BY <2>2, <2>3, MulQuantityIsExact DEF LineTotal
  <2> HIDE DEF u, q, c
  <2>5. u * q \in Nat
    BY <2>3
  <2>6. c \in 0..MaxAmount
    BY <2>4, <2>5, MaxAmountAssumption DEF Validate, Magnitude
  <2>7. priced[i] = [quote.lines[i] EXCEPT !.total = c]
    BY DEF c
  <2> HIDE DEF priced
  <2>8. QED
    BY <2>1, <2>6, <2>7 DEF FittingLines
<1>4. priced \in Seq(FittingLines) /\ Len(priced) = Len(quote.lines)
  <2>1. priced \in [1..Len(quote.lines) -> FittingLines]
    BY <1>2, <1>3, Zenon
  <2>2. priced \in Seq(FittingLines)
    BY <1>2, <2>1, MappedType
  <2>3. DOMAIN priced = 1..Len(quote.lines)
    BY <1>2
  <2> HIDE DEF priced
  <2>4. Len(priced) = Len(quote.lines)
    BY <1>2, <2>2, <2>3
  <2>5. QED
    BY <2>2, <2>4
<1>5. DOMAIN priced = DOMAIN quote.lines
  OBVIOUS
<1> HIDE DEF priced
<1>6. Valid(priced)
  <2>1. priced # <<>>
    <3>1. quote.lines # <<>>
      BY <1>2 DEF Valid
    <3>2. Len(quote.lines) # 0
      BY <1>2, <3>1
    <3>3. QED
      BY <1>4, <3>2
  <2>2. \A i \in DOMAIN priced : priced[i].quantity > 0
    BY <1>2, <1>3, <1>5 DEF Valid
  <2>3. QED
    BY <2>1, <2>2 DEF Valid
<1>7. /\ quote'.phase = "add" /\ quote'.request = quote.request /\ quote'.lines = priced
      /\ quote'.added = quote.added /\ quote'.total = quote.total
  BY <1>1, <1>2 DEF QuoteRecords
<1>8. quote.added = 0 /\ quote.total = 0
  BY <1>2 DEF TotalInv
<1>9. SumFunctionOnSet(Worth(priced), 1..0) = 0
  <2>1. 1..0 = {}
    OBVIOUS
  <2>2. QED
    BY <2>1, SumEmpty, Zenon
<1>10. quote'.total = SumFunctionOnSet(Worth(quote'.lines), 1..quote'.added)
  BY <1>7, <1>8, <1>9
<1>11. OnlyTooLargeIsRefused'
  BY <1>7 DEF OnlyTooLargeIsRefused
<1>12. /\ quote'.request \in Requests \cup {<<>>} /\ quote'.lines \in Seq(FittingLines)
       /\ Len(quote'.lines) <= Len(quote'.request)
       /\ quote'.added \in 0..Len(quote'.lines) /\ quote'.total \in 0..MaxAmount
       /\ Valid(quote'.lines) /\ quote'.phase # "resolve"
  BY <1>4, <1>6, <1>7 DEF TotalInv
<1>13. QED
  BY <1>10, <1>11, <1>12, Zenon DEF TotalInv

\* What is left to add fits, and so does what is added.
LEMMA NextLineFits ==
  ASSUME ExactInv, TotalInv, quote.phase = "add", quote.added < Len(quote.lines)
  PROVE  /\ quote.added \in Nat /\ quote.added + 1 \in DOMAIN quote.lines
         /\ NextLine.total \in 0..MaxAmount
         /\ NextLine.total = Worth(quote.lines)[quote.added + 1]
         /\ SumFunctionOnSet(Worth(quote.lines), 1..(quote.added + 1))
              = quote.total + NextLine.total
         /\ quote.total + NextLine.total <= ExactTotal(quote.lines)
<1> DEFINE w == Worth(quote.lines)
           a == quote.added
           n == Len(quote.lines)
<1>1. /\ quote.lines \in Seq(FittingLines) /\ Valid(quote.lines)
      /\ quote.total = SumFunctionOnSet(w, 1..a) /\ a \in 0..n /\ a < n
  BY DEF TotalInv
<1>2. /\ DOMAIN quote.lines = 1..n /\ n \in Nat
      /\ \A i \in 1..n : /\ w[i] = quote.lines[i].unit * quote.lines[i].quantity
                         /\ w[i] \in Nat /\ quote.lines[i] \in FittingLines
      /\ \A S \in SUBSET (1..n) : SumFunctionOnSet(w, S) <= ExactTotal(quote.lines)
  BY <1>1, WorthOfLines
<1>3. a \in Nat /\ a + 1 \in 1..n
  BY <1>1, <1>2
<1>4. quote.lines[a + 1].total = w[a + 1]
  BY <1>2, <1>3 DEF ExactInv, LinesAreExact
<1>5. quote.lines[a + 1].total \in 0..MaxAmount
  BY <1>2, <1>3 DEF FittingLines
<1> HIDE DEF w, n
<1>6. SumFunctionOnSet(w, 1..(a + 1)) = SumFunctionOnSet(w, 1..a) + w[a + 1]
  <2>1. \A i \in 1..(a + 1) : w[i] \in Int
    BY <1>2, <1>3
  <2>2. QED
    BY <1>3, <2>1, OneLineMore
<1>7. 1..(a + 1) \in SUBSET (1..n)
  BY <1>2, <1>3
<1>8. SumFunctionOnSet(w, 1..(a + 1)) <= ExactTotal(quote.lines)
  BY <1>2, <1>7
<1>9. QED
  BY <1>1, <1>2, <1>3, <1>4, <1>5, <1>6, <1>8 DEF NextLine, w, n

\* A line that is added leaves a total that fits.
LEMMA AddLineKeepsTotalInv ==
  ASSUME ExactInv, TotalInv, AddLine
  PROVE  TotalInv'
<1>1. quote.phase = "add" /\ quote.added < Len(quote.lines) /\ Add(quote.total, NextLine.total).ok
  BY DEF AddLine
<1>2. /\ quote.added \in Nat /\ NextLine.total \in 0..MaxAmount
      /\ SumFunctionOnSet(Worth(quote.lines), 1..(quote.added + 1))
           = quote.total + NextLine.total
  BY <1>1, NextLineFits
<1>3. MaxAmount \in Nat /\ quote.total \in 0..MaxAmount
  BY MaxAmountAssumption DEF TotalInv
<1>4. /\ Add(quote.total, NextLine.total).cents = quote.total + NextLine.total
      /\ Validate(quote.total + NextLine.total)
  <2>1. quote.total \in Int /\ NextLine.total \in Int
    BY <1>2, <1>3
  <2>2. QED
    BY <1>1, <2>1, AddIsExact
<1>5. quote.total + NextLine.total \in 0..MaxAmount
  BY <1>2, <1>3, <1>4 DEF Validate, Magnitude
<1>6. /\ quote'.phase = "add" /\ quote'.request = quote.request /\ quote'.lines = quote.lines
      /\ quote'.added = quote.added + 1 /\ quote'.total = quote.total + NextLine.total
  BY <1>1, <1>4 DEF AddLine, Quote, ExactInv, QuoteType, QuoteRecords
<1>7. OnlyTooLargeIsRefused'
  BY <1>6 DEF OnlyTooLargeIsRefused
<1>8. quote'.added \in 0..Len(quote'.lines)
  <2>1. Len(quote.lines) \in Nat
    BY DEF TotalInv
  <2>2. QED
    BY <1>1, <1>2, <1>6, <2>1
<1>9. /\ quote'.total = SumFunctionOnSet(Worth(quote'.lines), 1..quote'.added)
      /\ quote'.total \in 0..MaxAmount
  BY <1>2, <1>5, <1>6
<1>10. /\ quote'.request \in Requests \cup {<<>>} /\ quote'.lines \in Seq(FittingLines)
       /\ Len(quote'.lines) <= Len(quote'.request) /\ Valid(quote'.lines)
       /\ quote'.phase # "resolve"
  BY <1>1, <1>6 DEF TotalInv
<1>11. QED
  BY <1>7, <1>8, <1>9, <1>10, Zenon DEF TotalInv

\* Every step keeps the total, and refuses only what is too large.
LEMMA TotalInvKept ==
  ASSUME ExactInv, TotalInv, [PriceNext]_priceVars
  PROVE  TotalInv'
<1>1. ASSUME NEW why \in Phases, why \notin {"resolve", "add"}, RefuseQuote(why),
             why = "too large" => ExactTotal(quote.lines) > MaxAmount,
             why = "saved" => ExactTotal(quote.lines) = quote.total
      PROVE  TotalInv'
  <2>1. quote' = [quote EXCEPT !.phase = why]
    BY <1>1 DEF RefuseQuote, Quote
  <2>2. QED
    BY <1>1, <2>1, PhaseKeepsTotalInv
<1>2. CASE RefuseUnknown \/ RefuseInvalid
  BY <1>1, <1>2 DEF RefuseUnknown, RefuseInvalid, Phases
<1>3. CASE RefuseLine
  <2>1. PICK i \in DOMAIN quote.lines : ~ LineTotal(quote.lines[i]).ok
    BY <1>3 DEF RefuseLine
  <2>2. quote.lines \in Seq(FittingLines) /\ Valid(quote.lines)
    BY <1>3 DEF RefuseLine, TotalInv
  <2> DEFINE u == quote.lines[i].unit
             q == quote.lines[i].quantity
  <2>3. u \in 0..MaxAmount /\ q \in Nat /\ q > 0
    BY <2>2, WorthOfLines DEF FittingLines
  <2>4. u * q > MaxAmount
    <3>1. ~ MulQuantity(u, q).ok
      BY <2>1 DEF LineTotal
    <3> HIDE DEF u, q
    <3>2. QED
      BY <2>3, <3>1, RefusedProductIsTooLarge
  <2>5. u * q <= ExactTotal(quote.lines) /\ ExactTotal(quote.lines) \in Int
    BY <2>2, OneLineOfAll
  <2> HIDE DEF u, q
  <2>6. u * q \in Int /\ MaxAmount \in Int
    BY <2>3, MaxAmountAssumption
  <2>7. ExactTotal(quote.lines) > MaxAmount
    BY <2>4, <2>5, <2>6
  <2>8. QED
    BY <1>1, <1>3, <2>7 DEF RefuseLine, Phases
<1>4. CASE RefuseSum
  <2>1. quote.phase = "add" /\ quote.added < Len(quote.lines)
        /\ ~ Add(quote.total, NextLine.total).ok
    BY <1>4 DEF RefuseSum
  <2>2. /\ NextLine.total \in 0..MaxAmount /\ quote.total \in 0..MaxAmount
        /\ quote.total + NextLine.total <= ExactTotal(quote.lines)
    BY <2>1, NextLineFits DEF TotalInv
  <2>3. quote.total + NextLine.total > MaxAmount
    BY <2>1, <2>2, RefusedSumIsTooLarge
  <2>4. ExactTotal(quote.lines) \in Int
    <3>1. quote.lines \in Seq(FittingLines) /\ Valid(quote.lines)
      BY <2>1 DEF TotalInv
    <3>2. quote.added + 1 \in DOMAIN quote.lines
      BY <2>1, NextLineFits
    <3>3. QED
      BY <3>1, <3>2, OneLineOfAll
  <2> DEFINE s == quote.total + NextLine.total
             T == ExactTotal(quote.lines)
  <2>5. s \in Int /\ MaxAmount \in Int /\ T \in Int /\ s <= T /\ s > MaxAmount
    BY <2>2, <2>3, <2>4, MaxAmountAssumption
  <2> HIDE DEF s, T
  <2>6. T > MaxAmount
    BY <2>5
  <2>7. QED
    BY <1>1, <1>4, <2>6 DEF RefuseSum, Phases, T
<1>5. CASE Save
  <2>1. quote.phase = "add" /\ quote.added = Len(quote.lines)
    BY <1>5 DEF Save
  <2>2. /\ quote.lines \in Seq(FittingLines) /\ DOMAIN quote.lines = 1..Len(quote.lines)
        /\ quote.total = SumFunctionOnSet(Worth(quote.lines), 1..quote.added)
    BY <2>1 DEF TotalInv
  <2>3. ExactTotal(quote.lines) = quote.total
    BY <2>1, <2>2, Zenon DEF ExactTotal, Worth
  <2>4. RefuseQuote("saved")
    BY <1>5 DEF Save, RefuseQuote
  <2>5. QED
    BY <1>1, <2>3, <2>4 DEF Phases
<1>6. CASE Answer
  BY <1>6, AnswerKeepsTotalInv DEF Answer, Quote
<1>7. CASE UNCHANGED quote
  <2>1. OnlyTooLargeIsRefused'
    BY <1>7, Zenon DEF TotalInv, OnlyTooLargeIsRefused
  <2>2. QED
    BY <1>7, <2>1, Zenon DEF TotalInv
<1>8. QED
  BY <1>2, <1>3, <1>4, <1>5, <1>6, <1>7, ComposeKeepsTotalInv, ResolveKeepsTotalInv,
     PriceLinesKeepsTotalInv, AddLineKeepsTotalInv
  DEF PriceNext, priceVars, Refuse, Create, BeginRenaming, BeginRepricing, EndEdit,
      AbandonEdit, RepriceService

\* The total of a quote is the worth of the lines added, in every state.
THEOREM TotalInvariant == PriceSpec => []TotalInv
<1>1. PriceInit => TotalInv
  BY TotalInvAtStart
<1>2. ExactInv /\ TotalInv /\ [PriceNext]_priceVars => TotalInv'
  BY TotalInvKept
<1>3. QED
  BY <1>1, <1>2, ExactInvariant, PTL DEF PriceSpec

\* OnlyTooLargeIsRefused: whatever the requests, the prices, the column and the
\* word, a quote is refused as too large only if its exact total does not fit
\* the column, and a saved one has all of its lines in the total.
THEOREM OnlyTooLargeIsEverRefused == PriceSpec => []OnlyTooLargeIsRefused
<1>1. TotalInv => OnlyTooLargeIsRefused
  BY DEF TotalInv
<1>2. QED
  BY <1>1, TotalInvariant, PTL
-----------------------------------------------------------------------------
(* Edits.                                                                  *)

PriceSets == {Decode(n).cents : n \in NewNumbers} \cup 0..MaxAmount

Edits == [id : Products \cup {"none"}, cents : PriceSets, sets : BOOLEAN, fresh : BOOLEAN]

\* An edit that names no price, and whose row nobody wrote since, carries the
\* price of the row.
EditCarriesPrice(r) ==
    edit[r] # NoEdit /\ edit[r].fresh /\ ~ edit[r].sets => edit[r].cents = price[edit[r].id]

EditInv ==
    /\ PricesFit
    /\ lastSet \in [Entries -> (0..MaxAmount) \cup {NoPrice}]
    /\ edit \in [Editors -> Edits]
    /\ \A r \in Editors : EditCarriesPrice(r)
    /\ LastPriceHolds

\* An idle slot is an edit like any other.
LEMMA NoEditType == NoEdit \in Edits
  BY MaxAmountAssumption DEF NoEdit, Edits, PriceSets

\* Both columns are written alike.
LEMMA KeptAlike ==
  ASSUME PricesFit, lastSet \in [Entries -> (0..MaxAmount) \cup {NoPrice}],
         NEW e, NEW cents, NEW x \in Entries, price[x] = lastSet[x]
  PROVE  Kept(price, e, cents)[x] = Kept(lastSet, e, cents)[x]
  BY DEF Kept, PricesFit

\* Another row, and a row that is written what it holds, stays as it is.
LEMMA KeptElsewhere ==
  ASSUME PricesFit, NEW e, NEW cents, NEW x, x # e \/ cents = price[e]
  PROVE  Kept(price, e, cents)[x] = price[x]
  <1>1. CASE ~ Fits(cents)
    BY <1>1 DEF Kept
  <1>2. CASE Fits(cents)
    BY <1>2 DEF Kept, Fits, NumericFromCents, PricesFit
  <1>3. QED
    BY <1>1, <1>2

\* An entry has the price last set by a committed request, unless an edit wrote
\* over a row that had changed since it read it: for any number of editors.
THEOREM LastPriceAlwaysHolds == PriceSpec => []LastPriceHolds
<1>1. PriceInit => EditInv
  BY NoEditType DEF PriceInit, EditInv, PricesFit, EditCarriesPrice, LastPriceHolds
<1>2. EditInv /\ [PriceNext]_priceVars => EditInv'
  <2> SUFFICES ASSUME EditInv, [PriceNext]_priceVars PROVE EditInv'
    OBVIOUS
  <2>0. PricesFit'
    BY PricesFitStep DEF EditInv
  <2>1. ASSUME NEW e \in Entries, NEW cents,
               Write(e, cents), lastSet' = Kept(lastSet, e, cents), UNCHANGED overran
        PROVE  EditInv'
    <3>1. lastSet' \in [Entries -> (0..MaxAmount) \cup {NoPrice}]
      BY <2>1, KeptFits DEF EditInv
    <3>2. edit' \in [Editors -> Edits]
      BY <2>1 DEF Write, EditInv, Edits
    <3>3. ASSUME NEW r \in Editors PROVE EditCarriesPrice(r)'
      <4>1. CASE edit[r].id = e
        BY <2>1, <4>1 DEF Write, EditInv, EditCarriesPrice, Edits
      <4>2. CASE edit[r].id # e
        <5>1. edit'[r] = edit[r] /\ price'[edit[r].id] = price[edit[r].id]
          BY <2>1, <4>2, KeptElsewhere DEF Write, EditInv
        <5>2. QED
          BY <5>1 DEF EditInv, EditCarriesPrice
      <4>3. QED
        BY <4>1, <4>2
    <3>4. LastPriceHolds'
      <4> SUFFICES ASSUME NEW x \in Entries, x \notin overran PROVE price'[x] = lastSet'[x]
        BY <2>1 DEF LastPriceHolds
      <4>1. price[x] = lastSet[x]
        BY DEF EditInv, LastPriceHolds
      <4>2. QED
        <5>1. Kept(price, e, cents)[x] = Kept(lastSet, e, cents)[x]
          BY <4>1, KeptAlike DEF EditInv
        <5>2. QED
          BY <2>1, <5>1 DEF Write
    <3>5. QED
      BY <2>0, <3>1, <3>2, <3>3, <3>4 DEF EditInv
  <2>2. ASSUME NEW e \in Entries, NEW n, Create(e, n) \/ RepriceService(e, n) PROVE EditInv'
    BY <2>1, <2>2 DEF Create, RepriceService
  <2>3. ASSUME NEW r \in Editors, NEW e \in Products, BeginRenaming(r, e) PROVE EditInv'
    <3>1. e \in Entries /\ price[e] # NoPrice
      BY <2>3 DEF BeginRenaming, Entries
    <3>2. PICK row \in Read(e) :
             edit' = [edit EXCEPT ![r] = [id |-> e, cents |-> row.cents,
                                          sets |-> FALSE, fresh |-> TRUE]]
      BY <2>3 DEF BeginRenaming
    <3>3. row.cents = price[e] /\ price[e] \in 0..MaxAmount
      BY <3>1, ReadIsExact DEF EditInv, Accepted, PricesFit
    <3>4. UNCHANGED <<price, lastSet, overran>>
      BY <2>3 DEF BeginRenaming
    <3>5. QED
      BY <2>0, <3>2, <3>3, <3>4 DEF EditInv, Edits, PriceSets, EditCarriesPrice, LastPriceHolds
  <2>4. ASSUME NEW r \in Editors, NEW e \in Products, NEW n \in NewNumbers,
               BeginRepricing(r, e, n)
        PROVE  EditInv'
    <3>1. edit' = [edit EXCEPT ![r] = [id |-> e, cents |-> Decode(n).cents,
                                       sets |-> TRUE, fresh |-> TRUE]]
      BY <2>4 DEF BeginRepricing
    <3>2. UNCHANGED <<price, lastSet, overran>>
      BY <2>4 DEF BeginRepricing
    <3>3. QED
      BY <2>0, <3>1, <3>2 DEF EditInv, Edits, PriceSets, EditCarriesPrice, LastPriceHolds
  <2>5. ASSUME NEW r \in Editors, EndEdit(r) PROVE EditInv'
    <3> DEFINE e == edit[r].id
    <3>1. /\ price' = Kept(price, e, edit[r].cents)
          /\ lastSet' = IF edit[r].sets THEN Kept(lastSet, e, edit[r].cents) ELSE lastSet
          /\ overran' = IF edit[r].fresh THEN overran ELSE overran \cup {e}
          /\ edit[r] # NoEdit
      BY <2>5 DEF EndEdit
    <3>2. edit' = [q \in Editors |->
                     IF q = r THEN NoEdit
                     ELSE IF edit[q].id = e THEN [edit[q] EXCEPT !.fresh = FALSE] ELSE edit[q]]
      BY <2>5 DEF EndEdit
    <3>3. lastSet' \in [Entries -> (0..MaxAmount) \cup {NoPrice}]
      BY <3>1, KeptFits DEF EditInv
    <3>4. edit' \in [Editors -> Edits]
      BY <3>2, NoEditType DEF EditInv, Edits
    <3>5. ASSUME NEW q \in Editors PROVE EditCarriesPrice(q)'
      <4>1. CASE q = r
        BY <3>2, <4>1 DEF EditCarriesPrice
      <4>2. CASE q # r /\ edit[q].id = e
        BY <3>2, <4>2 DEF EditInv, EditCarriesPrice, Edits
      <4>3. CASE q # r /\ edit[q].id # e
        <5>1. edit'[q] = edit[q] /\ price'[edit[q].id] = price[edit[q].id]
          BY <3>1, <3>2, <4>3, KeptElsewhere DEF EditInv
        <5>2. QED
          BY <5>1 DEF EditInv, EditCarriesPrice
      <4>4. QED
        BY <4>1, <4>2, <4>3
    <3>6. LastPriceHolds'
      <4> SUFFICES ASSUME NEW x \in Entries, x \notin overran' PROVE price'[x] = lastSet'[x]
        BY DEF LastPriceHolds
      <4>1. price[x] = lastSet[x]
        BY <3>1 DEF EditInv, LastPriceHolds
      <4>2. CASE edit[r].sets
        <5>1. Kept(price, e, edit[r].cents)[x] = Kept(lastSet, e, edit[r].cents)[x]
          BY <4>1, KeptAlike DEF EditInv
        <5>2. QED
          BY <3>1, <4>2, <5>1
      <4>3. CASE ~ edit[r].sets
        <5>1. x # e \/ edit[r].cents = price[e]
          BY <3>1, <4>3 DEF EditInv, EditCarriesPrice
        <5>2. price'[x] = price[x]
          BY <3>1, <5>1, KeptElsewhere DEF EditInv
        <5>3. QED
          BY <3>1, <4>1, <4>3, <5>2
      <4>4. QED
        BY <4>2, <4>3
    <3>7. QED
      BY <2>0, <3>3, <3>4, <3>5, <3>6 DEF EditInv
  <2>6. ASSUME NEW r \in Editors, AbandonEdit(r) PROVE EditInv'
    BY <2>0, <2>6, NoEditType DEF AbandonEdit, EditInv, EditCarriesPrice, LastPriceHolds
  <2>7. CASE UNCHANGED <<price, edit, lastSet, overran>>
    BY <2>0, <2>7 DEF EditInv, EditCarriesPrice, LastPriceHolds
  <2>8. QED
    BY <2>2, <2>3, <2>4, <2>5, <2>6, <2>7
    DEF PriceNext, priceVars, Entries, Refuse, Compose, ResolveLine, RefuseUnknown,
        RefuseInvalid, PriceLines, RefuseLine, AddLine, RefuseSum, Save, Answer, Quote, RefuseQuote
<1>3. EditInv => LastPriceHolds
  BY DEF EditInv
<1>4. QED
  BY <1>1, <1>2, <1>3, PTL DEF PriceSpec
-----------------------------------------------------------------------------
(* What is asked, and what is shown.                                       *)

FittingEdits ==
    [id : Products \cup {"none"}, cents : 0..MaxAmount, sets : BOOLEAN, fresh : BOOLEAN]

\* The last number was answered as it is decoded; edits and entries hold
\* amounts that fit.
AnswerFits ==
    \/ asked.number = NoNumber
    \/ asked.number \in Numbers \cup NewNumbers /\ asked.answer = Decode(asked.number)

EditsFit ==
    /\ edit \in [Editors -> FittingEdits]
    /\ \A r \in Editors : edit[r] # NoEdit => edit[r].id \in Products

DeskInv ==
    /\ AnswerFits
    /\ EditsFit
    /\ lastSet \in [Entries -> (0..MaxAmount) \cup {NoPrice}]
    /\ overran \subseteq Products

\* An idle slot fits.
LEMMA NoEditFits == NoEdit \in FittingEdits /\ NoEdit.id = "none"
  BY MaxAmountAssumption DEF NoEdit, FittingEdits

\* Whatever a request asks, its answer fits.
LEMMA AnswersFit ==
  ASSUME \/ NoneAsked
         \/ asked' = NothingAsked
         \/ \E n \in Numbers \cup NewNumbers : Asked(n)
  PROVE  AnswerFits'
<1>1. CASE NoneAsked \/ asked' = NothingAsked
  BY <1>1 DEF NoneAsked, NothingAsked, AnswerFits
<1>2. CASE \E n \in Numbers \cup NewNumbers : Asked(n)
  BY <1>2 DEF Asked, AnswerFits
<1>3. QED
  BY <1>1, <1>2

\* A slot that is freed, or whose row was written, fits as before.
LEMMA EditsStayFit ==
  ASSUME EditsFit,
         \A r \in Editors : \/ edit'[r] = edit[r]
                            \/ edit'[r] = NoEdit
                            \/ edit[r] # NoEdit /\ edit'[r] = [edit[r] EXCEPT !.fresh = FALSE],
         edit' = [r \in Editors |-> edit'[r]]
  PROVE  EditsFit'
<1>1. ASSUME NEW r \in Editors
      PROVE  edit'[r] \in FittingEdits /\ (edit'[r] # NoEdit => edit'[r].id \in Products)
  <2>1. CASE edit'[r] = edit[r]
    BY <2>1 DEF EditsFit
  <2>2. CASE edit'[r] = NoEdit
    BY <2>2, NoEditFits
  <2>3. CASE edit[r] # NoEdit /\ edit'[r] = [edit[r] EXCEPT !.fresh = FALSE]
    <3>1. edit[r] \in FittingEdits /\ edit[r].id \in Products
      BY <2>3 DEF EditsFit
    <3>2. \A x \in FittingEdits : /\ [x EXCEPT !.fresh = FALSE] \in FittingEdits
                                  /\ [x EXCEPT !.fresh = FALSE].id = x.id
      BY DEF FittingEdits
    <3>3. QED
      BY <2>3, <3>1, <3>2
  <2>4. QED
    BY <2>1, <2>2, <2>3
<1> DEFINE f == edit'
<1>2. f = [r \in Editors |-> f[r]] /\ \A r \in Editors : f[r] \in FittingEdits
  BY <1>1
<1>3. f \in [Editors -> FittingEdits]
  <2> HIDE DEF f
  <2> QED BY <1>2
<1>4. QED
  BY <1>1, <1>3 DEF EditsFit

\* A row that is written makes old the edits that have read it, none of them
\* idle.
LEMMA WriteKeepsEdits ==
  ASSUME EditsFit, NEW e \in Entries, NEW cents, Write(e, cents)
  PROVE  EditsFit'
<1>1. edit' = [r \in Editors |->
                 IF edit[r].id = e THEN [edit[r] EXCEPT !.fresh = FALSE] ELSE edit[r]]
  BY DEF Write
<1>2. ASSUME NEW r \in Editors
      PROVE  \/ edit'[r] = edit[r]
             \/ edit[r] # NoEdit /\ edit'[r] = [edit[r] EXCEPT !.fresh = FALSE]
  <2>1. edit[r].id = e => edit[r] # NoEdit
    BY NoEditFits, EntriesAssumption DEF Entries
  <2>2. QED
    BY <1>1, <2>1
<1>3. edit' = [r \in Editors |-> edit'[r]]
  BY <1>1
<1>4. QED
  BY <1>2, <1>3, EditsStayFit

\* An edit that begins carries an amount that fits.
LEMMA BegunEditFits ==
  ASSUME EditsFit, NEW r \in Editors, NEW e \in Products, NEW cents \in 0..MaxAmount,
         NEW sets \in BOOLEAN,
         edit' = [edit EXCEPT ![r] = [id |-> e, cents |-> cents, sets |-> sets, fresh |-> TRUE]]
  PROVE  EditsFit'
  BY DEF EditsFit, FittingEdits

\* At the start nothing has been asked and no edit begun.
LEMMA DeskInvAtStart == PriceInit => DeskInv
  BY NoEditFits DEF PriceInit, DeskInv, AnswerFits, EditsFit, NothingAsked

\* Every step keeps it.
LEMMA DeskInvKept ==
  ASSUME ExactInv, DeskInv, [PriceNext]_priceVars
  PROVE  DeskInv'
<1>1. Entries = Products \cup Services
  BY DEF Entries
<1>2. ASSUME NEW e \in Entries, NEW n \in Numbers \cup NewNumbers,
             Create(e, n) \/ RepriceService(e, n)
      PROVE  DeskInv'
  <2>1. AnswerFits'
    BY <1>2, AnswersFit DEF Create, RepriceService
  <2>2. EditsFit'
    BY <1>2, WriteKeepsEdits DEF Create, RepriceService, DeskInv
  <2>3. lastSet' \in [Entries -> (0..MaxAmount) \cup {NoPrice}] /\ overran' = overran
    BY <1>2, KeptFits DEF Create, RepriceService, DeskInv
  <2>4. QED
    BY <2>1, <2>2, <2>3 DEF DeskInv
<1>3. ASSUME NEW r \in Editors, NEW e \in Products, BeginRenaming(r, e)
      PROVE  DeskInv'
  <2>1. e \in Entries /\ price[e] # NoPrice
    BY <1>1, <1>3 DEF BeginRenaming
  <2>2. PICK row \in Read(e) :
           edit' = [edit EXCEPT ![r] = [id |-> e, cents |-> row.cents,
                                        sets |-> FALSE, fresh |-> TRUE]]
    BY <1>3 DEF BeginRenaming
  <2>3. row.cents \in 0..MaxAmount
    BY <2>1, ReadIsExact DEF ExactInv, Accepted, PricesFit
  <2>4. EditsFit'
    BY <2>2, <2>3, BegunEditFits DEF DeskInv
  <2>5. AnswerFits'
    BY <1>3, AnswersFit DEF BeginRenaming
  <2>6. QED
    BY <1>3, <2>4, <2>5 DEF DeskInv, BeginRenaming
<1>4. ASSUME NEW r \in Editors, NEW e \in Products, NEW n \in NewNumbers,
             BeginRepricing(r, e, n)
      PROVE  DeskInv'
  <2>1. Decode(n).cents \in 0..MaxAmount
    BY <1>4, NumbersAssumption, DecodeIsExact DEF BeginRepricing
  <2>2. EditsFit'
    BY <1>4, <2>1, BegunEditFits DEF DeskInv, BeginRepricing
  <2>3. AnswerFits'
    BY <1>4, AnswersFit DEF BeginRepricing
  <2>4. QED
    BY <1>4, <2>2, <2>3 DEF DeskInv, BeginRepricing
<1>5. ASSUME NEW r \in Editors, EndEdit(r)
      PROVE  DeskInv'
  <2> DEFINE e == edit[r].id
  <2>1. edit[r] # NoEdit /\ e \in Products
    BY <1>5 DEF EndEdit, DeskInv, EditsFit
  <2>2. edit' = [q \in Editors |->
                   IF q = r THEN NoEdit
                   ELSE IF edit[q].id = e THEN [edit[q] EXCEPT !.fresh = FALSE] ELSE edit[q]]
    BY <1>5 DEF EndEdit
  <2>3. ASSUME NEW q \in Editors
        PROVE  \/ edit'[q] = edit[q]
               \/ edit'[q] = NoEdit
               \/ edit[q] # NoEdit /\ edit'[q] = [edit[q] EXCEPT !.fresh = FALSE]
    <3>1. edit[q].id = e => edit[q] # NoEdit
      BY <2>1, NoEditFits, EntriesAssumption
    <3>2. QED
      BY <2>2, <3>1
  <2>4. EditsFit'
    <3>1. edit' = [q \in Editors |-> edit'[q]]
      BY <2>2
    <3>2. QED
      BY <2>3, <3>1, EditsStayFit DEF DeskInv
  <2>5. AnswerFits'
    BY <1>5, AnswersFit DEF EndEdit
  <2>6. lastSet' \in [Entries -> (0..MaxAmount) \cup {NoPrice}]
    BY <1>5, KeptFits DEF EndEdit, DeskInv
  <2>7. overran' \subseteq Products
    BY <1>5, <2>1 DEF EndEdit, DeskInv
  <2>8. QED
    BY <2>4, <2>5, <2>6, <2>7 DEF DeskInv
<1>6. ASSUME NEW r \in Editors, AbandonEdit(r)
      PROVE  DeskInv'
  <2>1. EditsFit'
    BY <1>6, NoEditFits DEF AbandonEdit, DeskInv, EditsFit
  <2>2. AnswerFits'
    BY <1>6, AnswersFit DEF AbandonEdit
  <2>3. QED
    BY <1>6, <2>1, <2>2 DEF DeskInv, AbandonEdit
<1>7. CASE UNCHANGED <<edit, lastSet, overran>>
            /\ (asked' = asked \/ asked' = NothingAsked \/ \E n \in Numbers \cup NewNumbers : Asked(n))
  <2>1. AnswerFits'
    BY <1>7, AnswersFit DEF DeskInv, AnswerFits
  <2>2. QED
    BY <1>7, <2>1 DEF DeskInv, EditsFit
<1>8. CASE \E n \in Numbers : Refuse(n)
  BY <1>7, <1>8 DEF Refuse
<1>9. CASE UNCHANGED priceVars
  BY <1>7, <1>9 DEF priceVars
<1>10. CASE \E q : Quote(q)
  BY <1>7, <1>10 DEF Quote
<1>11. CASE \/ \E request \in Requests : Compose(request)
            \/ ResolveLine \/ RefuseUnknown \/ RefuseInvalid
            \/ PriceLines \/ RefuseLine \/ AddLine \/ RefuseSum \/ Save \/ Answer
  BY <1>10, <1>11
  DEF Compose, ResolveLine, RefuseUnknown, RefuseInvalid, PriceLines, RefuseLine, AddLine,
      RefuseSum, Save, Answer, RefuseQuote
<1>12. QED
  BY <1>1, <1>2, <1>3, <1>4, <1>5, <1>6, <1>8, <1>9, <1>11 DEF PriceNext

\* Answers, edits and entries fit in every state.
THEOREM DeskInvariant == PriceSpec => []DeskInv
<1>1. PriceInit => DeskInv
  BY DeskInvAtStart
<1>2. ExactInv /\ DeskInv /\ [PriceNext]_priceVars => DeskInv'
  BY DeskInvKept
<1>3. QED
  BY <1>1, <1>2, ExactInvariant, PTL DEF PriceSpec

\* PriceTypeOK: amounts never leave the column, numbers those sent, lines the
\* requests.
THEOREM PricesAreTyped == PriceSpec => []PriceTypeOK
<1>1. ExactInv /\ TotalInv /\ DeskInv => PriceTypeOK
  BY DEF ExactInv, PricesFit, QuoteType, QuoteRecords, Phases, TotalInv, FittingLines,
         DeskInv, AnswerFits, EditsFit, FittingEdits, PriceTypeOK
<1>2. QED
  BY <1>1, ExactInvariant, TotalInvariant, DeskInvariant, PTL

\* PriceIsWhatWasSent: for every number a request may hold, what is accepted is
\* exactly the amount it denotes; what is refused is negative, denotes no amount
\* the column holds, or has an exponent written with too many digits, of which
\* some are zeros in front or which belongs to a zero.
THEOREM PriceIsAlwaysWhatWasSent == PriceSpec => []PriceIsWhatWasSent
<1>1. DeskInv => PriceIsWhatWasSent
  <2> SUFFICES ASSUME AnswerFits, asked.number # NoNumber
               PROVE  LET n == asked.number IN
                      IF asked.answer.ok THEN Denotes(n, asked.answer.cents)
                      ELSE \/ n.negative /\ n.digits # 0
                           \/ ~ Representable(n)
                           \/ ExponentTooLong(n) /\ (n.digits = 0 \/ ZeroPadded(n))
    BY DEF DeskInv, PriceIsWhatWasSent
  <2>1. asked.number \in JSONNumbers /\ asked.answer = Decode(asked.number)
    BY NumbersAssumption DEF AnswerFits
  <2>2. QED
    BY <2>1, DecodeIsExact, Zenon
<1>2. QED
  BY <1>1, DeskInvariant, PTL

\* PriceSurvivesTheRoundTrip: every price an entry can have is read back
\* unchanged, shown by a number that denotes it, and accepted again.
THEOREM PriceAlwaysSurvivesTheRoundTrip == PriceSpec => []PriceSurvivesTheRoundTrip
<1>1. ExactInv => PriceSurvivesTheRoundTrip
  <2> SUFFICES ASSUME PricesFit, NEW e \in Entries, price[e] # NoPrice
               PROVE  /\ Read(e) = {Accepted(price[e])}
                      /\ Denotes(MarshalJSON(price[e]), price[e])
                      /\ Parse(MarshalJSON(price[e])) = Accepted(price[e])
    BY DEF ExactInv, PriceSurvivesTheRoundTrip
  <2>1. price[e] \in 0..MaxAmount
    BY DEF PricesFit
  <2>2. Read(e) = {Accepted(price[e])}
    <3>1. \A row \in Read(e) : row = Accepted(price[e])
      BY ReadIsExact
    <3>2. Read(e) # {}
      <4>1. NumericFromCents(price[e]) \in Stored(NumericFromCents(price[e]))
        BY DEF Stored
      <4>2. QED
        BY <4>1 DEF Read
    <3>3. QED
      BY <3>1, <3>2
  <2>3. QED
    BY <2>1, <2>2, ShownIsDenoted, ShownIsAccepted
<1>2. QED
  BY <1>1, ExactInvariant, PTL
=============================================================================
