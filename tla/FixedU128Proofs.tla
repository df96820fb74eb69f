-------------------------- MODULE FixedU128Proofs --------------------------
(***************************************************************************)
(* For every width: what the arithmetic of the pallets yields, a number    *)
(* that fits or a panic, and how far it is from the exact result.          *)
(***************************************************************************)
EXTENDS FixedU128, WellFoundedInduction, NaturalsInduction, TLAPS

-----------------------------------------------------------------------------
(* The arithmetic yields a u128 or Panic. *)

\* Amounts, and the results of operations that may panic, are integers.
LEMMA OutcomeIsInt == Balance \subseteq Int /\ Outcome \subseteq Int /\ Panic \in Outcome
  BY WidthAssumption DEF Balance, Outcome, Panic

\* A u128 sum in the release build, `a + b` in update_pool_supply, wraps within the width.
LEMMA WrappingAddType ==
  ASSUME NEW a \in Outcome, NEW b \in Outcome PROVE wrapping_add[a][b] \in Outcome
  <1>1. a \in Int /\ b \in Int
    BY OutcomeIsInt
  <1>2. wrapping_add[a][b] = IF Panic \in {a, b} THEN Panic ELSE (a + b) % (MaxBalance + 1)
    BY <1>1 DEF wrapping_add
  <1> QED
    BY <1>1, <1>2, WidthAssumption DEF Balance, Outcome, Panic

\* A u128 difference, `a - b` in update_pool_debt, wraps within the width.
LEMMA WrappingSubType ==
  ASSUME NEW a \in Outcome, NEW b \in Outcome PROVE wrapping_sub[a][b] \in Outcome
  <1>1. a \in Int /\ b \in Int
    BY OutcomeIsInt
  <1>2. wrapping_sub[a][b] = IF Panic \in {a, b} THEN Panic ELSE (a - b) % (MaxBalance + 1)
    BY <1>1 DEF wrapping_sub
  <1> QED
    BY <1>1, <1>2, WidthAssumption DEF Balance, Outcome, Panic

\* On numbers that are no panic, neither is the result.
LEMMA WrapStaysInWidth ==
  ASSUME NEW a \in Balance, NEW b \in Balance
  PROVE  wrapping_add[a][b] \in Balance /\ wrapping_sub[a][b] \in Balance
  BY OutcomeIsInt, WidthAssumption DEF wrapping_add, wrapping_sub, Balance, Panic, Outcome

\* A sum that fits does not wrap, as the credit of a transfer.
LEMMA AddExact ==
  ASSUME NEW a \in Nat, NEW b \in Nat, a + b <= MaxBalance
  PROVE  wrapping_add[a][b] = a + b
  <1>1. Panic \notin {a, b} /\ a \in Int /\ b \in Int
    BY DEF Panic
  <1>2. wrapping_add[a][b] = (a + b) % (MaxBalance + 1)
    BY <1>1 DEF wrapping_add
  <1>3. a + b \in 0..MaxBalance /\ MaxBalance \in Nat
    BY WidthAssumption
  <1> QED
    BY <1>2, <1>3

\* `a - b` of no more than there is, as in destroy.
LEMMA SubExact ==
  ASSUME NEW a \in Balance, NEW b \in Nat, b <= a
  PROVE  wrapping_sub[a][b] = a - b
  <1>1. Panic \notin {a, b} /\ a \in Int /\ b \in Int /\ MaxBalance \in Nat
    BY WidthAssumption DEF Panic, Balance
  <1>2. wrapping_sub[a][b] = (a - b) % (MaxBalance + 1)
    BY <1>1 DEF wrapping_sub
  <1>3. a - b \in 0..MaxBalance
    BY <1>1 DEF Balance
  <1> QED
    BY <1>1, <1>2, <1>3

\* A checked operation yields a u128 or panics; a saturating one yields a u128.
LEMMA CheckedType ==
  ASSUME NEW v \in Int PROVE checked[v] \in Outcome /\ saturating[v] \in Outcome
  BY WidthAssumption DEF checked, saturating, Balance, Outcome

\* multiply_by_rational, which FixedU128's operators are built on, yields a number or panics.
LEMMA RationalType ==
  ASSUME NEW a \in Int, NEW b \in Int, NEW c \in Int, c >= 0 \/ c = Panic
  PROVE  multiply_by_rational[a][b][c] \in Int
  <1>1. CASE Panic \in {a, b, c} \/ c = 0
    BY <1>1 DEF multiply_by_rational, Panic
  <1>2. CASE ~ (Panic \in {a, b, c} \/ c = 0)
    <2>1. c > 0
      BY <1>2
    <2>2. (a * b) \div c \in Int
      BY <2>1
    <2> QED
      BY <1>2, <2>2 DEF multiply_by_rational
  <1> QED
    BY <1>1, <1>2

\* The FixedU128 operations of the interest and health formulas yield a u128 or panic.
LEMMA FixedType ==
  ASSUME NEW a \in Outcome, NEW b \in Outcome
  PROVE  /\ fixed_add(a, b) \in Outcome
         /\ fixed_mul(a, b) \in Outcome
         /\ fixed_div(a, b) \in Outcome
         /\ saturating_mul_int(a, b) \in Outcome
         /\ saturating_from_rational(a, b) \in Outcome
  <1>1. /\ DIV \in Int /\ DIV >= 0
        /\ a \in Int /\ b \in Int
        /\ b >= 0 \/ b = Panic
    BY WidthAssumption DEF Balance, Outcome, Panic
  <1>2. /\ multiply_by_rational[a][b][DIV] \in Int
        /\ multiply_by_rational[a][DIV][b] \in Int
    BY <1>1, RationalType
  <1> QED
    BY <1>2, CheckedType, WrappingAddType
    DEF fixed_add, fixed_mul, fixed_div, saturating_mul_int, saturating_from_rational

\* saturating_from_integer, used on the elapsed blocks, yields a u128.
LEMMA FromIntegerType ==
  ASSUME NEW n \in Int PROVE saturating_from_integer(n) \in Outcome
  <1>1. n * DIV \in Int
    BY WidthAssumption
  <1> QED
    BY <1>1, CheckedType DEF saturating_from_integer

-----------------------------------------------------------------------------
(* `a * b / c` on u128, which every price and share is. *)

\* A truncated quotient is no larger than the exact one.
LEMMA DivFacts ==
  ASSUME NEW x \in Nat, NEW c \in Nat \ {0}
  PROVE  x \div c \in Nat /\ x \div c <= x /\ (x \div c) * c <= x
  OBVIOUS

\* A price or a share is a u128 or a panic, and whatever the product did, at most the exact
\* quotient.
LEMMA MulDivFacts ==
  ASSUME NEW a \in Outcome, NEW b \in Outcome, NEW c \in Outcome
  PROVE  LET q == wrapping_mul_div[a][b][c]
         IN  /\ q \in Outcome
             /\ q # Panic => {a, b, c, q} \subseteq Balance /\ c # 0 /\ q * c <= a * b
  <1> DEFINE q == wrapping_mul_div[a][b][c]
  <1>1. a \in Int /\ b \in Int /\ c \in Int /\ MaxBalance \in Nat
    BY OutcomeIsInt, WidthAssumption
  <1>2. q = IF Panic \in {a, b, c} \/ c = 0 THEN Panic ELSE ((a * b) % (MaxBalance + 1)) \div c
    BY <1>1 DEF wrapping_mul_div
  <1> HIDE DEF q
  <1>3. CASE Panic \in {a, b, c} \/ c = 0
    BY <1>2, <1>3 DEF Outcome, q
  <1>4. CASE ~ (Panic \in {a, b, c} \/ c = 0)
    <2> DEFINE p == a * b
               r == p % (MaxBalance + 1)
    <2>1. a \in Balance /\ b \in Balance /\ c \in Balance /\ c \in Nat \ {0}
      BY <1>1, <1>4 DEF Outcome, Balance
    <2>2. p \in Nat
      BY <1>1, <2>1 DEF Balance
    <2> HIDE DEF p
    <2>3. r \in 0..MaxBalance /\ r \in Nat /\ r <= p
      BY <1>1, <2>2
    <2>4. q = r \div c
      BY <1>2, <1>4 DEF p
    <2> HIDE DEF r
    <2>5. q \in Nat /\ q <= r /\ q * c <= r
      BY <2>1, <2>3, <2>4, DivFacts
    <2>6. q * c \in Nat
      BY <2>1, <2>5
    <2>7. q \in Balance /\ q * c <= p
      BY <1>1, <2>2, <2>3, <2>5, <2>6 DEF Balance
    <2> QED
      BY <2>1, <2>7 DEF Outcome, p, q
  <1> QED
    BY <1>3, <1>4

-----------------------------------------------------------------------------
(* What rounds nothing. *)

\* A multiple divides exactly.
LEMMA WholeQuotient ==
  ASSUME NEW x \in Nat, NEW c \in Nat \ {0}
  PROVE  (x * c) \div c = x /\ (x * c) % c = 0
  OBVIOUS

\* multiply_by_rational of a multiple of the divisor rounds nothing.
LEMMA RationalExact ==
  ASSUME NEW a \in Nat, NEW b \in Nat, NEW c \in Nat \ {0}, NEW x \in Nat, a * b = x * c
  PROVE  multiply_by_rational[a][b][c] = x
  <1>1. Panic \notin {a, b, c} /\ c # 0 /\ a \in Int /\ b \in Int /\ c \in Int
    BY DEF Panic
  <1>2. (a * b) \div c = x /\ (a * b) % c = 0
    BY WholeQuotient
  <1>3. 0 <= c \div 2
    OBVIOUS
  <1> QED
    BY <1>1, <1>2, <1>3 DEF multiply_by_rational

\* Multiplying by one, dividing a number by itself and multiplying by zero are exact.
LEMMA FixedExact ==
  ASSUME NEW x \in Balance
  PROVE  /\ fixed_mul(x, one) = x
         /\ saturating_mul_int(one, x) = x
         /\ x > 0 => fixed_div(x, x) = one
         /\ fixed_mul(x, 0) = 0
  <1>1. /\ x \in Nat /\ DIV \in Nat \ {0} /\ 0 \in Nat
        /\ x \in Balance /\ DIV \in Balance /\ 0 \in Balance
        /\ x \in Int /\ DIV \in Int /\ 0 \in Int
    BY WidthAssumption DEF Balance
  <1>2. \A v \in Balance : checked[v] = v /\ saturating[v] = v
    BY WidthAssumption DEF checked, saturating, Balance, Outcome
  <1>3. x * DIV = DIV * x /\ x * 0 = 0 * DIV
    BY <1>1
  <1>4. multiply_by_rational[x][DIV][DIV] = x
    BY ONLY <1>1, RationalExact
  <1>5. multiply_by_rational[DIV][x][DIV] = x
    BY ONLY <1>1, <1>3, RationalExact
  <1>6. x > 0 => multiply_by_rational[x][DIV][x] = DIV
    <2>1. x > 0 => x \in Nat \ {0}
      BY <1>1
    <2> QED
      BY ONLY <1>1, <1>3, <2>1, RationalExact
  <1>7. multiply_by_rational[x][0][DIV] = 0
    BY ONLY <1>1, <1>3, RationalExact
  <1> QED
    BY <1>1, <1>2, <1>4, <1>5, <1>6, <1>7 DEF fixed_mul, fixed_div, saturating_mul_int, one

-----------------------------------------------------------------------------
(* Which way quotients round. *)

\* Products of natural numbers keep an order, and a common factor can be taken off.
LEMMA ProductsOrdered ==
  ASSUME NEW a \in Nat, NEW b \in Nat, NEW c \in Nat
  PROVE  /\ a * c \in Nat
         /\ a <= b => a * c <= b * c
         /\ c # 0 /\ a * c <= b * c => a <= b
  OBVIOUS

\* Division with a remainder.
LEMMA Remainder ==
  ASSUME NEW x \in Nat, NEW c \in Nat \ {0}
  PROVE  /\ x \div c \in Nat /\ x % c \in Nat /\ (x \div c) * c \in Nat
         /\ x = (x \div c) * c + (x % c) /\ x % c < c
  <1>1. x \div c \in Nat /\ x % c \in Nat /\ x % c < c
    OBVIOUS
  <1>2. (x \div c) * c \in Nat
    BY <1>1
  <1>3. x = c * (x \div c) + (x % c)
    OBVIOUS
  <1> QED
    BY <1>1, <1>2, <1>3

\* multiply_by_rational lies between the whole numbers that its exact value lies between,
\* whichever way it rounds, and where it truncates it is at most its exact value.
LEMMA RationalBounds ==
  ASSUME NEW a \in Nat, NEW b \in Nat, NEW c \in Nat \ {0}
  PROVE  LET q == multiply_by_rational[a][b][c]
         IN  /\ q \in Nat
             /\ \A x \in Nat : a * b <= x * c => q <= x
             /\ \A x \in Nat : x * c <= a * b => x <= q
             /\ rounds_down(a, b, c) => q * c <= a * b
  <1> DEFINE q == multiply_by_rational[a][b][c]
             p == a * b
             d == p \div c
             r == p % c
  <1>1. Panic \notin {a, b, c} /\ c # 0 /\ a \in Int /\ b \in Int /\ c \in Int /\ p \in Nat
    BY ProductsOrdered DEF Panic
  <1>2. q = IF p <= MaxBalance \/ c < LIMB \/ r <= c \div 2 THEN d ELSE d + 1
    BY <1>1 DEF multiply_by_rational
  <1> HIDE DEF q, p
  <1>3. d \in Nat /\ r \in Nat /\ d * c \in Nat /\ p = d * c + r /\ r < c
    BY <1>1, Remainder
  <1>4. c \div 2 >= 0 /\ c \div 2 \in Nat
    OBVIOUS
  <1> HIDE DEF d, r
  <1>5. q \in Nat /\ d <= q /\ (q = d \/ (q = d + 1 /\ r > 0))
    BY <1>2, <1>3, <1>4
  <1>6. ASSUME NEW x \in Nat, p <= x * c PROVE q <= x
    <2>1. x * c \in Nat /\ d * c <= x * c
      BY <1>1, <1>3, <1>6, ProductsOrdered
    <2>2. d <= x
      BY <1>3, <2>1, ProductsOrdered
    <2>3. r > 0 => d # x
      BY <1>1, <1>3, <1>6, <2>1
    <2> QED
      BY <1>3, <1>5, <2>2, <2>3
  <1>7. ASSUME NEW x \in Nat, x * c <= p PROVE x <= q
    <2>1. x * c < (d + 1) * c
      <3>1. (d + 1) * c = d * c + c
        BY <1>3
      <3>2. x * c \in Nat
        OBVIOUS
      <3> QED
        BY <1>1, <1>3, <1>7, <3>1, <3>2
    <2>2. ~ (d + 1 <= x)
      <3>1. d + 1 \in Nat /\ (d + 1) * c \in Nat /\ x * c \in Nat
        BY <1>3
      <3> QED
        BY <2>1, <3>1, ProductsOrdered
    <2> QED
      BY <1>3, <1>5, <2>2
  <1>8. ASSUME rounds_down(a, b, c) PROVE q * c <= p
    <2>1. q = d
      BY <1>2, <1>8 DEF rounds_down, p
    <2> QED
      BY <1>1, <1>3, <2>1
  <1> QED
    BY <1>5, <1>6, <1>7, <1>8 DEF p, q

\* Whichever way it rounds, multiply_by_rational exceeds its exact value by no more than the
\* part of it that the divisor is of 2^129: it is only rounded up, by half the divisor at most,
\* when the product is beyond MaxBalance.
LEMMA Overshoot ==
  ASSUME NEW a \in Nat, NEW b \in Nat, NEW c \in Nat \ {0}
  PROVE  LET q == multiply_by_rational[a][b][c]
             N == 2 * MaxBalance
         IN  q \in Nat /\ N * (q * c) <= (N + c) * (a * b)
  <1> DEFINE q == multiply_by_rational[a][b][c]
             p == a * b
             d == p \div c
             r == p % c
             M == MaxBalance
             N == 2 * M
             h == c \div 2
  <1>1. Panic \notin {a, b, c} /\ c # 0 /\ a \in Int /\ b \in Int /\ c \in Int /\ p \in Nat
    BY ProductsOrdered DEF Panic
  <1>2. q = IF p <= M \/ c < LIMB \/ r <= h THEN d ELSE d + 1
    BY <1>1 DEF multiply_by_rational
  <1>3. M \in Nat
    BY WidthAssumption
  <1> HIDE DEF q, p, M
  <1>4. d \in Nat /\ r \in Nat /\ d * c \in Nat /\ p = d * c + r /\ r < c
    BY <1>1, Remainder
  <1>5. h \in Nat /\ c < 2 * h + 2
    OBVIOUS
  <1> HIDE DEF d, r, h
  <1>6. M * p \in Nat /\ p * c \in Nat /\ M * c \in Nat /\ (N + c) * p = 2 * (M * p) + p * c
    BY <1>1, <1>3
  <1>7. CASE q = d
    <2>1. (d * c) * M <= p * M
      BY <1>1, <1>3, <1>4, ProductsOrdered
    <2>2. N * (q * c) = 2 * ((d * c) * M) /\ p * M = M * p /\ (d * c) * M \in Nat
      BY <1>3, <1>4, <1>7
    <2> QED
      BY <1>4, <1>6, <1>7, <2>1, <2>2 DEF p, q, M
  <1>8. CASE q # d
    <2>1. q = d + 1 /\ M <= p /\ h + 1 <= r
      BY <1>1, <1>2, <1>3, <1>4, <1>5, <1>8
    <2>2. q * c = d * c + c /\ q \in Nat /\ q * c \in Nat
      BY <1>4, <2>1
    <2>3. 2 * (q * c) <= 2 * p + c
      BY <1>1, <1>4, <1>5, <2>1, <2>2
    <2> DEFINE u == 2 * (q * c)
               v == 2 * p + c
    <2>4. u \in Nat /\ v \in Nat /\ u <= v
      BY <1>1, <2>2, <2>3
    <2>5. N * (q * c) = u * M /\ v * M = 2 * (M * p) + M * c
      BY <1>1, <1>3, <2>2
    <2> HIDE DEF u, v
    <2>6. u * M <= v * M /\ u * M \in Nat
      BY <1>3, <2>4, ProductsOrdered
    <2>7. M * c <= p * c
      BY <1>1, <1>3, <2>1, ProductsOrdered
    <2>8. N * (q * c) <= (N + c) * p
      BY <1>6, <2>5, <2>6, <2>7
    <2> QED
      BY <2>2, <2>8 DEF p, q, M
  <1> QED
    BY <1>7, <1>8

\* One quotient after another: if K * a exceeds L by X parts of N, and c * q exceeds a * b by c
\* parts, then K * c * q exceeds L * b by X + 2 * c.
LEMMA OvershootAgain ==
  ASSUME NEW N \in Nat \ {0}, NEW K \in Nat, NEW L \in Nat, NEW X \in Nat, NEW a \in Nat, NEW b \in Nat,
         NEW c \in Nat, NEW q \in Nat, X <= N,
         N * (K * a) <= (N + X) * L, N * (q * c) <= (N + c) * (a * b)
  PROVE  N * (K * c * q) <= (N + X + 2 * c) * (L * b)
  <1> DEFINE A == N * (K * a)
             B == (N + X) * L
             C == N * (q * c)
             E == (N + c) * (a * b)
             Kq == N * (K * c * q)
             Lb == L * b
             S == N + X + 2 * c
             Z == N + c
  <1>1. /\ A \in Nat /\ B \in Nat /\ C \in Nat /\ E \in Nat /\ Kq \in Nat /\ Lb \in Nat
        /\ S \in Nat /\ Z \in Nat
    OBVIOUS
  <1>2. C * (N * K) <= E * (N * K)
    BY ProductsOrdered
  <1>3. A * (Z * b) <= B * (Z * b)
    BY ProductsOrdered
  <1>4. /\ C * (N * K) = Kq * N /\ E * (N * K) = A * (Z * b)
        /\ B * (Z * b) = ((N + X) * Z) * Lb
    OBVIOUS
  <1>5. (N + X) * Z <= S * N
    <2>1. (N + X) * Z = N * N + N * c + X * N + X * c /\ S * N = N * N + X * N + 2 * (N * c)
      OBVIOUS
    <2>2. X * c <= N * c
      BY ProductsOrdered
    <2>3. X * c \in Nat /\ N * c \in Nat /\ N * N \in Nat /\ X * N \in Nat
      OBVIOUS
    <2> QED
      BY <2>1, <2>2, <2>3
  <1>6. (N + X) * Z \in Nat /\ S * N \in Nat /\ (S * N) * Lb = (S * Lb) * N /\ S * Lb \in Nat
    OBVIOUS
  <1> HIDE DEF A, B, C, E, Kq, Lb, S, Z
  <1>7. ((N + X) * Z) * Lb <= (S * N) * Lb
    BY ONLY <1>1, <1>5, <1>6, ProductsOrdered
  <1>8. /\ Kq * N \in Nat /\ A * (Z * b) \in Nat /\ ((N + X) * Z) * Lb \in Nat /\ (S * Lb) * N \in Nat
    BY <1>1, <1>6
  <1>9. Kq * N <= (S * Lb) * N
    BY <1>2, <1>3, <1>4, <1>6, <1>7, <1>8
  <1>10. Kq <= S * Lb
    BY ONLY <1>1, <1>6, <1>9, ProductsOrdered, N \in Nat \ {0}
  <1> QED
    BY <1>10 DEF Kq, S, Lb

\* Unless they panic the operations on fixed point numbers are multiply_by_rational's; where
\* they saturate they are less.
LEMMA FixedBounds ==
  ASSUME NEW a \in Balance, NEW b \in Balance
  PROVE  /\ fixed_mul(a, b) # Panic =>
                fixed_mul(a, b) \in Balance /\ fixed_mul(a, b) = multiply_by_rational[a][b][DIV]
         /\ b # 0 /\ fixed_div(a, b) # Panic =>
                fixed_div(a, b) \in Balance /\ fixed_div(a, b) = multiply_by_rational[a][DIV][b]
         /\ saturating_mul_int(a, b) \in Balance
         /\ saturating_mul_int(a, b) <= multiply_by_rational[a][b][DIV]
         /\ saturating_mul_int(a, b) \in {MaxBalance, multiply_by_rational[a][b][DIV]}
         /\ b # 0 => /\ saturating_from_rational(a, b) \in Balance
                     /\ saturating_from_rational(a, b) <= multiply_by_rational[a][DIV][b]
  <1>1. a \in Nat /\ b \in Nat /\ DIV \in Nat \ {0} /\ MaxBalance \in Nat
    BY WidthAssumption DEF Balance
  <1>2. multiply_by_rational[a][b][DIV] \in Nat
    BY <1>1, RationalBounds
  <1>3. b # 0 => multiply_by_rational[a][DIV][b] \in Nat
    BY <1>1, RationalBounds
  <1>4. ASSUME NEW v \in Nat
        PROVE  /\ checked[v] # Panic => checked[v] = v /\ v \in Balance
               /\ saturating[v] \in Balance /\ saturating[v] <= v
               /\ saturating[v] \in {MaxBalance, v}
    BY <1>1 DEF checked, saturating, Balance, Outcome, Panic
  <1> QED
    BY <1>2, <1>3, <1>4 DEF fixed_mul, fixed_div, saturating_mul_int, saturating_from_rational

\* A number of blocks as a fixed point number is that number, or less where it saturates.
LEMMA FromIntegerBounds ==
  ASSUME NEW n \in Nat
  PROVE  saturating_from_integer(n) \in Balance /\ saturating_from_integer(n) <= n * DIV
  <1>1. n * DIV \in Nat /\ MaxBalance \in Nat
    BY WidthAssumption
  <1> QED
    BY <1>1 DEF saturating_from_integer, saturating, Outcome, Balance, Panic

\* An addition that wraps is less than the sum, a subtraction that wraps more than the difference.
LEMMA WrapBounds ==
  ASSUME NEW a \in Balance, NEW b \in Balance
  PROVE  /\ wrapping_add[a][b] \in Balance /\ wrapping_add[a][b] <= a + b
         /\ wrapping_sub[a][b] \in Balance /\ wrapping_sub[a][b] >= a - b
  <1>1. /\ a \in Int /\ b \in Int /\ a + b \in Nat /\ a - b \in Int /\ a - b <= MaxBalance
        /\ Panic \notin {a, b} /\ MaxBalance \in Nat
    BY WidthAssumption DEF Balance, Panic
  <1>2. /\ wrapping_add[a][b] = (a + b) % (MaxBalance + 1)
        /\ wrapping_sub[a][b] = (a - b) % (MaxBalance + 1)
    BY <1>1 DEF wrapping_add, wrapping_sub
  <1>3. \A v \in Nat : v % (MaxBalance + 1) \in 0..MaxBalance /\ v % (MaxBalance + 1) <= v
    BY <1>1
  <1>4. \A v \in Int : v <= MaxBalance =>
            v % (MaxBalance + 1) \in 0..MaxBalance /\ v % (MaxBalance + 1) >= v
    BY <1>1
  <1> QED
    BY <1>1, <1>2, <1>3, <1>4 DEF Balance

\* A sum that does not fit is short of the width.
LEMMA AddWrapped ==
  ASSUME NEW a \in Balance, NEW b \in Balance, a + b > MaxBalance
  PROVE  wrapping_add[a][b] = a + b - (MaxBalance + 1)
  <1>1. a \in Int /\ b \in Int /\ a + b \in Int /\ Panic \notin {a, b} /\ MaxBalance \in Nat
    BY WidthAssumption DEF Balance, Panic
  <1>2. wrapping_add[a][b] = (a + b) % (MaxBalance + 1)
    BY <1>1 DEF wrapping_add
  <1> DEFINE v == a + b
  <1>3. v \in Nat /\ v > MaxBalance /\ v < 2 * (MaxBalance + 1)
    BY <1>1 DEF Balance
  <1> HIDE DEF v
  <1>4. v % (MaxBalance + 1) = v - (MaxBalance + 1)
    BY <1>1, <1>3
  <1> QED
    BY <1>1, <1>2, <1>4 DEF v

\* A difference below zero is the width more.
LEMMA SubWrapped ==
  ASSUME NEW a \in Balance, NEW b \in Balance, a < b
  PROVE  wrapping_sub[a][b] = a - b + (MaxBalance + 1)
  <1>1. a \in Int /\ b \in Int /\ a - b \in Int /\ Panic \notin {a, b} /\ MaxBalance \in Nat
    BY WidthAssumption DEF Balance, Panic
  <1>2. wrapping_sub[a][b] = (a - b) % (MaxBalance + 1)
    BY <1>1 DEF wrapping_sub
  <1> DEFINE v == a - b
  <1>3. v \in Int /\ v < 0 /\ v + (MaxBalance + 1) > 0
    BY <1>1 DEF Balance
  <1> HIDE DEF v
  <1>4. v % (MaxBalance + 1) = v + (MaxBalance + 1)
    BY <1>1, <1>3
  <1> QED
    BY <1>1, <1>2, <1>4 DEF v

\* Where the value of an amount rounds down and does not saturate, the values of its two parts
\* add up to it, or to one unit less.
LEMMA ValueSplits ==
  ASSUME NEW f \in Balance, NEW m \in Balance, NEW n \in Balance, m + n \in Balance,
         rounds_down(f, m + n, DIV), saturating_mul_int(f, m + n) < MaxBalance
  PROVE  /\ saturating_mul_int(f, m) \in Nat /\ saturating_mul_int(f, n) \in Nat
         /\ saturating_mul_int(f, m + n) \in Nat
         /\ saturating_mul_int(f, m) + saturating_mul_int(f, n) <= saturating_mul_int(f, m + n)
         /\ saturating_mul_int(f, m + n)
                <= saturating_mul_int(f, m) + saturating_mul_int(f, n) + 1
  <1> DEFINE D == DIV
             q(x) == multiply_by_rational[f][x][D]
             qm == q(m)
             qn == q(n)
             qs == q(m + n)
  <1>1. /\ f \in Nat /\ m \in Nat /\ n \in Nat /\ m + n \in Nat
        /\ D \in Nat \ {0} /\ MaxBalance \in Nat
    BY WidthAssumption DEF Balance
  <1>2. f * m \in Nat /\ f * n \in Nat /\ f * (m + n) \in Nat /\ f * (m + n) = f * m + f * n
    BY <1>1
  <1>3. rounds_down(f, m, D) /\ rounds_down(f, n, D) /\ rounds_down(f, m + n, D)
    BY <1>1, <1>2 DEF rounds_down
  <1>4. ASSUME NEW x \in Nat, rounds_down(f, x, D)
        PROVE  q(x) \in Nat /\ q(x) * D <= f * x /\ \A y \in Nat : y * D <= f * x => y <= q(x)
    BY <1>1, <1>4, RationalBounds
  <1>5. qm \in Nat /\ qn \in Nat /\ qs \in Nat
    BY <1>1, <1>3, <1>4
  <1>6. qm * D <= f * m /\ qn * D <= f * n /\ qs * D <= f * (m + n)
    BY <1>1, <1>3, <1>4
  <1>7. /\ \A y \in Nat : y * D <= f * m => y <= qm
        /\ \A y \in Nat : y * D <= f * n => y <= qn
        /\ \A y \in Nat : y * D <= f * (m + n) => y <= qs
    BY <1>1, <1>3, <1>4
  <1>8. /\ saturating_mul_int(f, m) \in Balance /\ saturating_mul_int(f, m) <= qm
        /\ saturating_mul_int(f, m) \in {MaxBalance, qm}
        /\ saturating_mul_int(f, n) \in Balance /\ saturating_mul_int(f, n) <= qn
        /\ saturating_mul_int(f, n) \in {MaxBalance, qn}
        /\ saturating_mul_int(f, m + n) \in {MaxBalance, qs}
    BY FixedBounds
  <1> HIDE DEF D, q, qm, qn, qs
  <1>9. /\ qm * D \in Nat /\ qn * D \in Nat /\ qs * D \in Nat /\ qm + qn \in Nat
        /\ (qm + qn) * D = qm * D + qn * D /\ (qm + 1) * D = qm * D + D /\ (qn + 1) * D = qn * D + D
    BY <1>1, <1>5
  <1>10. qm + qn <= qs
    <2>1. (qm + qn) * D <= f * (m + n)
      BY <1>2, <1>6, <1>9
    <2> QED
      BY <1>7, <1>9, <2>1
  <1>11. qs <= qm + qn + 1
    <2>1. f * m < qm * D + D /\ f * n < qn * D + D
      <3>1. qm + 1 \in Nat /\ qn + 1 \in Nat /\ (qm + 1) * D \in Nat /\ (qn + 1) * D \in Nat
        BY <1>1, <1>5
      <3>2. ~ ((qm + 1) * D <= f * m)
        BY <1>5, <1>7, <3>1
      <3>3. ~ ((qn + 1) * D <= f * n)
        BY <1>5, <1>7, <3>1
      <3> QED
        BY <1>2, <1>9, <3>1, <3>2, <3>3
    <2>2. qs * D < (qm + qn + 2) * D
      <3>1. (qm + qn + 2) * D = qm * D + qn * D + D + D
        BY <1>1, <1>5
      <3> QED
        BY <1>1, <1>2, <1>6, <1>9, <2>1, <3>1
    <2>3. ~ (qm + qn + 2 <= qs)
      <3>1. qm + qn + 2 \in Nat /\ (qm + qn + 2) * D \in Nat
        BY <1>1, <1>5
      <3> QED
        BY <1>1, <1>5, <1>9, <2>2, <3>1, ProductsOrdered
    <2> QED
      BY <1>5, <2>3
  <1>12. saturating_mul_int(f, m + n) = qs /\ qs < MaxBalance
    BY <1>1, <1>8
  <1>13. saturating_mul_int(f, m) = qm /\ saturating_mul_int(f, n) = qn
    BY <1>1, <1>5, <1>8, <1>10, <1>12
  <1> QED
    BY <1>5, <1>10, <1>11, <1>12, <1>13

\* What is left of a number is what is left of it once a multiple is taken off.
LEMMA RemainderOnly ==
  ASSUME NEW m \in Nat \ {0}, NEW j \in Nat, NEW y \in Nat, y < m
  PROVE  (j * m + y) % m = y
  <1> DEFINE n == j * m + y
             d == n \div m
             e == n % m
  <1>1. j * m \in Nat /\ n \in Nat
    OBVIOUS
  <1>2. n = j * m + y
    OBVIOUS
  <1> HIDE DEF n
  <1>3. d \in Nat /\ e \in Nat /\ d * m \in Nat /\ n = d * m + e /\ e < m
    BY <1>1, Remainder
  <1> HIDE DEF d, e
  <1>4. ~ (j + 1 <= d)
    <2>1. SUFFICES ASSUME j + 1 <= d PROVE FALSE
      OBVIOUS
    <2>2. j + 1 \in Nat /\ (j + 1) * m <= d * m
      BY <1>3, <2>1, ProductsOrdered
    <2>3. (j + 1) * m = j * m + m
      OBVIOUS
    <2> QED
      BY <1>1, <1>2, <1>3, <2>2, <2>3
  <1>5. ~ (d + 1 <= j)
    <2>1. SUFFICES ASSUME d + 1 <= j PROVE FALSE
      OBVIOUS
    <2>2. d + 1 \in Nat /\ (d + 1) * m <= j * m
      BY <1>3, <2>1, ProductsOrdered
    <2>3. (d + 1) * m = d * m + m
      BY <1>3
    <2> QED
      BY <1>1, <1>2, <1>3, <2>2, <2>3
  <1>6. d = j
    BY <1>3, <1>4, <1>5
  <1>7. e = y
    BY <1>1, <1>2, <1>3, <1>6
  <1> QED
    BY <1>7 DEF e, n

\* A term that wrapped may be added as it was.
LEMMA WrapOnce ==
  ASSUME NEW m \in Nat \ {0}, NEW a \in Nat, NEW b \in Nat
  PROVE  (a + (b % m)) % m = (a + b) % m
  <1> DEFINE q == b \div m
             r == b % m
             x == a + r
             k == x \div m
             y == x % m
  <1>1. q \in Nat /\ r \in Nat /\ q * m \in Nat /\ b = q * m + r /\ r < m
    BY Remainder
  <1> HIDE DEF q, r
  <1>2. x \in Nat /\ x = a + r
    BY <1>1
  <1> HIDE DEF x
  <1>3. k \in Nat /\ y \in Nat /\ k * m \in Nat /\ x = k * m + y /\ y < m
    BY <1>2, Remainder
  <1> HIDE DEF k
  <1>4. y = x % m
    OBVIOUS
  <1> HIDE DEF y
  <1>5. (k + q) * m = k * m + q * m /\ k + q \in Nat
    BY <1>1, <1>3
  <1>6. a + b = (k + q) * m + y
    BY <1>1, <1>2, <1>3, <1>5
  <1>7. ((k + q) * m + y) % m = y
    BY <1>3, <1>5, RemainderOnly
  <1> QED
    BY <1>4, <1>6, <1>7 DEF x, r

-----------------------------------------------------------------------------
(* Induction, as a smallest counterexample. *)

\* A set of numbers has a least one.
LEMMA LeastNumber ==
  ASSUME NEW T \in SUBSET Nat, T # {} PROVE \E n \in T : \A m \in T : n <= m
  <1>1. PICK n \in T : \A m \in T : ~ (<<m, n>> \in OpToRel(<,Nat))
    BY WFMin, NatLessThanWellFounded
  <1>2. ASSUME NEW m \in T PROVE n <= m
    <2>1. ~ (<<m, n>> \in {ss \in Nat \X Nat : ss[1] < ss[2]})
      BY <1>1 DEF OpToRel
    <2> QED
      BY <2>1
  <1> QED
    BY <1>2
=============================================================================
