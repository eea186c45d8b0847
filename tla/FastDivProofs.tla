------------------------------ MODULE FastDivProofs ------------------------------
(***************************************************************************)
(* Proofs about FastDiv: for every word size, divisor and operand, the     *)
(* multiply-and-shift forms give the quotient and the remainder.           *)
(***************************************************************************)
EXTENDS FastDiv, TLAPS

(* Quotient and remainder, and how a quotient is recognised.               *)
LEMMA DivFacts ==
  ASSUME NEW x \in Int, NEW d \in Nat \ {0}
  PROVE  /\ x \div d \in Int /\ x % d \in 0..(d - 1)
         /\ x = d * (x \div d) + (x % d)
  OBVIOUS

LEMMA DivUnique ==
  ASSUME NEW x \in Int, NEW d \in Nat \ {0}, NEW q \in Int,
         d * q <= x, x < d * q + d
  PROVE  x \div d = q
<1> DEFINE y == x \div d
<1>1. y \in Int /\ d * y <= x /\ x < d * y + d
  BY DivFacts
<1> HIDE DEF y
<1>2. CASE y < q
  <2>1. d * (y + 1) <= d * q
    BY <1>1, <1>2
  <2> QED BY <1>1, <2>1
<1>3. CASE y > q
  <2>1. d * (q + 1) <= d * y
    BY <1>1, <1>3
  <2> QED BY <1>1, <2>1
<1>4. y = q
  BY <1>1, <1>2, <1>3
<1> QED BY <1>4 DEF y

(* The multiplication rounded up: mul * d exceeds a multiple of the power  *)
(* of two by e, and what e adds over all operands stays below one unit.    *)
LEMMA RoundUp ==
  ASSUME NEW K \in Nat \ {0}, NEW d \in Nat \ {0}, NEW mul \in Nat, NEW e \in Nat,
         NEW x \in Nat, mul * d = K + e, x * e < K
  PROVE  (x * mul) \div K = x \div d
<1> DEFINE q == x \div d
           r == x % d
<1>1. q \in Int /\ r \in 0..(d - 1) /\ x = d * q + r
  BY DivFacts
<1>2. q \in Nat
  BY <1>1
<1> HIDE DEF q, r
<1> DEFINE y == x * mul
           z == q * K
           t == r * K
           f == x * e
<1>3. y \in Int /\ z \in Int /\ t \in Int /\ f \in Int /\ f >= 0 /\ f < K
  BY <1>1, <1>2
<1>4. 0 <= t /\ t <= d * K - K
  <2>1. 0 <= r * K /\ (r + 1) * K <= d * K
    BY <1>1
  <2> QED BY <1>1, <2>1
<1>5. d * y = d * z + t + f
  <2>1. d * y = x * (mul * d)
    OBVIOUS
  <2>2. d * y = x * K + f
    BY <2>1
  <2>3. x * K = d * z + t
    BY <1>1, <1>2
  <2> QED BY <1>3, <2>2, <2>3
<1> HIDE DEF y, z, t, f
<1>6. d * z <= d * y /\ d * y < d * z + d * K
  BY <1>3, <1>4, <1>5
<1>7. z <= y /\ y < z + K
  <2>1. d * z + d * K = d * (z + K)
    BY <1>3
  <2> QED BY <1>3, <1>6, <2>1
<1>8. y \div K = q
  BY <1>2, <1>3, <1>7, DivUnique DEF z
<1> QED BY <1>8 DEF y, q

(* The multiplication rounded down, corrected by adding the multiplier     *)
(* once more.                                                              *)
LEMMA RoundDown ==
  ASSUME NEW K \in Nat \ {0}, NEW d \in Nat \ {0}, NEW mul \in Nat, NEW r \in Nat \ {0},
         NEW x \in Nat, mul * d = K - r, (x + 1) * r <= K
  PROVE  (x * mul + mul) \div K = x \div d
<1> DEFINE q == x \div d
           s == x % d
<1>1. q \in Int /\ s \in 0..(d - 1) /\ x = d * q + s
  BY DivFacts
<1>2. q \in Nat
  BY <1>1
<1> HIDE DEF q, s
<1> DEFINE y == x * mul + mul
           z == q * K
<1>3. d * y = (x + 1) * K - (x + 1) * r
  <2>1. y = (x + 1) * mul
    OBVIOUS
  <2>2. d * y = (x + 1) * (mul * d)
    BY <2>1
  <2> QED BY <2>2
<1>4. (x + 1) * K = d * z + (s + 1) * K
  BY <1>1, <1>2
<1>5. y \in Int /\ z \in Int
  BY <1>2
<1> HIDE DEF y, z
<1>6. (s + 1) * K <= d * K /\ (s + 1) * K >= K /\ (s + 1) * K \in Int
  BY <1>1
<1>7. (x + 1) * r \in Int /\ (x + 1) * r > 0
  OBVIOUS
<1>8. d * z <= d * y /\ d * y < d * z + d * K
  BY <1>1, <1>3, <1>4, <1>5, <1>6, <1>7
<1>9. z <= y /\ y < z + K
  <2>1. d * z + d * K = d * (z + K)
    BY <1>5
  <2> QED BY <1>5, <1>8, <2>1
<1>10. y \div K = q
  BY <1>2, <1>5, <1>9, DivUnique DEF z
<1> QED BY <1>10 DEF y, q
LEMMA Ulog2Bounds ==
  ASSUME NEW d \in 1..(Word - 1)
  PROVE  ulog2(d) \in Pow /\ ulog2(d) <= d /\ d < 2 * ulog2(d)
BY PowAssumption DEF ulog2

(* The multiplier that fastdiv_make starts from, and what it lacks.        *)
LEMMA Magic ==
  ASSUME NEW d \in 1..(Word - 1), d \notin Pow
  PROVE  LET p == ulog2(d)
             m == p * Word
             mul == m \div d
             r == m % d
         IN  /\ p \in Nat \ {0} /\ m \in Nat \ {0} /\ p <= d /\ d < 2 * p
             /\ r \in 1..(d - 1)
             /\ mul \in 1..(Word - 1) /\ mul * d = m - r
             /\ d - r < p => mul + 1 \in 1..(Word - 1)
<1> USE WordAssumption, PowAssumption
<1> DEFINE p == ulog2(d)
           m == p * Word
           mul == m \div d
           r == m % d
<1>1. p \in Pow /\ p \in Nat \ {0} /\ p <= d /\ d < 2 * p
  BY Ulog2Bounds
<1>2. p * Word \in Nat \ {0} /\ (p * Word) % d # 0
  BY <1>1
<1> HIDE DEF p
<1>3. m \in Nat \ {0} /\ r # 0
  BY <1>2
<1>4. p * Word >= d /\ p * Word <= d * Word /\ (p # d => p * Word + Word <= d * Word)
  <2>1. p # d => p + 1 <= d
    BY <1>1
  <2>2. p # d => (p + 1) * Word <= d * Word
    BY <1>1, <2>1
  <2> QED BY <1>1, <2>2
<1>5. p # d
  BY <1>1
<1>6. m >= d /\ m + Word <= d * Word
  BY <1>4, <1>5
<1> HIDE DEF m
<1>7. mul \in Int /\ r \in 0..(d - 1) /\ m = d * mul + r
  <2>1. m \in Int /\ d \in Nat \ {0}
    BY <1>3
  <2> QED BY <2>1, DivFacts
<1> HIDE DEF mul, r
<1>8. mul >= 1
  <2>1. CASE mul <= 0
    <3>1. d * mul <= 0
      BY <1>7, <2>1
    <3> QED BY <1>3, <1>6, <1>7, <3>1
  <2> QED BY <1>7, <2>1
<1>9. mul + 1 <= Word - 1 \/ (mul <= Word - 1 /\ ~(d - r < p))
  <2>1. CASE mul + 1 >= Word
    <3>1. d * (mul + 1) >= d * Word
      BY <1>7, <2>1
    <3>2. d * (mul + 1) = m - r + d
      BY <1>3, <1>7
    <3>3. m - r + d >= m + Word
      BY <1>3, <1>6, <1>7, <3>1, <3>2
    <3> QED BY <1>3, <1>7, <3>3
  <2> QED BY <1>7, <2>1
<1>10. mul * d = m - r
  BY <1>3, <1>7
<1>11. /\ p \in Nat \ {0} /\ m \in Nat \ {0} /\ p <= d /\ d < 2 * p
       /\ r \in 1..(d - 1)
       /\ mul \in 1..(Word - 1) /\ mul * d = m - r
       /\ d - r < p => mul + 1 \in 1..(Word - 1)
  BY <1>1, <1>3, <1>7, <1>8, <1>9, <1>10
<1> QED BY <1>11 DEF p, m, mul, r

(* What fastdiv_make promises: the quotient of every operand of a word,    *)
(* with a multiplier that fits a word and an intermediate that fits two.   *)
THEOREM FastDivExact ==
  ASSUME NEW d \in 1..(Word - 1), NEW x \in 0..(Word - 1)
  PROVE  LET f == fastdiv_make(d)
         IN  /\ FASTDIV(f, x) = x \div d
             /\ f.mul \in 1..Word /\ (d # 1 => f.mul < Word) /\ f.add \in 0..(Word - 1)
             /\ x * f.mul + f.add < Word * Word
<1> USE WordAssumption
<1> DEFINE p == ulog2(d)
           m == p * Word
           mul == m \div d
           r == m % d
<1>1. CASE d \in Pow
  <2>1. x * 1 + 0 = x /\ x < Word * Word
    OBVIOUS
  <2> QED BY <1>1, <2>1 DEF fastdiv_make, FASTDIV
<1>2. CASE d \notin Pow
  <2>1. /\ p \in Nat \ {0} /\ m \in Nat \ {0} /\ p <= d /\ d < 2 * p
        /\ r \in 1..(d - 1) /\ mul \in 1..(Word - 1) /\ mul * d = m - r
        /\ d - r < p => mul + 1 \in 1..(Word - 1)
    BY <1>2, Magic
  <2>2. fastdiv_make(d) = IF d - r < p THEN [mul |-> mul + 1, add |-> 0, shift |-> m]
                                       ELSE [mul |-> mul, add |-> mul, shift |-> m]
    BY <1>2 DEF fastdiv_make
  <2>3. m = p * Word
    OBVIOUS
  <2>3a. (x + 1) * mul <= Word * (Word - 1) /\ x * mul + mul = (x + 1) * mul
    <3>1. mul \in 1..(Word - 1)
      BY <2>1
    <3> HIDE DEF mul
    <3>2. (x + 1) * mul <= Word * mul /\ Word * mul <= Word * (Word - 1)
      BY <3>1
    <3> QED BY <3>1, <3>2
  <2> HIDE DEF p, m, mul, r
  <2>4. CASE d - r < p
    <3> DEFINE e == d - r
               mu == mul + 1
    <3>1. mu \in Nat /\ e \in Nat /\ mu * d = m + e
      BY <2>1
    <3>2. x * e < m
      <4>1. e <= p /\ e >= 1
        BY <2>1, <2>4
      <4>2. x * e <= x * p /\ x * p < p * Word
        BY <2>1, <3>1, <4>1
      <4> QED BY <2>1, <2>3, <3>1, <4>2
    <3> HIDE DEF e, mu
    <3>3. (x * mu) \div m = x \div d
      <4>1. m \in Nat \ {0} /\ d \in Nat \ {0} /\ x \in Nat
        BY <2>1
      <4> QED BY <3>1, <3>2, <4>1, RoundUp
    <3>4. mu \in 1..(Word - 1) /\ x * mu + 0 = x * mu /\ x * mu < Word * Word
      <4>1. mu \in 1..(Word - 1)
        BY <2>1, <2>4 DEF mu
      <4>2. x * mu <= x * Word /\ x * Word < Word * Word
        BY <4>1
      <4> QED BY <4>1, <4>2
    <3>5. fastdiv_make(d) = [mul |-> mu, add |-> 0, shift |-> m]
      BY <2>2, <2>4 DEF mu
    <3> QED BY <3>3, <3>4, <3>5 DEF FASTDIV
  <2>5. CASE ~(d - r < p)
    <3>1. (x + 1) * r <= m
      <4>1. r <= p
        BY <2>1, <2>5
      <4>2. (x + 1) * r <= (x + 1) * p /\ (x + 1) * p <= Word * p
        BY <2>1, <4>1
      <4> QED BY <2>1, <2>3, <4>2
    <3>2. (x * mul + mul) \div m = x \div d
      BY <2>1, <3>1, RoundDown
    <3>3. x * mul + mul < Word * Word
      <4>1. Word * (Word - 1) < Word * Word
        OBVIOUS
      <4> QED BY <2>1, <2>3a, <4>1
    <3> QED BY <2>1, <2>2, <2>5, <3>2, <3>3 DEF FASTDIV
  <2> QED BY <2>4, <2>5
<1> QED BY <1>1, <1>2

(* The two-operation form: one more than the quotient of the mask, and an  *)
(* operand below Safe.                                                     *)
LEMMA BoundedExact ==
  ASSUME NEW d \in Nat \ {0}, NEW x \in 0..(Safe - 1)
  PROVE  /\ computeM_uB(d) \in Nat \ {0}
         /\ (x * computeM_uB(d)) \div (FASTDIV_CMASK + 1) = x \div d
<1> USE WordAssumption
<1> DEFINE K == Safe * Safe
           q == (K - 1) \div d
           r == (K - 1) % d
           M == q + 1
           e == d - 1 - r
<1>1. K \in Nat \ {0} /\ K - 1 \in Nat
  OBVIOUS
<1>2. q \in Int /\ r \in 0..(d - 1) /\ K - 1 = d * q + r
  <2> DEFINE k == K - 1
  <2>1. k \in Int
    BY <1>1
  <2> HIDE DEF K, k
  <2>2. k \div d \in Int /\ k % d \in 0..(d - 1) /\ k = d * (k \div d) + (k % d)
    BY <2>1, DivFacts
  <2> QED BY <2>2 DEF k
<1>3. q >= 0
  <2> HIDE DEF q, r, K
  <2>1. CASE q <= -1
    <3>1. d * q <= -d
      BY <1>2, <2>1
    <3> QED BY <1>1, <1>2, <3>1
  <2> QED BY <1>2, <2>1
<1>4. M \in Nat \ {0} /\ e \in 0..(d - 1) /\ M * d = K + e
  <2> HIDE DEF q, r, K
  <2>1. M * d = d * q + d
    BY <1>2, <1>3
  <2> QED BY <1>1, <1>2, <1>3, <2>1
<1>5. computeM_uB(d) = M /\ FASTDIV_CMASK + 1 = K
  BY DEF computeM_uB, FASTDIV_CMASK
<1>6. K = Safe * Safe
  OBVIOUS
<1> HIDE DEF K, q, r, M, e
<1>7. CASE d <= Safe
  <2>1. x * e <= (Safe - 1) * e /\ (Safe - 1) * e <= (Safe - 1) * Safe
    BY <1>4, <1>7
  <2>2. (Safe - 1) * Safe < Safe * Safe
    OBVIOUS
  <2>3. x * e < K
    BY <1>1, <1>4, <1>6, <2>1, <2>2
  <2>4. x \in Nat /\ d \in Nat \ {0} /\ e \in Nat /\ M \in Nat
    BY <1>4
  <2>5. (x * M) \div K = x \div d
    BY <1>1, <1>4, <2>3, <2>4, RoundUp
  <2> QED BY <1>4, <1>5, <2>5
<1>8. CASE d > Safe
  <2> DEFINE y == x * M
  <2>1. y \in Nat /\ d * y = x * K + x * e
    <3>1. d * y = x * (M * d)
      BY <1>4
    <3> QED BY <1>1, <1>4, <3>1
  <2>2. x * e <= Safe * d - d /\ x * K <= K * Safe - K
    <3>1. x * e <= (Safe - 1) * e /\ (Safe - 1) * e <= (Safe - 1) * d
      BY <1>4
    <3>2. x * K <= (Safe - 1) * K
      BY <1>1
    <3> QED BY <1>1, <1>4, <3>1, <3>2
  <2>3. d * K >= K * Safe + K * (d - Safe) /\ K * (d - Safe) >= Safe * (d - Safe)
    <3>1. K >= Safe
      BY <1>6
    <3> QED BY <1>1, <1>8, <3>1
  <2>4. Safe * (d - Safe) = Safe * d - K
    BY <1>6
  <2>5. d * y < d * K
    <3> DEFINE A == K * Safe
               B == Safe * d
               C == x * e
               D == x * K
               E == d * K
               F == d * y
               G == K * (d - Safe)
    <3>1. A \in Int /\ B \in Int /\ C \in Int /\ D \in Int /\ E \in Int /\ F \in Int /\ G \in Int
      BY <1>1, <1>4, <2>1
    <3>2. /\ F = D + C /\ C <= B - d /\ D <= A - K
          /\ E >= A + G /\ G >= B - K
      BY <2>1, <2>2, <2>3, <2>4
    <3> HIDE DEF A, B, C, D, E, F, G
    <3>3. F < E
      BY <1>1, <3>1, <3>2
    <3> QED BY <3>3 DEF E, F
  <2>6. y < K
    BY <1>1, <2>1, <2>5
  <2>7. y \div K = 0
    BY <1>1, <2>1, <2>6, DivUnique
  <2>8. x \div d = 0
    BY <1>8, DivUnique
  <2> QED BY <1>4, <1>5, <2>7, <2>8
<1> QED BY <1>7, <1>8

(* DIVMOD gives quotient and remainder.  The three-operation form does so  *)
(* for every word; the two-operation form that mk_FASTDIV prefers when it  *)
(* is told a small bound only for operands below Safe, so the bound it was *)
(* told must cover the operands of every later use.                        *)
THEOREM DivmodExact ==
  ASSUME NEW jj \in 1..(Word - 1), NEW vIn_hi \in Nat, NEW x \in 0..(Word - 1),
         vIn_hi \in 1..(Safe - 1) => x < Safe
  PROVE  DIVMOD(mk_FASTDIV(jj, vIn_hi), jj, x) = [div |-> x \div jj, mod |-> x % jj]
<1> USE WordAssumption
<1> DEFINE f == mk_FASTDIV(jj, vIn_hi)
<1>1. FASTDIV(f, x) = x \div jj
  <2>1. CASE ThreeOps(fastdiv_make(jj)) /\ vIn_hi > 0 /\ vIn_hi <= Safe - 1
    <3>1. f = [mul |-> computeM_uB(jj), add |-> 0, shift |-> FASTDIV_CMASK + 1]
      BY <2>1 DEF mk_FASTDIV
    <3>2. x \in 0..(Safe - 1) /\ jj \in Nat \ {0}
      BY <2>1
    <3>3. /\ computeM_uB(jj) \in Nat \ {0}
          /\ (x * computeM_uB(jj)) \div (FASTDIV_CMASK + 1) = x \div jj
      BY <3>2, BoundedExact
    <3>4. x * computeM_uB(jj) + 0 = x * computeM_uB(jj)
      BY <3>3
    <3> QED BY <3>1, <3>3, <3>4 DEF FASTDIV
  <2>2. CASE ~(ThreeOps(fastdiv_make(jj)) /\ vIn_hi > 0 /\ vIn_hi <= Safe - 1)
    <3>1. f = fastdiv_make(jj)
      BY <2>2 DEF mk_FASTDIV
    <3> QED BY <3>1, FastDivExact
  <2> QED BY <2>1, <2>2
<1>2. x - (x \div jj) * jj = x % jj
  <2>1. x \in Int /\ jj \in Nat \ {0}
    OBVIOUS
  <2>2. x \div jj \in Int /\ x % jj \in 0..(jj - 1) /\ x = jj * (x \div jj) + (x % jj)
    BY <2>1, DivFacts
  <2> QED BY <2>2
<1> QED BY <1>1, <1>2 DEF DIVMOD
=============================================================================
