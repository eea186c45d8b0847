-------------------------- MODULE UnrollSuggestProofs --------------------------
(***************************************************************************)
(* Proofs about UnrollSuggest: what a loop may rely on in the suggestion   *)
(* it is given, for every vector length, number of rows and row length.    *)
(***************************************************************************)
EXTENDS UnrollSuggest, FastDivProofs, WellFoundedInduction

(* The number of calls: as many as are needed, and no more.                *)
LEMMA CeilDivFacts ==
  ASSUME NEW n \in Nat, NEW d \in Nat \ {0}
  PROVE  /\ CeilDiv(n, d) \in Nat
         /\ n <= CeilDiv(n, d) * d
         /\ CeilDiv(n, d) * d < n + d
<1> DEFINE q == (n + d - 1) \div d
           r == (n + d - 1) % d
<1>1. n + d - 1 \in Int /\ n + d - 1 >= 0
  OBVIOUS
<1>2. q \in Int /\ r \in 0..(d - 1) /\ n + d - 1 = d * q + r
  BY <1>1, DivFacts
<1>3. q >= 0
  <2>1. CASE q < 0
    <3>1. d * (q + 1) <= 0
      BY <1>2, <2>1
    <3> QED BY <1>2, <3>1
  <2> QED BY <1>2, <2>1
<1> HIDE DEF q, r
<1>4. d * q = q * d
  BY <1>2
<1>5. q \in Nat /\ n <= q * d /\ q * d < n + d
  BY <1>2, <1>3, <1>4
<1> QED BY <1>5 DEF CeilDiv, q

(* ... and so the least number: what makes n fit k vectors of length d.    *)
LEMMA CeilDivLeast ==
  ASSUME NEW n \in Nat, NEW d \in Nat \ {0}, NEW k \in Nat, n <= k * d
  PROVE  CeilDiv(n, d) <= k
<1> DEFINE q == CeilDiv(n, d)
<1>1. q \in Nat /\ q * d < n + d
  BY CeilDivFacts
<1> HIDE DEF q
<1>2. CASE q > k
  <2>1. (k + 1) * d <= q * d
    BY <1>1, <1>2
  <2> QED BY <1>1, <2>1
<1>3. q <= k
  BY <1>1, <1>2
<1> QED BY <1>3 DEF q

LEMMA CeilDivPositive ==
  ASSUME NEW n \in Nat \ {0}, NEW d \in Nat \ {0}
  PROVE  CeilDiv(n, d) \in Nat \ {0}
<1>1. CeilDiv(n, d) \in Nat /\ n <= CeilDiv(n, d) * d
  BY CeilDivFacts
<1> DEFINE q == CeilDiv(n, d)
<1> HIDE DEF q
<1>2. q \in Nat /\ n <= q * d
  BY <1>1 DEF q
<1>3. q # 0
  BY <1>2
<1> QED BY <1>2, <1>3 DEF q

(* A set of natural numbers has a least one.                              *)
LEMMA LeastOf ==
  ASSUME NEW T \in SUBSET Nat, T # {}
  PROVE  \E k \in T : \A h \in T : k <= h
<1> DEFINE R == OpToRel(<, Nat)
<1>1. IsWellFoundedOn(R, Nat)
  BY NatLessThanWellFounded
<1>2. \A x, y \in Nat : x < y => <<x, y>> \in R
  BY DEF OpToRel
<1> HIDE DEF R
<1>3. PICK k \in T : \A h \in T : ~(<<h, k>> \in R)
  BY <1>1, WFMin
<1>4. ASSUME NEW h \in T PROVE k <= h
  <2>1. h \in Nat /\ k \in Nat /\ ~(<<h, k>> \in R)
    BY <1>3
  <2>2. ~(h < k)
    BY <1>2, <2>1
  <2> QED BY <2>1, <2>2
<1> QED BY <1>4

(* Period is the least number that fits: there is one.                     *)
LEMMA PeriodFacts ==
  ASSUME NEW i \in Nat \ {0}, NEW j \in Nat \ {0}
  PROVE  Period(i, j) \in 1..j /\ (Period(i, j) * i) % j = 0
<1> DEFINE T == {k \in 1..j : (k * i) % j = 0}
<1>1. j \in T
  <2>1. (j * i) % j = 0
    <3>1. j * i \in Int
      OBVIOUS
    <3>2. /\ (j * i) \div j \in Int /\ (j * i) % j \in 0..(j - 1)
          /\ j * i = j * ((j * i) \div j) + ((j * i) % j)
      BY <3>1, DivFacts
    <3>3. (j * i) \div j = i
      BY <3>1, DivUnique
    <3> QED BY <3>2, <3>3
  <2> QED BY <2>1
<1>2. T \in SUBSET Nat /\ T # {}
  <2>1. T \subseteq 1..j
    OBVIOUS
  <2> HIDE DEF T
  <2> QED BY <1>1, <2>1
<1>3. PICK k \in T : \A h \in T : k <= h
  <2> HIDE DEF T
  <2> QED BY <1>2, LeastOf
<1>4. k \in 1..j /\ (k * i) % j = 0 /\ \A h \in 1..(k - 1) : (h * i) % j # 0
  <2>1. ASSUME NEW h \in 1..(k - 1), (h * i) % j = 0 PROVE FALSE
    <3>1. h \in T
      BY <1>3, <2>1
    <3>2. k <= h
      BY <1>3, <3>1
    <3> QED BY <1>3, <3>2
  <2> QED BY <1>3, <2>1
<1> QED BY <1>4 DEF Period

(* A multiple of c.                                                        *)
LEMMA MultipleMod ==
  ASSUME NEW q \in Int, NEW c \in Nat \ {0}
  PROVE  (q * c) % c = 0 /\ (q * c) \div c = q
<1> DEFINE m == q * c
<1>1. m \in Int /\ c * q <= m /\ m < c * q + c
  OBVIOUS
<1>2. m \div c = q
  <2> HIDE DEF m
  <2> QED BY <1>1, DivUnique
<1>3. m = c * (m \div c) + (m % c) /\ m % c \in Int
  <2> HIDE DEF m
  <2> QED BY <1>1, DivFacts
<1>4. m = c * q
  OBVIOUS
<1>5. m % c = 0
  <2>1. m = c * q + (m % c)
    BY <1>2, <1>3
  <2> HIDE DEF m
  <2> QED BY <1>1, <1>3, <1>4, <2>1
<1> QED BY <1>2, <1>5

(* The largest multiple of c up to n.                                      *)
LEMMA FloorMultiple ==
  ASSUME NEW n \in Nat, NEW c \in Nat \ {0}
  PROVE  (n \div c) * c \in 0..n /\ n \div c \in Nat
<1> DEFINE q == n \div c
<1>1. q \in Int /\ n = c * q + (n % c) /\ n % c \in 0..(c - 1)
  BY DivFacts
<1> HIDE DEF q
<1>2. q >= 0
  <2>1. CASE q < 0
    <3>1. c * (q + 1) <= 0
      BY <1>1, <2>1
    <3> QED BY <1>1, <3>1
  <2> QED BY <1>1, <2>1
<1>3. q * c \in 0..n
  <2>1. q * c \in Int /\ q * c >= 0 /\ q * c = c * q
    BY <1>1, <1>2
  <2> QED BY <1>1, <2>1
<1> QED BY <1>1, <1>2, <1>3 DEF q

(* What is suggested at vector length v: see the comments in FuseLoop.     *)
SuggestionFacts(us, v, ii, jj, bmax) ==
  /\ us.vl \in 1..v /\ us.unroll \in 0..bmax /\ us.cycle \in 0..bmax
  /\ us.vl = v \/ us.vl = ii * jj
  /\ CeilDiv(ii * jj, us.vl) = CeilDiv(ii * jj, v)
  /\ us.suggested \in {"NLOOP", "JJPOW2_NLOOP"} => us.unroll = CeilDiv(ii * jj, us.vl)
  /\ us.suggested \in {"CYC", "JJPOW2_CYC"} => us.cycle # 0 /\ us.unroll % us.cycle = 0
  /\ us.cycle # 0 => us.vl % jj # 0 /\ CeilDiv(ii * jj, us.vl) # 1
  /\ us.cycle # 0 /\ jj % us.vl = 0 => us.cycle = jj \div us.vl
  /\ us.cycle # 0 /\ jj % us.vl # 0 => \/ us.cycle = CeilDiv(ii * jj, us.vl)
                                       \/ (us.cycle * us.vl) % jj = 0

LEMMA SuggestAtLength ==
  ASSUME NEW v \in Nat \ {0}, NEW ii \in Nat \ {0}, NEW jj \in Nat \ {0},
         NEW bm \in Int \ {0}
  PROVE  SuggestionFacts(unroll_suggest(v, ii, jj, bm), v, ii, jj, IF bm < 0 THEN -bm ELSE bm)
<1> DEFINE N == ii * jj
           nl == CeilDiv(N, v)
           bmax == IF bm < 0 THEN -bm ELSE bm
           P == Period(v, jj)
           us == unroll_suggest(v, ii, jj, bm)
           reset == jj \div v
           regs == Least(nl, P)
<1>1. N \in Nat \ {0} /\ nl \in Nat \ {0} /\ bmax \in Nat \ {0}
  <2>1. N \in Nat \ {0}
    OBVIOUS
  <2> HIDE DEF N
  <2> QED BY <2>1, CeilDivPositive
<1>2. P \in 1..jj /\ (P * v) % jj = 0 /\ lcm(v, jj) \div v = P
  <2>1. P \in 1..jj /\ (P * v) % jj = 0
    BY PeriodFacts
  <2> HIDE DEF P
  <2>2. lcm(v, jj) = P * v
    BY <2>1 DEF lcm, P
  <2> QED BY <2>1, <2>2, MultipleMod
<1>3. us = IF nl = 1 THEN [suggested |-> "NLOOP1", vl |-> N, unroll |-> 0, cycle |-> 0]
           ELSE IF v % jj = 0 THEN [suggested |-> "VLMODJJ", vl |-> v, unroll |-> 0, cycle |-> 0]
           ELSE IF jj % v = 0 /\ nl <= reset
                THEN [suggested |-> "JJMODVL_NORESET", vl |-> v, unroll |-> Least(bmax, nl), cycle |-> 0]
           ELSE IF jj % v = 0
                THEN IF reset <= bmax
                     THEN [suggested |-> "JJMODVL_RESET", vl |-> v,
                           unroll |-> (bmax \div reset) * reset, cycle |-> reset]
                     ELSE [suggested |-> "JJMODVL_RESET", vl |-> v, unroll |-> bmax, cycle |-> 0]
           ELSE IF nl < bmax
                THEN IF jj \in Pow
                     THEN [suggested |-> "JJPOW2_NLOOP", vl |-> v, unroll |-> nl, cycle |-> nl]
                     ELSE [suggested |-> "NLOOP", vl |-> v, unroll |-> nl, cycle |-> 0]
           ELSE IF regs < bmax
                THEN IF jj \in Pow
                     THEN [suggested |-> "JJPOW2_CYC", vl |-> v,
                           unroll |-> (bmax \div regs) * regs, cycle |-> regs]
                     ELSE [suggested |-> "CYC", vl |-> v,
                           unroll |-> (bmax \div P) * P, cycle |-> P]
           ELSE [suggested |-> IF jj \in Pow THEN "JJPOW2_BIG" ELSE "DIVMOD", vl |-> v,
                 unroll |-> Least(bmax, nl), cycle |-> 0]
  BY <1>2 DEF unroll_suggest
<1>4. CASE nl = 1
  <2>1. N <= v
    <3>1. N <= nl * v
      BY <1>1, CeilDivFacts
    <3> HIDE DEF N, nl
    <3> QED BY <1>1, <1>4, <3>1
  <2>2. CeilDiv(N, N) = 1
    <3> HIDE DEF N
    <3>1. N <= 1 * N
      BY <1>1
    <3>2. CeilDiv(N, N) <= 1 /\ CeilDiv(N, N) \in Nat \ {0}
      BY <1>1, <3>1, CeilDivLeast, CeilDivPositive
    <3> QED BY <3>2
  <2>3. us = [suggested |-> "NLOOP1", vl |-> N, unroll |-> 0, cycle |-> 0]
    BY <1>3, <1>4
  <2>4. CeilDiv(N, v) = 1
    BY <1>4
  <2> HIDE DEF us, bmax, N
  <2> QED BY <1>1, <2>1, <2>2, <2>3, <2>4 DEF SuggestionFacts, N, us, bmax
<1>5. CASE nl # 1
  <2>1. us.vl = v /\ CeilDiv(ii * jj, us.vl) = nl
    <3>1. us.vl = v
      <4> HIDE DEF us, N, nl, bmax, P, reset, regs
      <4> QED BY <1>3, <1>5
    <3> QED BY <3>1
  <2>2. jj % v = 0 => reset \in Nat \ {0}
    <3>1. reset \in Int /\ jj = v * reset + (jj % v) /\ reset \in Nat
      BY DivFacts, FloorMultiple
    <3> HIDE DEF reset
    <3> QED BY <3>1
  <2>3. /\ jj % v = 0 => (bmax \div reset) * reset \in 0..bmax
        /\ (bmax \div P) * P \in 0..bmax /\ ((bmax \div P) * P) % P = 0
    <3>1. \A d \in Nat \ {0} : (bmax \div d) * d \in 0..bmax /\ ((bmax \div d) * d) % d = 0
      <4> TAKE d \in Nat \ {0}
      <4> HIDE DEF bmax
      <4>1. (bmax \div d) * d \in 0..bmax /\ bmax \div d \in Nat
        BY <1>1, FloorMultiple
      <4>2. bmax \div d \in Int
        BY <4>1
      <4> DEFINE q == bmax \div d
      <4> HIDE DEF q
      <4>3. (q * d) % d = 0
        BY <4>2, MultipleMod DEF q
      <4> QED BY <4>1, <4>3 DEF q
    <3>2. P \in Nat \ {0}
      BY <1>2
    <3> HIDE DEF reset, bmax, P
    <3> QED BY <2>2, <3>1, <3>2
  <2>4. Least(bmax, nl) \in 0..bmax
    <3> HIDE DEF bmax, nl
    <3> QED BY <1>1 DEF Least
  <2>5. nl >= bmax /\ regs < bmax => regs = P
    <3> HIDE DEF bmax, nl, P
    <3> QED BY <1>1, <1>2 DEF Least
  <2>6. /\ us.unroll \in 0..bmax /\ us.cycle \in 0..bmax
        /\ us.suggested \in {"NLOOP", "JJPOW2_NLOOP"} => us.unroll = nl
        /\ us.suggested \in {"CYC", "JJPOW2_CYC"} => us.cycle # 0 /\ us.unroll % us.cycle = 0
        /\ us.cycle # 0 => v % jj # 0
        /\ us.cycle # 0 /\ jj % v = 0 => us.cycle = reset
        /\ us.cycle # 0 /\ jj % v # 0 => us.cycle = nl \/ us.cycle = P
    <3> DEFINE x == (bmax \div reset) * reset
               y == (bmax \div P) * P
    <3> HIDE DEF us, N, nl, bmax, P, reset, x, y
    <3>1. us = IF v % jj = 0 THEN [suggested |-> "VLMODJJ", vl |-> v, unroll |-> 0, cycle |-> 0]
           ELSE IF jj % v = 0 /\ nl <= reset
                THEN [suggested |-> "JJMODVL_NORESET", vl |-> v, unroll |-> Least(bmax, nl), cycle |-> 0]
           ELSE IF jj % v = 0
                THEN IF reset <= bmax
                     THEN [suggested |-> "JJMODVL_RESET", vl |-> v, unroll |-> x, cycle |-> reset]
                     ELSE [suggested |-> "JJMODVL_RESET", vl |-> v, unroll |-> bmax, cycle |-> 0]
           ELSE IF nl < bmax
                THEN IF jj \in Pow
                     THEN [suggested |-> "JJPOW2_NLOOP", vl |-> v, unroll |-> nl, cycle |-> nl]
                     ELSE [suggested |-> "NLOOP", vl |-> v, unroll |-> nl, cycle |-> 0]
           ELSE IF regs < bmax
                THEN [suggested |-> IF jj \in Pow THEN "JJPOW2_CYC" ELSE "CYC", vl |-> v,
                      unroll |-> y, cycle |-> P]
           ELSE [suggested |-> IF jj \in Pow THEN "JJPOW2_BIG" ELSE "DIVMOD", vl |-> v,
                 unroll |-> Least(bmax, nl), cycle |-> 0]
      <4>1. ~(nl < bmax) => nl >= bmax
        BY <1>1
      <4> QED BY <1>3, <1>5, <2>5, <4>1 DEF x, y
    <3>2. /\ jj % v = 0 => x \in 0..bmax
          /\ y \in 0..bmax /\ y % P = 0
      BY <2>3 DEF x, y
    <3>3. P \in Nat \ {0}
      BY <1>2
    <3>4. regs < bmax /\ nl >= bmax => P < bmax
      BY <2>5
    <3>5. CASE v % jj = 0
      BY <1>1, <3>1, <3>5
    <3>6. CASE v % jj # 0 /\ jj % v = 0
      BY <1>1, <2>2, <2>4, <3>1, <3>2, <3>6
    <3>7. CASE v % jj # 0 /\ jj % v # 0 /\ nl < bmax
      BY <1>1, <3>1, <3>7
    <3>8. CASE v % jj # 0 /\ jj % v # 0 /\ nl >= bmax
      <4>1. CASE regs < bmax
        <5>1. P \in 0..bmax /\ P # 0
          BY <1>1, <3>3, <3>4, <3>8, <4>1
        <5>2. us = [suggested |-> IF jj \in Pow THEN "JJPOW2_CYC" ELSE "CYC", vl |-> v,
                    unroll |-> y, cycle |-> P]
          BY <1>1, <3>1, <3>8, <4>1
        <5> QED BY <3>2, <3>8, <5>1, <5>2
      <4>2. CASE ~(regs < bmax)
        <5>1. us = [suggested |-> IF jj \in Pow THEN "JJPOW2_BIG" ELSE "DIVMOD", vl |-> v,
                    unroll |-> Least(bmax, nl), cycle |-> 0]
          BY <1>1, <3>1, <3>8, <4>2
        <5> QED BY <1>1, <2>4, <5>1
      <4> QED BY <4>1, <4>2
    <3>9. nl \in Nat /\ bmax \in Nat
      BY <1>1
    <3> QED BY <3>5, <3>6, <3>7, <3>8, <3>9
  <2> HIDE DEF us, nl, bmax, P
  <2>7. us.vl \in 1..v
    BY <2>1
  <2>8. CeilDiv(ii * jj, v) = nl
    BY DEF nl, N
  <2>9. us.cycle # 0 /\ jj % v # 0 => us.cycle = nl \/ (us.cycle * v) % jj = 0
    BY <1>2, <2>6
  <2>10. SuggestionFacts(us, v, ii, jj, bmax)
    BY <1>5, <2>1, <2>6, <2>7, <2>8, <2>9 DEF SuggestionFacts
  <2> QED BY <2>10 DEF us, bmax
<1> QED BY <1>4, <1>5

-----------------------------------------------------------------------------
(* Vector lengths between the even one and the longest need as many calls  *)
(* as the longest.                                                         *)
LEMMA EvenlyFacts ==
  ASSUME NEW n \in Nat \ {0}
  PROVE  /\ Evenly(n) \in 1..MVL
         /\ \A w \in Evenly(n)..MVL : CeilDiv(n, w) = CeilDiv(n, MVL)
<1> USE LengthAssumption
<1> DEFINE C == CeilDiv(n, MVL)
           E == CeilDiv(n, C)
<1>1. C \in Nat \ {0} /\ n <= C * MVL
  BY CeilDivFacts, CeilDivPositive
<1>2. E \in Nat \ {0} /\ n <= E * C
  <2> HIDE DEF C
  <2> QED BY <1>1, CeilDivFacts, CeilDivPositive
<1>3. E <= MVL
  <2> HIDE DEF C
  <2>1. n <= MVL * C
    BY <1>1
  <2> QED BY <1>1, <2>1, CeilDivLeast
<1>4. Evenly(n) = E
  BY DEF Evenly
<1> HIDE DEF E
<1>5. ASSUME NEW w \in E..MVL PROVE CeilDiv(n, w) = C
  <2> HIDE DEF C
  <2>1. w \in Nat \ {0} /\ E <= w /\ w <= MVL
    BY <1>2
  <2> DEFINE D == CeilDiv(n, w)
  <2>2. D \in Nat \ {0} /\ n <= D * w
    BY <2>1, CeilDivFacts, CeilDivPositive
  <2>3. D <= C
    <3>1. E * C <= C * w
      BY <1>1, <1>2, <2>1
    <3>2. n <= C * w
      BY <1>1, <1>2, <2>1, <3>1
    <3> HIDE DEF D
    <3> QED BY <1>1, <2>1, <3>2, CeilDivLeast DEF D
  <2>4. C <= D
    <3> HIDE DEF D
    <3>1. D * w <= D * MVL
      BY <2>1, <2>2
    <3>2. n <= D * MVL
      BY <2>1, <2>2, <3>1
    <3> QED BY <2>2, <3>2, CeilDivLeast DEF C
  <2> HIDE DEF D
  <2> QED BY <1>1, <2>2, <2>3, <2>4 DEF D
<1> QED BY <1>2, <1>3, <1>4, <1>5 DEF C

(* Spreading the work evenly never costs a call (fuseloop.cpp:92, 155:     *)
(* "if we somehow increased loop count, this logic has a bug"), and never  *)
(* asks for a vector longer than the longest.                              *)
THEOREM SpreadingKeepsCalls ==
  ASSUME NEW n \in Nat \ {0}
  PROVE  /\ ve_vlen_suggest_equ(n) \in 1..MVL
         /\ ve_vlen_suggest(n) \in 1..MVL
         /\ CeilDiv(n, ve_vlen_suggest_equ(n)) = CeilDiv(n, MVL)
         /\ CeilDiv(n, ve_vlen_suggest(n)) = CeilDiv(n, MVL)
<1> USE LengthAssumption
<1> DEFINE E == Evenly(n)
           C == CeilDiv(n, MVL)
<1>1. E \in 1..MVL /\ \A w \in E..MVL : CeilDiv(n, w) = C
  BY EvenlyFacts
<1>2. C \in Nat \ {0}
  BY CeilDivPositive
<1>3. n <= MVL => n \in E..MVL
  <2> SUFFICES ASSUME n <= MVL PROVE E <= n
    BY <1>1
  <2>1. C = 1
    <3>1. n <= 1 * MVL
      OBVIOUS
    <3>2. C <= 1
      BY <3>1, CeilDivLeast
    <3> HIDE DEF C
    <3> QED BY <1>2, <3>2
  <2>2. E = CeilDiv(n, 1)
    BY <2>1 DEF Evenly
  <2>3. n <= n * 1
    OBVIOUS
  <2> QED BY <2>2, <2>3, CeilDivLeast
<1>4. n % C = 0 => n \div C \in E..MVL
  <2> SUFFICES ASSUME n % C = 0 PROVE n \div C \in E..MVL
    OBVIOUS
  <2> DEFINE q == n \div C
  <2>0. n <= C * MVL
    BY CeilDivFacts
  <2>4. E = CeilDiv(n, C)
    BY DEF Evenly
  <2> HIDE DEF C
  <2>1. q \in Nat /\ n = C * q
    BY <1>2, DivFacts, FloorMultiple
  <2> HIDE DEF q
  <2>2. q <= MVL
    <3>1. CASE q > MVL
      <4>1. C * (MVL + 1) <= C * q
        BY <1>2, <2>1, <3>1
      <4> QED BY <1>2, <2>0, <2>1, <4>1
    <3> QED BY <2>1, <3>1
  <2>3. n <= q * C
    BY <1>2, <2>1
  <2>5. E <= q
    BY <1>2, <2>1, <2>3, <2>4, CeilDivLeast
  <2> HIDE DEF E
  <2> QED BY <1>1, <2>1, <2>2, <2>5 DEF q
<1>5. RoundUpTo(E, Align) \in E..MVL
  <2> HIDE DEF E
  <2> DEFINE k == CeilDiv(E, Align)
             m == MVL \div Align
  <2>1. k \in Nat /\ E <= k * Align
    BY <1>1, CeilDivFacts
  <2>2. m \in Nat /\ MVL = Align * m
    BY DivFacts, FloorMultiple
  <2>3. k <= m
    <3> HIDE DEF m
    <3>1. E <= m * Align
      BY <1>1, <2>2
    <3> QED BY <1>1, <2>2, <3>1, CeilDivLeast
  <2> HIDE DEF k, m
  <2>4. k * Align <= m * Align
    BY <2>1, <2>2, <2>3
  <2>5. k * Align \in E..MVL
    BY <1>1, <2>1, <2>2, <2>4
  <2> QED BY <2>5 DEF RoundUpTo, k
<1> HIDE DEF E, C
<1>6. ve_vlen_suggest_equ(n) \in E..MVL
  BY <1>1, <1>3 DEF ve_vlen_suggest_equ, E
<1>7. ve_vlen_suggest(n) \in E..MVL
  BY <1>1, <1>3, <1>4, <1>5 DEF ve_vlen_suggest, E, C
<1> QED BY <1>1, <1>6, <1>7 DEF C

-----------------------------------------------------------------------------
(* Whatever alternative is taken, it is the suggestion at some length up   *)
(* to the one that was asked for; below the longest vector it adds at most *)
(* 5% to the calls, rounded up.                                            *)
LEMMA ScannedFacts ==
  ASSUME NEW N \in Nat \ {0}, NEW M \in 1..MVL, NEW uvl \in 1..M, NEW vll \in Int,
         uvl = M \/ uvl = N, CeilDiv(N, uvl) = CeilDiv(N, M),
         vl_min(uvl, N) <= vll, vll <= vl_max(uvl)
  PROVE  /\ vll \in 1..M
         /\ M = MVL => 100 * CeilDiv(N, vll) <= 105 * CeilDiv(N, MVL) + 99
<1> USE LengthAssumption
<1> DEFINE C == CeilDiv(N, MVL)
           X == 105 * C + 99
           K == X \div 100
<1>0. C \in Nat \ {0}
  BY CeilDivPositive
<1>1. K \in Nat \ {0} /\ 100 * K <= 105 * C + 99
  <2> HIDE DEF C
  <2>1. X \in Int /\ X >= 204
    BY <1>0
  <2> DEFINE d == 100
  <2>2. K = X \div d /\ d = 100
    OBVIOUS
  <2>3. X \in Int /\ d \in Nat \ {0}
    BY <2>1
  <2> HIDE DEF K, X, d
  <2>4. X \div d \in Int /\ X = d * (X \div d) + (X % d) /\ X % d \in 0..(d - 1)
    BY <2>3, DivFacts
  <2>5. K \in Nat \ {0} /\ 100 * K <= X
    BY <2>1, <2>2, <2>4
  <2> QED BY <2>5 DEF X
<1>2. CASE uvl = MVL
  <2>1. vl_min(uvl, N) = CeilDiv(N, K)
    BY <1>2 DEF vl_min
  <2> HIDE DEF K
  <2> DEFINE w == CeilDiv(N, K)
  <2>2. w \in Nat \ {0} /\ N <= w * K
    BY <1>1, CeilDivFacts, CeilDivPositive
  <2> HIDE DEF w
  <2>3. w <= vll /\ vll \in Nat \ {0}
    BY <2>1, <2>2 DEF w
  <2>4. vll <= M
    BY <2>3 DEF vl_max, Most
  <2>5. w * K <= K * vll
    BY <1>1, <2>2, <2>3
  <2>6. N <= K * vll
    BY <1>1, <2>2, <2>3, <2>5
  <2>7. CeilDiv(N, vll) <= K /\ CeilDiv(N, vll) \in Nat
    BY <1>1, <2>3, <2>6, CeilDivLeast, CeilDivFacts
  <2> DEFINE D == CeilDiv(N, vll)
  <2>8. D <= K /\ D \in Nat
    BY <2>7
  <2> HIDE DEF D, C
  <2>9. 100 * D <= 105 * C + 99
    BY <1>0, <1>1, <2>8
  <2> QED BY <2>3, <2>4, <2>9 DEF D, C
<1>3. CASE uvl # MVL
  <2> DEFINE h == (7 * uvl) \div 8
  <2>1. h \in Int /\ 7 * uvl <= 8 * h + 7
    <3> DEFINE s == 7 * uvl
               d == 8
    <3>1. s \in Int /\ d \in Nat \ {0}
      OBVIOUS
    <3>2. h = s \div d /\ d = 8
      OBVIOUS
    <3> HIDE DEF d, s, h
    <3>3. s = d * (s \div d) + (s % d) /\ s \div d \in Int /\ s % d \in 0..(d - 1)
      BY <3>1, DivFacts
    <3>4. h \in Int /\ s <= 8 * h + 7
      BY <3>1, <3>2, <3>3
    <3> QED BY <3>4 DEF s
  <2>2. vl_min(uvl, N) = Most(1, h)
    BY <1>3 DEF vl_min
  <2> HIDE DEF h
  <2>3. vll >= 1 /\ vll >= h /\ vll <= M
    BY <2>1, <2>2 DEF vl_max, Most
  <2>4. M = MVL => uvl = N /\ N < MVL
    BY <1>3
  <2>5. M = MVL => N <= 2 * vll
    <3>1. CASE uvl = 1
      BY <2>3, <2>4, <3>1
    <3>2. CASE uvl > 1
      BY <2>1, <2>3, <2>4, <3>2
    <3> QED BY <3>1, <3>2
  <2>6. M = MVL => CeilDiv(N, vll) <= 2
    BY <2>3, <2>5, CeilDivLeast
  <2>7. CeilDiv(N, vll) \in Nat
    <3>1. vll \in Nat \ {0}
      BY <2>3
    <3> QED BY <3>1, CeilDivFacts
  <2> DEFINE D == CeilDiv(N, vll)
  <2> HIDE DEF D, C
  <2>8. M = MVL => 100 * D <= 105 * C + 99
    BY <1>0, <2>6, <2>7 DEF D
  <2> QED BY <2>3, <2>8 DEF D, C
<1> QED BY <1>2, <1>3

LEMMA UnrollAtSomeLength ==
  ASSUME NEW vl0 \in Int, NEW ii \in Nat \ {0}, NEW jj \in Nat \ {0},
         NEW bm \in Int \ {0}, NEW us \in vl_unroll(vl0, ii, jj, bm),
         MaxLength(vl0) <= MVL
  PROVE  \E v \in 1..MaxLength(vl0) :
           /\ us = unroll_suggest(v, ii, jj, bm)
           /\ MaxLength(vl0) = MVL =>
                100 * CeilDiv(ii * jj, v) <= 105 * CeilDiv(ii * jj, MVL) + 99
<1> USE LengthAssumption
<1> DEFINE N == ii * jj
           M == MaxLength(vl0)
           u == unroll_suggest(M, ii, jj, bm)
           Good(v) == 100 * CeilDiv(N, v) <= 105 * CeilDiv(N, MVL) + 99
<1>1. N \in Nat \ {0} /\ M \in 1..MVL
  BY DEF MaxLength
<1>2. Good(MVL)
  <2> HIDE DEF N
  <2>1. CeilDiv(N, MVL) \in Nat
    BY <1>1, CeilDivFacts
  <2> QED BY <2>1
<1>3. u.vl \in 1..M /\ (u.vl = M \/ u.vl = N) /\ CeilDiv(N, u.vl) = CeilDiv(N, M)
  <2>1. M \in Nat \ {0}
    BY <1>1
  <2> DEFINE bmax == IF bm < 0 THEN -bm ELSE bm
  <2> HIDE DEF M
  <2>2. SuggestionFacts(u, M, ii, jj, bmax)
    BY <2>1, SuggestAtLength
  <2> HIDE DEF u, bmax
  <2> QED BY <2>2 DEF SuggestionFacts
<1>4. us = u \/ us \in Alternatives(u, ii, jj, bm)
  BY DEF vl_unroll
<1>5. us \in Scanned(u, ii, jj, bm) =>
        \E vll \in vl_min(u.vl, N)..vl_max(u.vl) : us = unroll_suggest(vll, ii, jj, bm)
  BY DEF Scanned
<1>6. us \in Balanced(u, ii, jj, bm) =>
        \/ us = u
        \/ /\ u.vl = MVL
           /\ \E w \in {ve_vlen_suggest(N), ve_vlen_suggest_equ(N)} :
                w <= vl_max(u.vl) /\ us = unroll_suggest(w, ii, jj, bm)
  BY DEF Balanced
<1> HIDE DEF N, M, u
<1>7. CASE us = u
  BY <1>1, <1>2, <1>7 DEF u, M, N
<1>8. CASE us \in Scanned(u, ii, jj, bm)
  <2>1. PICK vll \in vl_min(u.vl, N)..vl_max(u.vl) : us = unroll_suggest(vll, ii, jj, bm)
    BY <1>5, <1>8
  <2>2. vll \in Int /\ vl_min(u.vl, N) <= vll /\ vll <= vl_max(u.vl)
    OBVIOUS
  <2>3. vll \in 1..M /\ (M = MVL => Good(vll))
    BY <1>1, <1>3, <2>2, ScannedFacts
  <2> QED BY <2>1, <2>3 DEF M, N
<1>9. CASE us \in Balanced(u, ii, jj, bm) /\ us # u
  <2>1. PICK w \in {ve_vlen_suggest(N), ve_vlen_suggest_equ(N)} :
          w <= vl_max(u.vl) /\ us = unroll_suggest(w, ii, jj, bm)
    BY <1>6, <1>9
  <2>2. u.vl = MVL /\ M = MVL
    BY <1>1, <1>3, <1>6, <1>9
  <2>3. w \in 1..MVL /\ CeilDiv(N, w) = CeilDiv(N, MVL)
    BY <1>1, SpreadingKeepsCalls
  <2>4. Good(w)
    BY <1>2, <2>3
  <2> QED BY <2>1, <2>2, <2>3, <2>4 DEF M, N
<1> QED BY <1>4, <1>7, <1>8, <1>9 DEF Alternatives
=============================================================================
