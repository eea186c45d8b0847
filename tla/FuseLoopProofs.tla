----------------------------- MODULE FuseLoopProofs -----------------------------
(***************************************************************************)
(* Proofs about FuseLoop, for every job, vector length and unrolling.      *)
(***************************************************************************)
EXTENDS FuseLoop, UnrollSuggestProofs

\* what vl_unroll may return
Suggestions == UNION {vl_unroll(w.v, w.i, w.j, w.m) : w \in [v : Int, i : Nat, j : Nat, m : Int]}

LoopType == [ilo : Nat, ii : Nat \ {0}, vl0 : Nat \ {0}, unroll : Nat \ {0}, cyc : Nat,
             sugg : Suggestions]

(* What is asked for.                                                      *)
LEMMA JobFacts ==
  ASSUME job \in Jobs
  PROVE  /\ jj \in Nat \ {0} /\ job.z \in Nat /\ job.end \in Nat /\ job.z < job.end
         /\ job.lo \in Nat /\ job.hi \in Nat /\ job.z <= job.lo /\ job.lo <= job.hi /\ job.hi <= job.end
         /\ job.vlen \in Int /\ job.maxun \in Nat /\ MaxLength(job.vlen) \in 1..MVL
         /\ job.end * jj + MVL < Safe /\ jj < Word /\ MVL \in Nat \ {0} /\ Safe \in Nat \ {0} /\ Word \in Nat \ {0}
         /\ Safe <= Word
<1> USE LengthAssumption, WordAssumption
<1>1. /\ job \in [z : Nat, lo : Nat, hi : Nat, end : Nat, jj : Nat \ {0}, vlen : Int, maxun : Nat]
      /\ job.z <= job.lo /\ job.lo <= job.hi /\ job.hi <= job.end /\ job.z < job.end
      /\ MaxLength(job.vlen) <= MVL /\ job.end * job.jj + MVL < Safe
  BY JobAssumption
<1>2. MaxLength(job.vlen) \in 1..MVL
  BY <1>1 DEF MaxLength
<1>3. job.jj < Safe
  <2> DEFINE e == job.end
             j == job.jj
  <2>1. e \in Nat \ {0} /\ j \in Nat \ {0} /\ e * j + MVL < Safe
    BY <1>1
  <2> HIDE DEF e, j
  <2>2. j <= e * j
    BY <2>1
  <2>3. e * j \in Nat
    BY <2>1
  <2> QED BY <2>1, <2>2, <2>3 DEF j
<1> QED BY <1>1, <1>2, <1>3, SafeAssumption DEF jj

(* Any number of copies will do: the one that is taken is in range.        *)
LEMMA AnyUnrollFacts ==
  ASSUME NEW n \in Nat \ {0}, NEW mu \in Nat \ {0}
  PROVE  AnyUnroll(n, mu) \in 1..mu
<1>1. CASE n < 4
  BY <1>1 DEF AnyUnroll, Least
<1>2. CASE n >= 4 /\ n % mu = 0
  BY <1>2 DEF AnyUnroll
<1>3. CASE n >= 4 /\ n % mu # 0
  <2> DEFINE T == {w \in 1..mu : n \div w = n \div mu}
  <2>1. T \in SUBSET Nat /\ T # {}
    <3>1. mu \in T
      OBVIOUS
    <3>2. T \subseteq 1..mu
      OBVIOUS
    <3> HIDE DEF T
    <3> QED BY <3>1, <3>2
  <2>2. PICK k \in T : \A h \in T : k <= h
    <3> HIDE DEF T
    <3> QED BY <2>1, LeastOf
  <2>3. k \in 1..mu /\ n \div k = n \div mu
    BY <2>2
  <2>4. ASSUME NEW v \in 1..(k - 1) PROVE n \div v # n \div mu
    <3>1. v \in 1..mu /\ v < k
      BY <2>3
    <3>2. v \notin T
      <4> HIDE DEF T
      <4> QED BY <2>1, <2>2, <3>1
    <3> QED BY <3>1, <3>2
  <2>5. AnyUnroll(n, mu) = CHOOSE un \in 1..mu :
             n \div un = n \div mu /\ \A v \in 1..(un - 1) : n \div v # n \div mu
    BY <1>3 DEF AnyUnroll
  <2> QED BY <2>3, <2>4, <2>5
<1> QED BY <1>1, <1>2, <1>3

(* What is suggested for a part of the range makes a loop that keeps what   *)
(* the generator asserts of it.                                            *)
LEMMA LoopSound ==
  ASSUME NEW lo \in Nat, NEW hi \in Nat,
         NEW us \in vl_unroll(job.vlen, hi - lo, jj, b_period_max),
         job \in Jobs, lo < hi
  PROVE  LET l == Loop(lo, hi, us)
         IN  /\ l \in LoopType /\ l.ilo = lo /\ l.ii = hi - lo
             /\ LengthSound(l) /\ UnrollSound(l) /\ CycleSound(l)
<1> DEFINE rows == hi - lo
           N == rows * jj
           M == MaxLength(job.vlen)
           bmax == IF b_period_max < 0 THEN -b_period_max ELSE b_period_max
           n == CeilDiv(N, us.vl)
           l == Loop(lo, hi, us)
<1>1. jj \in Nat \ {0} /\ job.vlen \in Int /\ job.maxun \in Nat /\ M \in 1..MVL /\ MVL \in Nat
  BY JobFacts
<1>2. rows \in Nat \ {0} /\ N \in Nat \ {0}
  <2>1. rows \in Nat \ {0}
    OBVIOUS
  <2> HIDE DEF rows
  <2> QED BY <1>1, <2>1
<1>3. b_period_max \in Int \ {0} /\ bmax \in Nat \ {0} /\ (job.maxun > 0 => bmax = job.maxun)
  BY <1>1 DEF b_period_max
<1>4. PICK v \in 1..M : /\ us = unroll_suggest(v, rows, jj, b_period_max)
                        /\ M = MVL => 100 * CeilDiv(N, v) <= 105 * CeilDiv(N, MVL) + 99
  <2> HIDE DEF rows
  <2>1. us \in vl_unroll(job.vlen, rows, jj, b_period_max)
    BY DEF rows
  <2>2. MaxLength(job.vlen) <= MVL
    BY <1>1
  <2> QED BY <1>1, <1>2, <1>3, <2>1, <2>2, UnrollAtSomeLength
<1>5. SuggestionFacts(us, v, rows, jj, bmax)
  <2>1. v \in Nat \ {0}
    BY <1>1, <1>4
  <2> HIDE DEF rows
  <2> QED BY <1>1, <1>2, <1>3, <1>4, <2>1, SuggestAtLength
<1>6. us.vl \in 1..v /\ us.vl \in Nat \ {0} /\ n = CeilDiv(N, v) /\ n \in Nat \ {0}
  <2>1. us.vl \in 1..v /\ CeilDiv(N, us.vl) = CeilDiv(N, v)
    BY <1>5 DEF SuggestionFacts
  <2>2. us.vl \in Nat \ {0}
    BY <1>1, <1>4, <2>1
  <2> HIDE DEF N
  <2> QED BY <1>2, <2>1, <2>2, CeilDivPositive
<1>7. /\ us.unroll \in 0..bmax /\ us.cycle \in 0..bmax
      /\ us.suggested \in {"NLOOP", "JJPOW2_NLOOP"} => us.unroll = n
      /\ us.suggested \in {"CYC", "JJPOW2_CYC"} => us.cycle # 0 /\ us.unroll % us.cycle = 0
      /\ us.cycle # 0 => us.vl % jj # 0 /\ n # 1
      /\ us.cycle # 0 /\ jj % us.vl = 0 => us.cycle = jj \div us.vl
      /\ us.cycle # 0 /\ jj % us.vl # 0 => us.cycle = n \/ (us.cycle * us.vl) % jj = 0
  BY <1>5 DEF SuggestionFacts
<1>8. /\ l.ilo = lo /\ l.ii = rows /\ l.vl0 = us.vl /\ l.unroll = Copies(us, n) /\ l.sugg = us
      /\ l.cyc = IF job.maxun = 0 THEN 0 ELSE us.cycle
      /\ iijj(l) = N /\ nloop(l) = n
  BY DEF Loop, iijj, nloop
<1>9. Copies(us, n) \in 1..n /\ (job.maxun > 0 => Copies(us, n) <= job.maxun)
  <2> HIDE DEF n, bmax
  <2>1. CASE job.maxun = 0
    BY <1>1, <1>6, <2>1 DEF Copies
  <2>2. CASE job.maxun # 0
    <3>1. AnyUnroll(n, job.maxun) \in 1..job.maxun
      BY <1>1, <1>6, <2>2, AnyUnrollFacts
    <3> QED BY <1>1, <1>3, <1>6, <1>7, <2>2, <3>1 DEF Copies, Least
  <2> QED BY <2>1, <2>2
<1>10. l.cyc \in 0..job.maxun /\ l.cyc \in Nat /\ (l.cyc # 0 => l.cyc = us.cycle)
  <2> HIDE DEF l, bmax
  <2> QED BY <1>1, <1>3, <1>7, <1>8
<1>11. l \in LoopType
  <2>1. us \in Suggestions
    <3> DEFINE w == [v |-> job.vlen, i |-> rows, j |-> jj, m |-> b_period_max]
    <3>1. w \in [v : Int, i : Nat, j : Nat, m : Int]
      BY <1>1, <1>2, <1>3
    <3>2. us \in vl_unroll(w.v, w.i, w.j, w.m)
      OBVIOUS
    <3> QED BY <3>1, <3>2 DEF Suggestions
  <2>2. l.unroll \in Nat \ {0} /\ l.ii \in Nat \ {0} /\ l.vl0 \in Nat \ {0}
    <3> HIDE DEF l, n, rows
    <3> QED BY <1>2, <1>6, <1>8, <1>9
  <2>3. l = [ilo |-> l.ilo, ii |-> l.ii, vl0 |-> l.vl0, unroll |-> l.unroll, cyc |-> l.cyc, sugg |-> l.sugg]
    BY DEF Loop
  <2> HIDE DEF l
  <2> QED BY <1>8, <1>10, <2>1, <2>2, <2>3 DEF LoopType
<1>12. LengthSound(l)
  <2> HIDE DEF l, n, N, rows
  <2>1. l.vl0 \in 1..M
    BY <1>1, <1>4, <1>6, <1>8
  <2>2. M = MVL => 100 * nloop(l) <= 105 * CeilDiv(iijj(l), MVL) + 99
    BY <1>4, <1>6, <1>8
  <2> QED BY <2>1, <2>2 DEF LengthSound
<1>13. UnrollSound(l)
  <2> HIDE DEF l, n
  <2> QED BY <1>7, <1>8, <1>9 DEF UnrollSound
<1>14. CycleSound(l)
  <2> HIDE DEF l, n, N, rows, bmax
  <2> DEFINE x == l.vl0
             c == l.cyc
  <2>1. l.sugg.suggested \in {"CYC", "JJPOW2_CYC"} => l.sugg.unroll % l.sugg.cycle = 0
    BY <1>7, <1>8
  <2>2. c \in Nat /\ x \in Nat \ {0} /\ (c # 0 => x % jj # 0 /\ n # 1)
        /\ (c # 0 /\ jj % x = 0 => c = jj \div x)
        /\ (c # 0 /\ jj % x # 0 => c = n \/ (c * x) % jj = 0)
    BY <1>6, <1>7, <1>8, <1>10
  <2>3. ASSUME cycpre(l) PROVE ~fp_sets_ab(l) /\ jj > 1 /\ (c = nloop(l) \/ cyc_aincr(l) * jj = c * x)
    <3>1. c > 0 /\ jj <= x
      BY <2>3 DEF cycpre
    <3> HIDE DEF c, x
    <3>2. x % jj # 0 /\ n # 1
      BY <2>2, <3>1
    <3>3. x \in Int /\ jj \in Nat \ {0}
      BY <1>1, <2>2
    <3>4. x \div jj \in Int /\ x % jj \in 0..(jj - 1) /\ x = jj * (x \div jj) + (x % jj)
      BY <3>3, DivFacts
    <3>5. jj > 1
      BY <1>1, <3>2, <3>4
    <3>6. jj % x # 0
      <4>1. SUFFICES ASSUME jj % x = 0 PROVE FALSE
        OBVIOUS
      <4>2. jj \in Int /\ x \in Nat \ {0}
        BY <1>1, <2>2
      <4>3. jj \div x \in Int /\ jj = x * (jj \div x) + (jj % x)
        BY <4>2, DivFacts
      <4> DEFINE y == jj \div x
      <4>4. y \in Int /\ jj = x * y
        BY <4>1, <4>2, <4>3
      <4> HIDE DEF y
      <4>5. y >= 1
        <5>1. CASE y <= 0
          <6>1. x * y <= 0
            BY <4>2, <4>4, <5>1
          <6> QED BY <1>1, <4>4, <6>1
        <5> QED BY <4>4, <5>1
      <4>6. x * y >= x
        BY <4>2, <4>4, <4>5
      <4>7. jj = x
        BY <1>1, <3>1, <4>2, <4>4, <4>6
      <4>8. x % jj = 0
        <5>1. (1 * x) % x = 0
          BY <4>2, MultipleMod
        <5> QED BY <4>2, <4>7, <5>1
      <4> QED BY <3>2, <4>8
    <3>7. c = n \/ (c * x) % jj = 0
      BY <2>2, <3>1, <3>6
    <3>8. c = n \/ ((c * x) \div jj) * jj = c * x
      <4> DEFINE y == c * x
      <4>1. y \in Int /\ jj \in Nat \ {0}
        BY <1>1, <2>2
      <4> HIDE DEF y
      <4>2. y \div jj \in Int /\ y = jj * (y \div jj) + (y % jj)
        BY <4>1, DivFacts
      <4>3. y % jj = 0 => (y \div jj) * jj = y
        BY <4>1, <4>2
      <4> QED BY <3>7, <4>3 DEF y
    <3>9. ~fp_sets_ab(l)
      BY <1>1, <1>8, <2>2, <3>1, <3>2 DEF fp_sets_ab, x
    <3> QED BY <1>8, <3>5, <3>8, <3>9 DEF cyc_aincr, c, x
  <2>4. c > 0 /\ x % jj # 0 /\ jj % x = 0 => c = period(l)
    BY <2>2 DEF period
  <2> QED BY <1>10, <2>1, <2>3, <2>4 DEF CycleSound
<1> HIDE DEF l
<1> QED BY <1>8, <1>11, <1>12, <1>13, <1>14 DEF l

-----------------------------------------------------------------------------
(* Generating the loops.                                                   *)

GenInv == job \in Jobs /\ loops \in Seq(LoopType) /\ SuggestionSound

LEMMA FromFacts ==
  ASSUME GenInv
  PROVE  From \in Nat /\ From <= job.end
<1>1. loops \in Seq(LoopType) /\ Len(loops) \in Nat /\ DOMAIN loops = 1..Len(loops)
  BY DEF GenInv
<1>2. job.z \in Nat /\ job.z < job.end /\ job.end \in Nat
  BY JobFacts DEF GenInv
<1>3. CASE loops = <<>>
  BY <1>2, <1>3 DEF From
<1>4. CASE loops # <<>>
  <2>1. Len(loops) \in DOMAIN loops
    BY <1>1, <1>4
  <2>2. loops[Len(loops)] \in LoopType
    BY <1>1, <2>1
  <2>3. loops[Len(loops)].ilo + loops[Len(loops)].ii <= job.end
    BY <2>1 DEF GenInv, SuggestionSound, Tiles
  <2> QED BY <1>2, <1>4, <2>2, <2>3 DEF From, LoopType
<1> QED BY <1>3, <1>4

LEMMA GenerateKeepsSound ==
  ASSUME GenInv, Generate
  PROVE  GenInv'
<1>0. job \in Jobs /\ loops \in Seq(LoopType) /\ job' = job /\ From \in Nat /\ From < job.end
  BY FromFacts DEF GenInv, Generate
<1>1. PICK ihi \in {job.lo, job.hi, job.end} : /\ ihi > From
        /\ \E us \in vl_unroll(job.vlen, ihi - From, jj, b_period_max) :
             loops' = Append(loops, Loop(From, ihi, us))
  BY DEF Generate
<1>2. PICK us \in vl_unroll(job.vlen, ihi - From, jj, b_period_max) :
        loops' = Append(loops, Loop(From, ihi, us))
  BY <1>1
<1> DEFINE l == Loop(From, ihi, us)
           n == Len(loops)
<1>3. ihi \in Nat /\ From < ihi /\ ihi <= job.end
  <2>1. /\ job.lo \in Nat /\ job.hi \in Nat /\ job.end \in Nat
        /\ job.lo <= job.hi /\ job.hi <= job.end
    BY <1>0, JobFacts
  <2>2. ihi = job.lo \/ ihi = job.hi \/ ihi = job.end
    BY <1>1
  <2>3. ihi > From
    BY <1>1
  <2> HIDE DEF l, n
  <2> QED BY <1>0, <2>1, <2>2, <2>3
<1>4. /\ l \in LoopType /\ l.ilo = From /\ l.ii = ihi - From
      /\ LengthSound(l) /\ UnrollSound(l) /\ CycleSound(l)
  BY <1>0, <1>3, LoopSound
<1> HIDE DEF l
<1>5. /\ loops' = Append(loops, l) /\ loops' \in Seq(LoopType) /\ n \in Nat
      /\ DOMAIN loops = 1..n /\ DOMAIN loops' = 1..(n + 1)
      /\ \A i \in 1..n : loops'[i] = loops[i]
      /\ loops'[n + 1] = l
  BY <1>0, <1>2, <1>4 DEF l
<1>6. Tiles'
  <2> SUFFICES ASSUME NEW i \in 1..(n + 1)
               PROVE  /\ loops'[i].ii > 0
                      /\ loops'[i].ilo = IF i = 1 THEN job.z ELSE loops'[i - 1].ilo + loops'[i - 1].ii
                      /\ loops'[i].ilo + loops'[i].ii <= job.end
    BY <1>0, <1>5 DEF Tiles
  <2>1. CASE i \in 1..n
    <3>1. i # 1 => loops'[i - 1] = loops[i - 1]
      BY <1>5, <2>1
    <3>2. /\ loops[i].ii > 0
          /\ loops[i].ilo = IF i = 1 THEN job.z ELSE loops[i - 1].ilo + loops[i - 1].ii
          /\ loops[i].ilo + loops[i].ii <= job.end
      BY <1>5, <2>1 DEF GenInv, SuggestionSound, Tiles
    <3> QED BY <1>5, <2>1, <3>1, <3>2
  <2>2. CASE i = n + 1
    <3>1. l.ii > 0 /\ l.ilo + l.ii <= job.end
      BY <1>0, <1>3, <1>4
    <3>2. l.ilo = IF n = 0 THEN job.z ELSE loops[n].ilo + loops[n].ii
      <4>1. loops = <<>> <=> n = 0
        BY <1>0, <1>5
      <4> QED BY <1>4, <4>1 DEF From
    <3>3. n # 0 => n \in 1..n /\ n + 1 # 1 /\ (n + 1) - 1 = n
      <4> HIDE DEF n
      <4> QED BY <1>5
    <3>4. n = 0 => n + 1 = 1
      OBVIOUS
    <3>5. n # 0 => loops'[(n + 1) - 1] = loops[n]
      BY <1>5, <3>3
    <3> HIDE DEF n
    <3> QED BY <1>5, <2>2, <3>1, <3>2, <3>3, <3>4, <3>5
  <2> QED BY <1>5, <2>1, <2>2
<1>7. ASSUME NEW i \in 1..(n + 1)
      PROVE  LengthSound(loops'[i]) /\ UnrollSound(loops'[i]) /\ CycleSound(loops'[i])
  <2>1. CASE i \in 1..n
    BY <1>5, <2>1 DEF GenInv, SuggestionSound
  <2>2. CASE i = n + 1
    BY <1>4, <1>5, <2>2
  <2> QED BY <1>5, <2>1, <2>2
<1>8. SuggestionSound'
  <2> SUFFICES ASSUME NEW i \in DOMAIN loops'
               PROVE  LengthSound(loops[i])' /\ UnrollSound(loops[i])' /\ CycleSound(loops[i])'
    BY <1>6 DEF SuggestionSound
  <2>1. LengthSound(loops'[i]) /\ UnrollSound(loops'[i]) /\ CycleSound(loops'[i])
    BY <1>5, <1>7
  <2>2. jj' = jj /\ b_period_max' = b_period_max
    BY <1>0 DEF jj, b_period_max
  <2> DEFINE m == loops'[i]
  <2>3. /\ iijj(loops[i])' = iijj(m) /\ nloop(loops[i])' = nloop(m)
    BY <2>2 DEF iijj, nloop
  <2>4. /\ cycpre(loops[i])' = cycpre(m) /\ fp_sets_ab(loops[i])' = fp_sets_ab(m)
        /\ cyc_aincr(loops[i])' = cyc_aincr(m) /\ period(loops[i])' = period(m)
    BY <2>2, <2>3 DEF cycpre, fp_sets_ab, cyc_aincr, period
  <2>5. LengthSound(loops[i])'
    BY <1>0, <2>1, <2>2, <2>3 DEF LengthSound
  <2>6. UnrollSound(loops[i])'
    BY <1>0, <2>1, <2>2, <2>3 DEF UnrollSound
  <2>7. CycleSound(loops[i])'
    BY <1>0, <2>1, <2>2, <2>3, <2>4 DEF CycleSound
  <2> QED BY <2>5, <2>6, <2>7
<1> QED BY <1>0, <1>5, <1>8 DEF GenInv

LEMMA GeneratedUnmoved ==
  ASSUME GenInv, UNCHANGED generated
  PROVE  GenInv'
<1>1. job' = job /\ loops' = loops
  BY DEF generated
<1>2. ASSUME NEW i \in DOMAIN loops
      PROVE  (LengthSound(loops[i]) /\ UnrollSound(loops[i]) /\ CycleSound(loops[i]))'
  <2>0. LengthSound(loops[i]) /\ UnrollSound(loops[i]) /\ CycleSound(loops[i])
    BY DEF GenInv, SuggestionSound
  <2>1. jj' = jj /\ iijj(loops[i])' = iijj(loops[i]) /\ nloop(loops[i])' = nloop(loops[i])
    BY <1>1 DEF jj, iijj, nloop
  <2>2. /\ cycpre(loops[i])' = cycpre(loops[i]) /\ fp_sets_ab(loops[i])' = fp_sets_ab(loops[i])
        /\ cyc_aincr(loops[i])' = cyc_aincr(loops[i]) /\ period(loops[i])' = period(loops[i])
    BY <1>1, <2>1 DEF cycpre, fp_sets_ab, cyc_aincr, period
  <2>3. LengthSound(loops[i])'
    BY <1>1, <2>0, <2>1 DEF LengthSound
  <2>4. UnrollSound(loops[i])'
    BY <1>1, <2>0, <2>1 DEF UnrollSound
  <2>5. CycleSound(loops[i])'
    BY <1>1, <2>0, <2>1, <2>2 DEF CycleSound
  <2> QED BY <2>3, <2>4, <2>5
<1>3. Tiles'
  BY <1>1 DEF GenInv, SuggestionSound, Tiles
<1>4. SuggestionSound'
  BY <1>1, <1>2, <1>3 DEF SuggestionSound
<1> QED BY <1>1, <1>4 DEF GenInv

LEMMA GenInit == Init => GenInv
<1> SUFFICES ASSUME Init PROVE GenInv
  OBVIOUS
<1>1. job \in Jobs /\ loops = <<>>
  BY DEF Init
<1>2. loops \in Seq(LoopType) /\ DOMAIN loops = {}
  BY <1>1
<1> QED BY <1>1, <1>2 DEF GenInv, SuggestionSound, Tiles

LEMMA GenStep == GenInv /\ [Next]_vars => GenInv'
<1> SUFFICES ASSUME GenInv, [Next]_vars PROVE GenInv'
  OBVIOUS
<1>1. CASE Generate
  BY <1>1, GenerateKeepsSound
<1>2. CASE UNCHANGED generated
  BY <1>2, GeneratedUnmoved
<1>3. Generated \/ Precalc \/ Enter \/ Call \/ Induce \/ UNCHANGED vars => UNCHANGED generated
  BY DEF Generated, Precalc, Enter, Call, Induce, vars
<1> QED BY <1>1, <1>2, <1>3 DEF Next

(* What is suggested keeps what is asserted of it and what the generators  *)
(* rely on, for every job (fuseloop.cpp:171-245, fl7-unroll.cpp:282, 431). *)
THEOREM SuggestionsSound == Spec => []SuggestionSound
<1>1. Init => GenInv
  BY GenInit
<1>2. GenInv /\ [Next]_vars => GenInv'
  BY GenStep
<1>3. GenInv => SuggestionSound
  BY DEF GenInv
<1> QED BY <1>1, <1>2, <1>3, PTL DEF Spec

-----------------------------------------------------------------------------
(* Numbers: calls, copies of the body and turns of the precalculated       *)
(* vectors.                                                                *)

LEMMA CallCount ==
  ASSUME NEW I \in Nat \ {0}, NEW v \in Nat \ {0}, NEW n \in Nat
  PROVE  n * v < I <=> n < CeilDiv(I, v)
<1>1. /\ CeilDiv(I, v) \in Nat /\ I <= CeilDiv(I, v) * v /\ CeilDiv(I, v) * v < I + v
  BY CeilDivFacts
<1> DEFINE N == CeilDiv(I, v)
<1> HIDE DEF N
<1>2. N \in Nat /\ I <= N * v /\ N * v < I + v
  BY <1>1 DEF N
<1>3. ASSUME n >= N PROVE n * v >= I
  <2>1. n * v >= N * v
    BY <1>2, <1>3
  <2> QED BY <1>2, <2>1
<1>4. ASSUME n < N PROVE n * v < I
  <2>1. n + 1 <= N
    BY <1>2, <1>4
  <2>2. (n + 1) * v <= N * v
    BY <1>2, <2>1
  <2>3. (n + 1) * v = n * v + v
    OBVIOUS
  <2> QED BY <1>2, <2>2, <2>3
<1> QED BY <1>2, <1>3, <1>4 DEF N

\* of two calls that follow each other
LEMMA NextMod ==
  ASSUME NEW n \in Nat, NEW m \in Nat \ {0}
  PROVE  /\ n % m \in 0..(m - 1) /\ n \div m \in Nat
         /\ (n + 1) % m = (IF n % m = m - 1 THEN 0 ELSE (n % m) + 1)
         /\ (n + 1) \div m = (IF n % m = m - 1 THEN (n \div m) + 1 ELSE n \div m)
         /\ (n + 1) % m = ((n % m) + 1) % m
<1> DEFINE q == n \div m
           r == n % m
<1>1. q \in Int /\ r \in 0..(m - 1) /\ n = m * q + r
  BY DivFacts
<1>2. n \div m \in Nat
  BY FloorMultiple
<1>3. m * q \in Int
  BY <1>1
<1>4. /\ (n + 1) \div m \in Int /\ (n + 1) % m \in 0..(m - 1)
      /\ n + 1 = m * ((n + 1) \div m) + ((n + 1) % m)
  BY DivFacts
<1>5. CASE r = m - 1
  <2>1. m * (q + 1) = m * q + m
    BY <1>1
  <2>2. (n + 1) \div m = q + 1
    <3>1. m * (q + 1) <= n + 1 /\ n + 1 < m * (q + 1) + m /\ q + 1 \in Int /\ n + 1 \in Int
      BY <1>1, <1>3, <1>5, <2>1
    <3> HIDE DEF q, r
    <3> QED BY <3>1, DivUnique
  <2>3. (n + 1) % m = 0
    BY <1>1, <1>3, <1>4, <1>5, <2>1, <2>2
  <2>4. (r + 1) % m = 0
    <3>1. (1 * m) % m = 0
      BY MultipleMod
    <3>2. r + 1 = m /\ 1 * m = m
      BY <1>5
    <3> HIDE DEF r
    <3> QED BY <3>1, <3>2
  <2> QED BY <1>1, <1>2, <1>5, <2>2, <2>3, <2>4
<1>6. CASE r # m - 1
  <2>1. (n + 1) \div m = q
    <3>1. m * q <= n + 1 /\ n + 1 < m * q + m /\ n + 1 \in Int
      BY <1>1, <1>3, <1>6
    <3> HIDE DEF q, r
    <3> QED BY <1>1, <3>1, DivUnique
  <2>2. (n + 1) % m = r + 1
    BY <1>1, <1>3, <1>4, <2>1
  <2>3. (r + 1) % m = r + 1
    BY <1>1, <1>6
  <2> QED BY <1>1, <1>2, <1>6, <2>1, <2>2, <2>3
<1> QED BY <1>5, <1>6

\* the copies of the body are in step with the vectors they cycle through
LEMMA ModMod ==
  ASSUME NEW n \in Nat, NEW un \in Nat \ {0}, NEW c \in Nat \ {0}, un % c = 0
  PROVE  (n % un) % c = n % c /\ c <= un
<1> DEFINE q == n \div un
           r == n % un
           d == un \div c
           e == r \div c
           s == r % c
<1>1. q \in Int /\ r \in 0..(un - 1) /\ n = un * q + r
  BY DivFacts
<1>2. d \in Int /\ un = c * d
  BY DivFacts
<1>3. e \in Int /\ s \in 0..(c - 1) /\ r = c * e + s
  BY <1>1, DivFacts
<1>4. n % c \in 0..(c - 1) /\ n \div c \in Int /\ n = c * (n \div c) + (n % c)
  BY DivFacts
<1> HIDE DEF q, r, d, e, s
<1>5. n = c * (d * q + e) + s
  <2>1. un * q = c * (d * q)
    <3>1. (c * d) * q = c * (d * q)
      BY <1>1, <1>2
    <3> QED BY <1>2, <3>1
  <2>2. c * (d * q + e) = c * (d * q) + c * e
    BY <1>1, <1>2, <1>3
  <2> QED BY <1>1, <1>2, <1>3, <2>1, <2>2
<1> DEFINE w == d * q + e
<1>6. w \in Int
  BY <1>1, <1>2, <1>3
<1> HIDE DEF w
<1>7. c * w \in Int /\ n = c * w + s
  BY <1>5, <1>6 DEF w
<1>8. n \div c = w
  <2>1. c * w <= n /\ n < c * w + c /\ n \in Int
    BY <1>3, <1>7
  <2> QED BY <1>6, <2>1, DivUnique
<1>9. n % c = s
  <2>1. n = c * w + (n % c)
    BY <1>4, <1>8
  <2>2. s \in Int /\ n % c \in Int
    BY <1>3, <1>4
  <2> QED BY <1>7, <2>1, <2>2
<1>10. c <= un
  <2>1. d >= 1
    <3>1. CASE d <= 0
      <4>1. c * d <= 0
        BY <1>2, <3>1
      <4> QED BY <1>2, <4>1
    <3> QED BY <1>2, <3>1
  <2>2. c * d >= c
    BY <1>2, <2>1
  <2> QED BY <1>2, <2>2
<1> QED BY <1>9, <1>10 DEF r, s

\* the copy that has the last pairs is that of the last call
LEMMA LastCopy ==
  ASSUME NEW N \in Nat \ {0}, NEW un \in Nat \ {0}
  PROVE  ((N % un) + un - 1) % un = (N - 1) % un
<1> DEFINE n == N - 1
           r == n % un
<1>1. n \in Nat /\ n + 1 = N
  OBVIOUS
<1> HIDE DEF n
<1>2. /\ r \in 0..(un - 1)
      /\ (n + 1) % un = (IF r = un - 1 THEN 0 ELSE r + 1)
  BY <1>1, NextMod
<1> HIDE DEF r
<1>3. CASE r = un - 1
  <2>1. (N % un) + un - 1 = un - 1
    BY <1>1, <1>2, <1>3
  <2>2. (un - 1) % un = un - 1
    BY <1>2, <1>3 DEF r
  <2> QED BY <1>3, <2>1, <2>2 DEF r, n
<1>4. CASE r # un - 1
  <2>1. (N % un) + un - 1 = r + un
    BY <1>1, <1>2, <1>4
  <2> DEFINE y == r + un
  <2>2. y \in Int /\ y \div un \in Int /\ y % un \in 0..(un - 1) /\ y = un * (y \div un) + (y % un)
    <3>1. y \in Int
      BY <1>2
    <3> HIDE DEF y
    <3> QED BY <3>1, DivFacts
  <2>3. y \div un = 1
    <3>1. un * 1 <= y /\ y < un * 1 + un
      BY <1>2
    <3> HIDE DEF y
    <3> QED BY <2>2, <3>1, DivUnique
  <2>4. y % un = r
    <3> HIDE DEF y
    <3>1. y = un * 1 + (y % un)
      BY <2>2, <2>3
    <3>2. y = r + un
      BY DEF y
    <3> QED BY <1>2, <2>2, <3>1, <3>2
  <2> QED BY <2>1, <2>4 DEF r, n
<1> QED BY <1>3, <1>4

LEMMA TurnsFacts ==
  ASSUME NEW n \in Nat, NEW cyc \in Nat \ {0}, NEW c \in 0..(cyc - 1)
  PROVE  /\ Turns(n, cyc, c) \in Nat
         /\ Turns(0, cyc, c) = 0
         /\ Turns(n + 1, cyc, c) = Turns(n, cyc, c) + (IF c = n % cyc THEN 1 ELSE 0)
         /\ c = n % cyc => Turns(n, cyc, c) = n \div cyc
<1>1. /\ n % cyc \in 0..(cyc - 1) /\ n \div cyc \in Nat
      /\ (n + 1) % cyc = (IF n % cyc = cyc - 1 THEN 0 ELSE (n % cyc) + 1)
      /\ (n + 1) \div cyc = (IF n % cyc = cyc - 1 THEN (n \div cyc) + 1 ELSE n \div cyc)
  BY NextMod
<1>2. 0 \div cyc = 0 /\ 0 % cyc = 0
  <2>1. (0 * cyc) % cyc = 0 /\ (0 * cyc) \div cyc = 0
    BY MultipleMod
  <2> QED BY <2>1
<1>3. Turns(0, cyc, c) = 0
  BY <1>2 DEF Turns
<1> DEFINE q == n \div cyc
           r == n % cyc
<1> HIDE DEF q, r
<1>4. Turns(n, cyc, c) = q + (IF c < r THEN 1 ELSE 0)
  BY DEF Turns, q, r
<1>5. Turns(n + 1, cyc, c) = (IF r = cyc - 1 THEN q + 1 ELSE q)
                             + (IF c < (IF r = cyc - 1 THEN 0 ELSE r + 1) THEN 1 ELSE 0)
  BY <1>1 DEF Turns, q, r
<1>6. q \in Nat /\ r \in 0..(cyc - 1)
  BY <1>1 DEF q, r
<1>7. Turns(n + 1, cyc, c) = Turns(n, cyc, c) + (IF c = r THEN 1 ELSE 0)
  BY <1>4, <1>5, <1>6
<1>8. c = r => Turns(n, cyc, c) = q
  BY <1>4, <1>6
<1>9. Turns(n, cyc, c) \in Nat
  BY <1>4, <1>6
<1> QED BY <1>3, <1>7, <1>8, <1>9 DEF q, r

-----------------------------------------------------------------------------
(* The invariant of the generated program.                                 *)

Sound(l) ==
  /\ l \in LoopType /\ jj \in Nat \ {0} /\ l.ilo \in Nat /\ l.vl0 \in Nat \ {0} /\ l.cyc \in Nat
  /\ iijj(l) \in Nat \ {0} /\ nloop(l) \in Nat \ {0} /\ nloop(l) = CeilDiv(iijj(l), l.vl0)
  /\ l.unroll \in 1..nloop(l)
  /\ l.ilo * jj + iijj(l) + l.vl0 < Safe
  /\ CycleSound(l)

\* the macro divides every position of every loop
ExactFast == \A x \in 0..(Safe - 1) : DIVMOD(fast, jj, x) = [div |-> x \div jj, mod |-> x % jj]

FastInv == /\ fast = NoMacro \/ ExactFast
           /\ \A i \in DOMAIN loops : UsesDivmod(loops[i]) => ExactFast

Control == /\ pc \in {"generate", "precalc", "enter", "call", "induce", "done"}
           /\ pass \in Nat /\ (pc # "done" => pass < Passes)
           /\ pc \in {"generate", "precalc"} => cur = 1 /\ call.loop = 0
           /\ pc \in {"enter", "call", "induce"} => cur \in DOMAIN loops
           /\ pc # "generate" => loops # <<>> /\ From = job.end
           /\ call.loop # 0 => call.loop \in DOMAIN loops

IInv == GenInv /\ Control /\ FastInv /\ LoopInv

(* Every loop keeps its positions below what the macro divides.            *)
LEMMA SoundLoops ==
  ASSUME GenInv, NEW i \in DOMAIN loops
  PROVE  Sound(loops[i])
<1> DEFINE l == loops[i]
<1>1. l \in LoopType /\ LengthSound(l) /\ UnrollSound(l) /\ CycleSound(l)
  BY DEF GenInv, SuggestionSound
<1>2. l.ilo + l.ii <= job.end
  BY DEF GenInv, SuggestionSound, Tiles
<1>3. /\ jj \in Nat \ {0} /\ job.end \in Nat /\ MVL \in Nat \ {0} /\ Safe \in Nat \ {0}
      /\ job.end * jj + MVL < Safe /\ MaxLength(job.vlen) \in 1..MVL
  BY JobFacts DEF GenInv
<1>4. l.ilo \in Nat /\ l.ii \in Nat \ {0} /\ l.vl0 \in Nat \ {0} /\ l.cyc \in Nat
  BY <1>1 DEF LoopType
<1> HIDE DEF l
<1>5. l.vl0 <= MVL
  BY <1>1, <1>3, <1>4 DEF LengthSound
<1>6. iijj(l) \in Nat \ {0}
  BY <1>3, <1>4 DEF iijj
<1>7. nloop(l) = CeilDiv(iijj(l), l.vl0) /\ nloop(l) \in Nat \ {0}
  <2>1. CeilDiv(iijj(l), l.vl0) \in Nat \ {0}
    BY <1>4, <1>6, CeilDivPositive
  <2> QED BY <2>1 DEF nloop
<1>8. l.ilo * jj + iijj(l) + l.vl0 < Safe
  <2> DEFINE e == l.ilo + l.ii
  <2>1. e * jj = l.ilo * jj + iijj(l)
    BY <1>3, <1>4 DEF iijj
  <2>2. e \in Nat /\ e <= job.end
    BY <1>2, <1>4 DEF l
  <2> HIDE DEF e
  <2>3. e * jj <= job.end * jj
    BY <1>3, <2>2
  <2>4. e * jj \in Nat /\ job.end * jj \in Nat /\ l.ilo * jj \in Nat
    BY <1>3, <1>4, <2>2
  <2> QED BY <1>3, <1>4, <1>5, <1>6, <2>1, <2>3, <2>4
<1>9. l.unroll \in 1..nloop(l)
  BY <1>1 DEF UnrollSound, l
<1> QED BY <1>1, <1>3, <1>4, <1>6, <1>7, <1>8, <1>9 DEF Sound, l

(* A loop that divides finds the macro, and it is exact for its positions. *)
LEMMA GenerateKeepsFast ==
  ASSUME GenInv, FastInv, Generate
  PROVE  FastInv'
<1>1. PICK ihi \in {job.lo, job.hi, job.end} :
        /\ ihi > From
        /\ \E us \in vl_unroll(job.vlen, ihi - From, jj, b_period_max) :
             LET l == Loop(From, ihi, us)
             IN  /\ loops' = Append(loops, l)
                 /\ fast' = IF UsesDivmod(l) /\ fast = NoMacro
                            THEN mk_FASTDIV(jj, iijj(l) + l.vl0) ELSE fast
  BY DEF Generate
<1>2. PICK us \in vl_unroll(job.vlen, ihi - From, jj, b_period_max) :
        LET l == Loop(From, ihi, us)
        IN  /\ loops' = Append(loops, l)
            /\ fast' = IF UsesDivmod(l) /\ fast = NoMacro
                       THEN mk_FASTDIV(jj, iijj(l) + l.vl0) ELSE fast
  BY <1>1
<1> DEFINE l == Loop(From, ihi, us)
           n == Len(loops)
<1>3. /\ loops' = Append(loops, l)
      /\ fast' = IF UsesDivmod(l) /\ fast = NoMacro
                 THEN mk_FASTDIV(jj, iijj(l) + l.vl0) ELSE fast
  BY <1>2
<1> HIDE DEF l
<1>4. job' = job /\ GenInv'
  BY GenerateKeepsSound DEF Generate
<1>5. jj' = jj
  BY <1>4 DEF jj
<1>6. loops \in Seq(LoopType) /\ loops' \in Seq(LoopType) /\ n \in Nat
      /\ DOMAIN loops = 1..n
  BY <1>4 DEF GenInv
<1>7. /\ DOMAIN loops' = 1..(n + 1) /\ \A i \in 1..n : loops'[i] = loops[i]
      /\ loops'[n + 1] = l
  BY <1>3, <1>6
<1>8. iijj(l) \in Nat \ {0} /\ l.vl0 \in Nat \ {0}
  <2>1. l \in LoopType
    <3>1. n + 1 \in DOMAIN loops'
      BY <1>6, <1>7
    <3>2. loops'[n + 1] \in LoopType
      BY <1>6, <3>1
    <3> QED BY <1>7, <3>2
  <2>2. l.ii \in Nat \ {0} /\ l.vl0 \in Nat \ {0} /\ jj \in Nat \ {0}
    BY <2>1, JobFacts DEF LoopType, GenInv
  <2> QED BY <2>2 DEF iijj
<1>9. UsesDivmod(l) /\ fast = NoMacro => ExactFast'
  <2> SUFFICES ASSUME UsesDivmod(l), fast = NoMacro, NEW x \in 0..(Safe - 1)
               PROVE  DIVMOD(fast', jj, x) = [div |-> x \div jj, mod |-> x % jj]
    BY <1>5 DEF ExactFast, DIVMOD, FASTDIV
  <2> DEFINE h == iijj(l) + l.vl0
  <2>1. h \in Nat
    BY <1>8
  <2>2. fast' = mk_FASTDIV(jj, h)
    BY <1>3
  <2> HIDE DEF h
  <2>3. jj \in 1..(Word - 1) /\ x \in 0..(Word - 1) /\ x < Safe
    <3>1. /\ jj \in Nat \ {0} /\ jj < Word /\ Safe \in Nat /\ Word \in Nat /\ Safe <= Word
      BY JobFacts DEF GenInv
    <3> HIDE DEF jj
    <3> QED BY <3>1
  <2>4. DIVMOD(mk_FASTDIV(jj, h), jj, x) = [div |-> x \div jj, mod |-> x % jj]
    BY <2>1, <2>3, DivmodExact
  <2> QED BY <2>2, <2>4
<1>10. ExactFast /\ fast' = fast => ExactFast'
  BY <1>5 DEF ExactFast, DIVMOD, FASTDIV
<1>11. (fast = NoMacro \/ ExactFast)'
  BY <1>3, <1>9, <1>10 DEF FastInv, NoMacro
<1>12. ASSUME NEW i \in DOMAIN loops', UsesDivmod(loops[i])' PROVE ExactFast'
  <2>1. UsesDivmod(loops[i])' = UsesDivmod(loops'[i])
    BY <1>5 DEF UsesDivmod, nloop, iijj
  <2>2. CASE i \in 1..n
    <3>1. ExactFast
      BY <1>6, <1>7, <1>12, <2>1, <2>2 DEF FastInv
    <3> QED BY <1>3, <1>9, <1>10, <3>1
  <2>3. CASE i = n + 1
    <3>1. UsesDivmod(l)
      BY <1>7, <1>12, <2>1, <2>3
    <3>2. CASE fast = NoMacro
      BY <1>9, <3>1, <3>2
    <3>3. CASE fast # NoMacro
      BY <1>3, <1>10, <3>3 DEF FastInv
    <3> QED BY <3>2, <3>3
  <2> QED BY <1>6, <1>7, <2>2, <2>3
<1> QED BY <1>11, <1>12 DEF FastInv

LEMMA FastUnmoved ==
  ASSUME FastInv, UNCHANGED generated
  PROVE  FastInv'
<1>1. job' = job /\ loops' = loops /\ fast' = fast /\ jj' = jj
  BY DEF generated, jj
<1>2. ExactFast' = ExactFast
  BY <1>1 DEF ExactFast, DIVMOD, FASTDIV
<1>3. ASSUME NEW i \in DOMAIN loops PROVE UsesDivmod(loops[i])' = UsesDivmod(loops[i])
  BY <1>1 DEF UsesDivmod, nloop, iijj
<1>4. (fast = NoMacro \/ ExactFast)'
  BY <1>1, <1>2 DEF FastInv, NoMacro
<1>5. \A i \in DOMAIN loops' : UsesDivmod(loops[i])' => ExactFast'
  BY <1>1, <1>2, <1>3 DEF FastInv
<1> QED BY <1>4, <1>5 DEF FastInv

LEMMA FastStep ==
  ASSUME GenInv, FastInv, [Next]_vars
  PROVE  FastInv'
<1>1. CASE Generate
  BY <1>1, GenerateKeepsFast
<1>2. Generated \/ Precalc \/ Enter \/ Call \/ Induce \/ UNCHANGED vars => UNCHANGED generated
  BY DEF Generated, Precalc, Enter, Call, Induce, vars
<1> QED BY <1>1, <1>2, FastUnmoved DEF Next

(* The program goes from loop to loop and from pass to pass.               *)
LEMMA LeaveControl ==
  ASSUME GenInv, Control, pc \in {"call", "induce"}, UNCHANGED generated, Leave
  PROVE  /\ pc' \in {"enter", "done"} /\ pass' \in Nat
         /\ pc' # "done" => pass' < Passes
         /\ pc' = "enter" => cur' \in DOMAIN loops'
<1>1. loops' = loops /\ loops \in Seq(LoopType) /\ cur \in DOMAIN loops /\ pass \in Nat
      /\ pass < Passes
  BY DEF generated, GenInv, Control
<1>2. Len(loops) \in Nat /\ DOMAIN loops = 1..Len(loops)
  BY <1>1
<1>3. CASE cur < Len(loops)
  BY <1>1, <1>2, <1>3 DEF Leave
<1>4. CASE ~(cur < Len(loops))
  <2>1. 1 \in DOMAIN loops
    BY <1>1, <1>2
  <2> QED BY <1>1, <1>4, <2>1 DEF Leave
<1> QED BY <1>3, <1>4

LEMMA ControlStep ==
  ASSUME GenInv, Control, [Next]_vars
  PROVE  Control'
<1>1. loops \in Seq(LoopType) /\ Len(loops) \in Nat /\ DOMAIN loops = 1..Len(loops)
  BY DEF GenInv
<1>2. UNCHANGED generated => From' = From /\ job' = job /\ loops' = loops
  BY DEF generated, From
<1>3. CASE Generate
  <2>1. pc' = pc /\ pass' = pass /\ cur' = cur /\ call' = call /\ pc = "generate"
    BY <1>3 DEF Generate
  <2> QED BY <2>1 DEF Control
<1>4. CASE Generated
  <2>1. /\ pc' = "precalc" /\ pass' = pass /\ cur' = cur /\ call' = call /\ pc = "generate"
        /\ UNCHANGED generated /\ From = job.end
    BY <1>4 DEF Generated
  <2>2. loops # <<>>
    BY <2>1, JobFacts DEF From, GenInv
  <2> QED BY <1>2, <2>1, <2>2 DEF Control
<1>5. CASE Precalc
  <2>1. /\ pc' = "enter" /\ pass' = pass /\ cur' = cur /\ call' = call /\ pc = "precalc"
        /\ UNCHANGED generated
    BY <1>5 DEF Precalc
  <2>2. 1 \in DOMAIN loops
    BY <1>1, <2>1 DEF Control
  <2> QED BY <1>2, <2>1, <2>2 DEF Control
<1>6. CASE Enter
  <2>1. /\ pc' = "call" /\ pass' = pass /\ cur' = cur /\ call' = call /\ pc = "enter"
        /\ UNCHANGED generated
    BY <1>6 DEF Enter
  <2> QED BY <1>2, <2>1 DEF Control
<1>7. CASE Call
  <2>1. pc = "call" /\ UNCHANGED generated /\ call'.loop = cur /\ cur \in DOMAIN loops
    BY <1>7 DEF Call, Control
  <2>2. Leave \/ (pc' = "induce" /\ pass' = pass /\ cur' = cur)
    BY <1>7 DEF Call
  <2>3. CASE Leave
    <3>1. /\ pc' \in {"enter", "done"} /\ pass' \in Nat
          /\ pc' # "done" => pass' < Passes
          /\ pc' = "enter" => cur' \in DOMAIN loops'
      BY <2>1, <2>3, LeaveControl
    <3> QED BY <1>2, <2>1, <3>1 DEF Control
  <2>4. CASE pc' = "induce" /\ pass' = pass /\ cur' = cur
    BY <1>2, <2>1, <2>4 DEF Control
  <2> QED BY <2>2, <2>3, <2>4
<1>8. CASE Induce
  <2>1. pc = "induce" /\ UNCHANGED generated /\ call' = call /\ cur \in DOMAIN loops
    BY <1>8 DEF Induce, Control
  <2>2. Leave \/ (pc' = "call" /\ pass' = pass /\ cur' = cur)
    BY <1>8 DEF Induce
  <2>3. CASE Leave
    <3>1. /\ pc' \in {"enter", "done"} /\ pass' \in Nat
          /\ pc' # "done" => pass' < Passes
          /\ pc' = "enter" => cur' \in DOMAIN loops'
      BY <2>1, <2>3, LeaveControl
    <3> QED BY <1>2, <2>1, <3>1 DEF Control
  <2>4. CASE pc' = "call" /\ pass' = pass /\ cur' = cur
    BY <1>2, <2>1, <2>4 DEF Control
  <2> QED BY <2>2, <2>3, <2>4
<1>9. CASE UNCHANGED vars
  <2>1. pc' = pc /\ pass' = pass /\ cur' = cur /\ call' = call /\ UNCHANGED generated
    BY <1>9 DEF vars
  <2> QED BY <1>2, <2>1 DEF Control
<1> QED BY <1>3, <1>4, <1>5, <1>6, <1>7, <1>8, <1>9 DEF Next

-----------------------------------------------------------------------------
(* Precalculated vectors.                                                  *)

LEMMA CycleFacts ==
  ASSUME NEW l, Sound(l), cycpre(l)
  PROVE  /\ jj \in Nat /\ 1 < jj /\ jj < l.vl0 /\ ~fp_sets_ab(l) /\ UsesDivmod(l)
         /\ l.cyc \in Nat \ {0} /\ l.cyc <= l.unroll /\ l.unroll % l.cyc = 0 /\ l.cyc <= nloop(l)
         /\ cyc_aincr(l) \in Nat
         /\ l.cyc = nloop(l) \/ cyc_aincr(l) * jj = l.cyc * l.vl0
         /\ Cycle(l) = 0..(l.cyc - 1)
<1>1. /\ jj \in Nat \ {0} /\ l.vl0 \in Nat \ {0} /\ l.cyc \in Nat /\ l.unroll \in 1..nloop(l)
      /\ nloop(l) \in Nat \ {0}
  BY DEF Sound
<1>2. l.cyc > 0 /\ l.unroll % l.cyc = 0 /\ jj <= l.vl0
  BY DEF cycpre
<1>3. /\ ~fp_sets_ab(l) /\ jj > 1
      /\ l.cyc = nloop(l) \/ cyc_aincr(l) * jj = l.cyc * l.vl0
  BY DEF Sound, CycleSound
<1>4. jj # l.vl0
  <2>1. (1 * jj) % jj = 0
    BY <1>1, MultipleMod
  <2>2. 1 * jj = jj
    BY <1>1
  <2> QED BY <1>3, <2>1, <2>2 DEF fp_sets_ab
<1>5. l.cyc <= l.unroll
  <2>1. l.unroll \in Nat \ {0} /\ l.cyc \in Nat \ {0}
    BY <1>1, <1>2
  <2> QED BY <1>1, <1>2, <2>1, ModMod
<1>6. cyc_aincr(l) \in Nat
  <2>1. l.cyc * l.vl0 \in Nat
    BY <1>1
  <2> QED BY <1>1, <2>1, FloorMultiple DEF cyc_aincr
<1>7. UsesDivmod(l)
  BY <1>1, <1>2, <1>3, <1>4 DEF UsesDivmod
<1> QED BY <1>1, <1>2, <1>3, <1>4, <1>5, <1>6, <1>7 DEF Cycle

(* q turns of the vectors are q * cyc calls.                               *)
LEMMA TurnsMove ==
  ASSUME NEW l, Sound(l), cycpre(l), NEW q \in Nat, NEW c \in 0..(l.cyc - 1),
         q * l.cyc + c < nloop(l)
  PROVE  (q * cyc_aincr(l)) * jj + c * l.vl0 = (q * l.cyc + c) * l.vl0
<1> DEFINE v == l.vl0
           y == l.cyc
           d == cyc_aincr(l)
           N == nloop(l)
<1>1. /\ v \in Nat \ {0} /\ y \in Nat \ {0} /\ d \in Nat /\ jj \in Nat \ {0} /\ N \in Nat
      /\ c \in Nat /\ c < y
      /\ y = N \/ d * jj = y * v
  <2>1. v \in Nat \ {0} /\ jj \in Nat \ {0} /\ N \in Nat
    BY DEF Sound
  <2>2. /\ y \in Nat \ {0} /\ d \in Nat
        /\ y = N \/ d * jj = y * v
        /\ c \in 0..(y - 1)
    BY CycleFacts
  <2> HIDE DEF v, y, d, N
  <2>3. c \in Nat /\ c < y
    BY <2>2
  <2> QED BY <2>1, <2>2, <2>3
<1>2. q * y + c < N
  OBVIOUS
<1> HIDE DEF v, y, d, N
<1>3. CASE y = N
  <2>1. q = 0
    <3>1. CASE q >= 1
      <4>1. q * y >= y
        BY <1>1, <3>1
      <4>2. q * y \in Nat
        BY <1>1
      <4> QED BY <1>1, <1>2, <1>3, <4>1, <4>2
    <3> QED BY <3>1
  <2>2. (0 * d) * jj + c * v = (0 * y + c) * v
    BY <1>1
  <2> QED BY <2>1, <2>2 DEF d, v, y
<1>4. CASE d * jj = y * v
  <2>1. (q * d) * jj = q * (d * jj)
    BY <1>1
  <2>2. q * (y * v) = (q * y) * v
    BY <1>1
  <2>3. q * y \in Nat
    BY <1>1
  <2>4. (q * y + c) * v = (q * y) * v + c * v
    BY <1>1, <2>3
  <2>5. (q * d) * jj = (q * y) * v
    BY <1>4, <2>1, <2>2
  <2> QED BY <2>4, <2>5 DEF d, v, y
<1> QED BY <1>1, <1>3, <1>4

(* A precalculated vector has the pairs of the calls it is used for.       *)
LEMMA CyclicPairs ==
  ASSUME NEW l, Sound(l), cycpre(l), NEW n \in Nat, n < nloop(l), NEW k \in Lanes(l.vl0)
  PROVE  LET c == n % l.cyc
             t == Turns(n + 1, l.cyc, c)
         IN  /\ c \in 0..(l.cyc - 1)
             /\ AcycAt(l, c, t)[k] * jj + BcycAt(l, c)[k] = l.ilo * jj + n * l.vl0 + k
             /\ BcycAt(l, c)[k] \in Lanes(jj)
<1> DEFINE v == l.vl0
           y == l.cyc
           d == cyc_aincr(l)
           c == n % y
           q == n \div y
           x == c * v + k
<1>1. /\ v \in Nat \ {0} /\ y \in Nat \ {0} /\ d \in Nat /\ jj \in Nat \ {0} /\ l.ilo \in Nat
  BY CycleFacts DEF Sound
<1>2. k \in Nat /\ k < v
  BY <1>1 DEF Lanes
<1>3. c \in 0..(y - 1) /\ q \in Nat
  <2> HIDE DEF y
  <2> QED BY <1>1, NextMod
<1>4. n = q * y + c
  <2>1. n = y * q + c
    <3>1. n \in Int /\ y \in Nat \ {0}
      BY <1>1
    <3> HIDE DEF y
    <3> QED BY <3>1, DivFacts
  <2> HIDE DEF y, q, c
  <2> QED BY <1>1, <1>3, <2>1
<1>5. Turns(n + 1, y, c) = q + 1
  <2>1. /\ Turns(n + 1, y, c) = Turns(n, y, c) + (IF c = n % y THEN 1 ELSE 0)
        /\ c = n % y => Turns(n, y, c) = n \div y
    BY <1>1, <1>3, TurnsFacts
  <2> QED BY <1>3, <2>1
<1>6. (q * d) * jj + c * v = n * v
  <2>1. q * y + c < nloop(l)
    BY <1>4
  <2> QED BY <1>3, <1>4, <2>1, TurnsMove
<1>7. x \in Nat
  <2> HIDE DEF c
  <2> QED BY <1>1, <1>2, <1>3
<1>8. x \div jj \in Int /\ x % jj \in 0..(jj - 1) /\ x = jj * (x \div jj) + (x % jj)
  <2> HIDE DEF x
  <2> QED BY <1>1, <1>7, DivFacts
<1>9. AcycAt(l, c, q + 1)[k] = l.ilo + (x \div jj) + q * d
  <2>1. (q + 1) - 1 = q
    BY <1>3
  <2> QED BY <2>1 DEF AcycAt
<1>10. BcycAt(l, c)[k] = x % jj
  BY DEF BcycAt
<1> DEFINE w == x \div jj
           r == x % jj
           s == q * d
<1>11. w \in Int /\ r \in 0..(jj - 1) /\ s \in Nat /\ c * v + k = jj * w + r
  BY <1>1, <1>3, <1>8
<1>12. s * jj + c * v = n * v /\ c * v \in Nat /\ n * v \in Nat
  BY <1>1, <1>3, <1>6
<1>13. (l.ilo + w + s) * jj + r = l.ilo * jj + n * v + k
  <2> HIDE DEF w, r, s, x, c, q, v
  <2>1. (l.ilo + w + s) * jj = l.ilo * jj + w * jj + s * jj
    BY <1>1, <1>11
  <2>2. w * jj = jj * w /\ w * jj \in Int /\ s * jj \in Int /\ l.ilo * jj \in Int
    BY <1>1, <1>11
  <2> DEFINE W == w * jj
             S == s * jj
             A == l.ilo * jj
             C == c * v
             M == n * v
  <2>3. /\ W \in Int /\ S \in Int /\ A \in Int /\ C \in Int /\ M \in Int
        /\ k \in Int /\ r \in Int
        /\ C + k = W + r /\ S + C = M /\ (l.ilo + w + s) * jj = A + W + S
    BY <1>1, <1>2, <1>11, <1>12, <2>1, <2>2
  <2> DEFINE H == (l.ilo + w + s) * jj
  <2>4. H = A + W + S
    BY <2>3
  <2> HIDE DEF W, S, A, C, M, H
  <2>5. H + r = A + M + k
    BY <2>3, <2>4
  <2> QED BY <2>5 DEF H, A, M
<1>14. AcycAt(l, c, Turns(n + 1, y, c))[k] * jj + BcycAt(l, c)[k] = l.ilo * jj + n * v + k
  <2> HIDE DEF c, q, x
  <2> QED BY <1>5, <1>9, <1>10, <1>13
<1> QED BY <1>3, <1>10, <1>11, <1>14 DEF Lanes

(* What they are divided from is below what the macro divides.             *)
LEMMA CycleOperands ==
  ASSUME NEW l, Sound(l), cycpre(l), NEW c \in 0..(l.cyc - 1), NEW k \in Lanes(l.vl0)
  PROVE  /\ CycRow(l) \in Nat
         /\ CycRow(l) * jj + c * l.vl0 + k \in 0..(Safe - 1)
<1> DEFINE v == l.vl0
           y == l.cyc
           d == cyc_aincr(l)
           N == nloop(l)
           q == (N \div y) - 1
           n == q * y + c
<1>1. /\ v \in Nat \ {0} /\ y \in Nat \ {0} /\ d \in Nat /\ jj \in Nat \ {0} /\ l.ilo \in Nat
      /\ N \in Nat \ {0} /\ y <= N /\ c \in Nat /\ c < y
      /\ iijj(l) \in Nat \ {0} /\ N = CeilDiv(iijj(l), v)
      /\ l.ilo * jj + iijj(l) + v < Safe
  BY CycleFacts DEF Sound
<1>2. k \in Nat /\ k < v
  BY <1>1 DEF Lanes
<1>3. q \in Nat /\ n \in Nat /\ n < N
  <2>1. /\ N \div y \in Int /\ N % y \in 0..(y - 1) /\ N = y * (N \div y) + (N % y)
    <3>1. N \in Int /\ y \in Nat \ {0}
      BY <1>1
    <3> HIDE DEF N, y
    <3> QED BY <3>1, DivFacts
  <2> DEFINE p == N \div y
             r == N % y
  <2>2. p \in Int /\ r \in 0..(y - 1) /\ N = y * p + r
    BY <2>1
  <2> HIDE DEF p, r, y, N
  <2>3. p >= 1
    <3>1. CASE p <= 0
      <4>1. y * p <= 0
        BY <1>1, <2>2, <3>1
      <4> QED BY <1>1, <2>2, <4>1
    <3> QED BY <2>2, <3>1
  <2>4. (p - 1) * y = y * p - y /\ (p - 1) * y >= 0 /\ (p - 1) * y \in Int
    BY <1>1, <2>2, <2>3
  <2>5. (p - 1) * y + c \in Nat /\ (p - 1) * y + c < N /\ p - 1 \in Nat
    BY <1>1, <2>2, <2>3, <2>4
  <2> QED BY <2>5 DEF p
<1>4. (q * d) * jj + c * v = n * v
  <2>1. q * l.cyc + c < nloop(l)
    BY <1>3
  <2> HIDE DEF q
  <2> QED BY <1>3, <2>1, TurnsMove
<1>5. CycRow(l) = l.ilo + q * d
  BY DEF CycRow
<1> HIDE DEF q, n, N, d, v
<1>6. CycRow(l) \in Nat
  BY <1>1, <1>3, <1>5
<1>7. n * v < iijj(l)
  BY <1>1, <1>3, CallCount
<1>8. CycRow(l) * jj + c * v + k = l.ilo * jj + n * v + k
  <2>1. q * d \in Nat /\ c * v \in Nat /\ n * v \in Nat
    BY <1>1, <1>3
  <2>2. (l.ilo + q * d) * jj = l.ilo * jj + (q * d) * jj
    BY <1>1, <2>1
  <2>3. (q * d) * jj \in Nat /\ l.ilo * jj \in Nat
    BY <1>1, <2>1
  <2> QED BY <1>2, <1>4, <1>5, <2>1, <2>2, <2>3
<1>9. l.ilo * jj + n * v + k \in 0..(Safe - 1)
  <2>1. l.ilo * jj \in Nat /\ n * v \in Nat /\ Safe \in Nat
    BY <1>1, <1>3, WordAssumption
  <2> QED BY <1>1, <1>2, <1>7, <2>1
<1> QED BY <1>6, <1>8, <1>9 DEF v

-----------------------------------------------------------------------------
(* What a step of the program has to show.                                 *)

LEMMA CycledUnmoved ==
  ASSUME UNCHANGED generated, NEW i \in DOMAIN loops, NEW m,
         Cycled(loops[i], acyc'[i], bcyc'[i], m)
  PROVE  Cycled(loops[i], acyc[i], bcyc[i], m)'
<1> DEFINE l == loops[i]
<1>1. loops' = loops /\ jj' = jj
  BY DEF generated, jj
<1>2. /\ acyc'[i] = [c \in Cycle(l) |-> AcycAt(l, c, Turns(m, l.cyc, c))]
      /\ bcyc'[i] = [c \in Cycle(l) |-> BcycAt(l, c)]
  BY DEF Cycled
<1>3. cyc_aincr(loops[i])' = cyc_aincr(l) /\ Cycle(loops[i])' = Cycle(l)
  BY <1>1 DEF cyc_aincr, Cycle, cycpre
<1>4. acyc'[i] = [c \in Cycle(l) |-> AcycAt(loops[i], c, Turns(m, loops[i].cyc, c))']
  BY <1>1, <1>2, <1>3 DEF AcycAt
<1>5. bcyc'[i] = [c \in Cycle(l) |-> BcycAt(loops[i], c)']
  BY <1>1, <1>2 DEF BcycAt
<1> QED BY <1>3, <1>4, <1>5 DEF Cycled

LEMMA NextEnter ==
  ASSUME GenInv, UNCHANGED generated, pc' \in {"enter", "done"}, pc' = "enter" => cur' \in DOMAIN loops,
         DOMAIN acyc' = DOMAIN loops, DOMAIN bcyc' = DOMAIN loops,
         \A i \in DOMAIN loops : Cycled(loops[i], acyc'[i], bcyc'[i], nloop(loops[i]))
  PROVE  LoopInv'
<1> SUFFICES ASSUME pc' = "enter"
             PROVE  \E n \in 0..(nloop(L)' - 1) :
                      /\ InBody' => InCall(n)' /\ Inducted(n)' /\ Positioned(n)'
                      /\ DOMAIN acyc' = DOMAIN loops' /\ DOMAIN bcyc' = DOMAIN loops'
                      /\ \A i \in DOMAIN loops' : Cycled(loops[i], acyc[i], bcyc[i], Made(i, n))'
  BY DEF LoopInv
<1>1. loops' = loops /\ jj' = jj /\ ~InBody'
  BY DEF generated, jj, InBody
<1>2. nloop(L)' \in Nat \ {0}
  <2>1. nloop(loops[cur']) \in Nat \ {0}
    BY SoundLoops DEF Sound
  <2>2. nloop(L)' = nloop(loops[cur'])
    BY <1>1 DEF nloop, iijj, L
  <2> QED BY <2>1, <2>2
<1>3. ASSUME NEW i \in DOMAIN loops
      PROVE  Cycled(loops[i], acyc[i], bcyc[i], Made(i, 0))'
  <2>1. Made(i, 0)' = nloop(loops[i])
    BY <1>1 DEF Made, nloop, iijj
  <2> DEFINE m == nloop(loops[i])
  <2>2. \A x : Cycled(loops[i], acyc'[i], bcyc'[i], x) => Cycled(loops[i], acyc[i], bcyc[i], x)'
    BY CycledUnmoved
  <2> QED BY <2>1, <2>2 DEF Cycled
<1>4. 0 \in 0..(nloop(L)' - 1)
  BY <1>2
<1> QED BY <1>1, <1>3, <1>4

LEMMA NextBody ==
  ASSUME GenInv, UNCHANGED generated, cur' = cur, cur \in DOMAIN loops, pc' \in {"call", "induce"},
         NEW n \in 0..(nloop(L) - 1), NEW m, m = IF pc' = "call" THEN n ELSE n + 1,
         u' = n % L.unroll, pc' = "call" \/ cnt' > 0 => vl' = L.vl0,
         cnt' = iijj(L) - m * L.vl0, pc' = "induce" => cnt' > 0 \/ u' = L.unroll - 1,
         Inducted(n)', Positioned(n)',
         DOMAIN acyc' = DOMAIN loops, DOMAIN bcyc' = DOMAIN loops,
         \A i \in DOMAIN loops :
           Cycled(loops[i], acyc'[i], bcyc'[i], IF i = cur THEN m ELSE nloop(loops[i]))
  PROVE  LoopInv'
<1> SUFFICES \E h \in 0..(nloop(L)' - 1) :
               /\ InBody' => InCall(h)' /\ Inducted(h)' /\ Positioned(h)'
               /\ DOMAIN acyc' = DOMAIN loops' /\ DOMAIN bcyc' = DOMAIN loops'
               /\ \A i \in DOMAIN loops' : Cycled(loops[i], acyc[i], bcyc[i], Made(i, h))'
  BY DEF LoopInv
<1>1. loops' = loops /\ jj' = jj /\ L' = L /\ InBody'
  BY DEF generated, jj, L, InBody
<1>2. iijj(L)' = iijj(L) /\ nloop(L)' = nloop(L)
  BY <1>1 DEF iijj, nloop
<1>3. InCall(n)'
  BY <1>1, <1>2 DEF InCall
<1>4. ASSUME NEW i \in DOMAIN loops
      PROVE  Cycled(loops[i], acyc[i], bcyc[i], Made(i, n))'
  <2>1. Made(i, n)' = IF i = cur THEN m ELSE nloop(loops[i])
    BY <1>1 DEF Made, nloop, iijj
  <2>2. \A x : Cycled(loops[i], acyc'[i], bcyc'[i], x) => Cycled(loops[i], acyc[i], bcyc[i], x)'
    BY CycledUnmoved
  <2> QED BY <2>1, <2>2 DEF Cycled
<1> QED BY <1>1, <1>2, <1>3, <1>4

(* The precalculated vectors, made for one loop or taken over from another,*)
(* are those of the last full round of a pass.                             *)
LEMMA PrecalcStep ==
  ASSUME GenInv, Control, FastInv, Precalc
  PROVE  LoopInv'
<1>1. /\ UNCHANGED generated /\ pc' = "enter" /\ cur' = 1 /\ 1 \in DOMAIN loops
      /\ acyc' = [i \in DOMAIN loops |-> Precalculated(i)]
      /\ bcyc' = [i \in DOMAIN loops |->
                    [c \in Cycle(loops[i]) |-> Remainders(CycSq(loops[FirstAlike(i)], c))]]
  <2>1. cur = 1 /\ loops # <<>> /\ loops \in Seq(LoopType)
    BY DEF Control, Precalc, GenInv
  <2>2. 1 \in DOMAIN loops
    BY <2>1
  <2> QED BY <2>1, <2>2 DEF Precalc
<1>2. ASSUME NEW i \in DOMAIN loops
      PROVE  Cycled(loops[i], acyc'[i], bcyc'[i], nloop(loops[i]))
  <2> DEFINE l == loops[i]
             old == loops[FirstAlike(i)]
  <2>0. Sound(l)
    BY SoundLoops
  <2>1. CASE ~cycpre(l)
    <3>1. Cycle(l) = {}
      BY <2>1 DEF Cycle
    <3> QED BY <1>1, <3>1 DEF Cycled, Precalculated
  <2>2. CASE cycpre(l)
    <3>1. /\ FirstAlike(i) \in DOMAIN loops
          /\ cycpre(old) /\ old.vl0 = l.vl0 /\ old.cyc = l.cyc
      <4> DEFINE T == {h \in 1..i : Alike(l, loops[h])}
      <4>1. i \in Nat \ {0} /\ 1..i \subseteq DOMAIN loops
        <5>1. loops \in Seq(LoopType)
          BY DEF GenInv
        <5>2. Len(loops) \in Nat /\ DOMAIN loops = 1..Len(loops)
          BY <5>1
        <5> QED BY <5>2
      <4>2. i \in T
        BY <2>2, <4>1 DEF Alike
      <4>3. T \in SUBSET Nat /\ T # {}
        BY <4>2
      <4>4. PICK k \in T : \A h \in T : k <= h
        <5> HIDE DEF T
        <5> QED BY <4>3, LeastOf
      <4>5. k \in 1..i /\ Alike(loops[i], loops[k]) /\ \A g \in 1..(k - 1) : ~Alike(loops[i], loops[g])
        <5>1. k \in 1..i /\ Alike(loops[i], loops[k])
          OBVIOUS
        <5>2. ASSUME NEW g \in 1..(k - 1), Alike(loops[i], loops[g]) PROVE FALSE
          <6>1. g \in 1..i /\ ~(k <= g)
            BY <4>1, <5>1, <5>2
          <6>2. g \in T
            BY <5>2, <6>1
          <6> QED BY <4>4, <6>1, <6>2
        <5> QED BY <5>1, <5>2
      <4>6. FirstAlike(i) \in 1..i /\ Alike(loops[i], loops[FirstAlike(i)])
        BY <4>5 DEF FirstAlike
      <4> QED BY <4>1, <4>6 DEF Alike
    <3>2. Sound(old)
      BY <3>1, SoundLoops
    <3>3. ExactFast
      <4>1. UsesDivmod(l)
        BY <2>0, <2>2, CycleFacts
      <4> QED BY <4>1 DEF FastInv
    <3> DEFINE v == l.vl0
               y == l.cyc
               d == cyc_aincr(l)
    <3>4. /\ Cycle(l) = 0..(y - 1) /\ y \in Nat \ {0} /\ d \in Nat /\ v \in Nat \ {0}
          /\ jj \in Nat \ {0} /\ l.ilo \in Nat /\ nloop(l) \in Nat \ {0}
      BY <2>0, <2>2, CycleFacts DEF Sound
    <3> HIDE DEF l, old, v, y, d
    <3>5. ASSUME NEW c \in 0..(y - 1), NEW k \in Lanes(v)
          PROVE  /\ Quotients(CycSq(old, c))[k] = CycRow(old) + ((c * v + k) \div jj)
                 /\ Remainders(CycSq(old, c))[k] = (c * v + k) % jj
                 /\ CycRow(old) \in Nat /\ (c * v + k) \div jj \in Int
      <4> DEFINE x == c * v + k
                 w == CycRow(old)
      <4>1. w \in Nat /\ w * jj + c * v + k \in 0..(Safe - 1)
        BY <3>1, <3>2, <3>5, CycleOperands DEF v, y
      <4>2. x \in Nat /\ c * v \in Nat /\ k \in Nat /\ w * jj \in Nat
        BY <3>4, <3>5, <4>1 DEF Lanes
      <4> HIDE DEF w
      <4>3. x \div jj \in Int /\ x % jj \in 0..(jj - 1) /\ x = jj * (x \div jj) + (x % jj)
        <5>1. x \in Int
          BY <4>2
        <5> HIDE DEF x
        <5> QED BY <3>4, <5>1, DivFacts
      <4> DEFINE z == w * jj + x
      <4>4. z \in 0..(Safe - 1) /\ z \in Int
        BY <4>1, <4>2
      <4>5. z \div jj = w + (x \div jj) /\ z % jj = x % jj
        <5> DEFINE e == x \div jj
                   r == x % jj
        <5>1. z = jj * (w + e) + r /\ w + e \in Int /\ r \in 0..(jj - 1) /\ jj * (w + e) \in Int
          <6>1. x = jj * e + r /\ e \in Int /\ r \in 0..(jj - 1)
            BY <4>3
          <6> HIDE DEF e, r
          <6>2. jj * (w + e) = w * jj + jj * e /\ jj * e \in Int /\ w * jj \in Int
            BY <3>4, <4>1, <6>1
          <6>3. jj * (w + e) \in Int /\ w + e \in Int
            BY <3>4, <4>1, <6>1
          <6> HIDE DEF x
          <6> QED BY <6>1, <6>2, <6>3
        <5> HIDE DEF e, r, z
        <5> DEFINE p == w + e
        <5>2. p \in Int /\ jj * p \in Int /\ z = jj * p + r /\ r \in 0..(jj - 1)
          BY <5>1
        <5> HIDE DEF p
        <5>3. z \div jj = p
          <6>1. jj * p <= z /\ z < jj * p + jj
            BY <3>4, <5>2
          <6> QED BY <3>4, <4>4, <5>2, <6>1, DivUnique
        <5>4. z \div jj \in Int /\ z % jj \in 0..(jj - 1) /\ z = jj * (z \div jj) + (z % jj)
          BY <3>4, <4>4, DivFacts
        <5>5. z = jj * p + (z % jj)
          BY <5>3, <5>4
        <5>6. z % jj = r
          BY <5>2, <5>4, <5>5
        <5> QED BY <5>3, <5>6 DEF p, e, r
      <4>6. CycSq(old, c)[k] = z /\ DOMAIN CycSq(old, c) = Lanes(v)
        <5>1. CycSq(old, c) = [h \in Lanes(v) |-> w * jj + c * v + h]
          BY <3>1 DEF CycSq, Sq, v, w
        <5> QED BY <4>2, <5>1
      <4>7. DIVMOD(fast, jj, z) = [div |-> z \div jj, mod |-> z % jj]
        <5> HIDE DEF z
        <5> QED BY <3>3, <4>4 DEF ExactFast
      <4> HIDE DEF x, z
      <4>8. Quotients(CycSq(old, c))[k] = z \div jj /\ Remainders(CycSq(old, c))[k] = z % jj
        BY <4>6, <4>7 DEF Quotients, Remainders
      <4> QED BY <4>1, <4>3, <4>5, <4>8 DEF w, x
    <3>6. DOMAIN Quotients(CycSq(old, 0)) = Lanes(v)
      BY <3>1 DEF Quotients, CycSq, Sq, v
    <3>7. ASSUME NEW c \in 0..(y - 1)
          PROVE  /\ Plus(Quotients(CycSq(old, c)), (CycRow(l) - CycRow(old)) + Ahead(l, c))
                      = AcycAt(l, c, Turns(nloop(l), y, c))
                 /\ Remainders(CycSq(old, c)) = BcycAt(l, c)
      <4>1. /\ Quotients(CycSq(old, c)) = [k \in Lanes(v) |-> Quotients(CycSq(old, c))[k]]
            /\ Remainders(CycSq(old, c)) = [k \in Lanes(v) |-> Remainders(CycSq(old, c))[k]]
        BY <3>1 DEF Quotients, Remainders, CycSq, Sq, v
      <4>2. CycRow(l) \in Nat /\ CycRow(l) = l.ilo + ((nloop(l) \div y) - 1) * d
        <5>1. 0 \in Lanes(l.vl0)
          BY <3>4 DEF Lanes, v
        <5>2. CycRow(l) \in Nat
          BY <2>0, <2>2, <3>7, <5>1, CycleOperands DEF y, l
        <5> QED BY <5>2 DEF CycRow, y, d
      <4> DEFINE q == nloop(l) \div y
      <4>3. q \in Nat
        BY <3>4, FloorMultiple
      <4>4. CycRow(l) + Ahead(l, c) = l.ilo + (Turns(nloop(l), y, c) - 1) * d /\ Ahead(l, c) \in Nat
        <5>1. Ahead(l, c) = IF c < nloop(l) % y THEN d ELSE 0
          BY DEF Ahead, y, d
        <5>2. Turns(nloop(l), y, c) = q + (IF c < nloop(l) % y THEN 1 ELSE 0)
          BY DEF Turns
        <5> HIDE DEF q
        <5>3. CycRow(l) = l.ilo + (q - 1) * d
          BY <4>2 DEF q
        <5>4. CASE c < nloop(l) % y
          <6>1. Turns(nloop(l), y, c) - 1 = q
            BY <4>3, <5>2, <5>4
          <6>2. (q - 1) * d + d = q * d /\ (q - 1) * d \in Int
            BY <3>4, <4>3
          <6> QED BY <3>4, <4>3, <5>1, <5>3, <5>4, <6>1, <6>2
        <5>5. CASE ~(c < nloop(l) % y)
          <6>1. Turns(nloop(l), y, c) - 1 = q - 1
            BY <4>3, <5>2, <5>5
          <6> QED BY <4>2, <5>1, <5>3, <5>5, <6>1
        <5> QED BY <5>4, <5>5
      <4> DEFINE s == (Turns(nloop(l), y, c) - 1) * d
                 g == (CycRow(l) - CycRow(old)) + Ahead(l, c)
      <4>5. Turns(nloop(l), y, c) \in Nat
        <5>1. nloop(l) \in Nat
          BY <3>4
        <5> QED BY <3>4, <3>7, <5>1, TurnsFacts
      <4>6. s \in Int
        BY <3>4, <4>5
      <4>7. ASSUME NEW k \in Lanes(v)
            PROVE  Quotients(CycSq(old, c))[k] + g = l.ilo + ((c * v + k) \div jj) + s
        <5>1. /\ Quotients(CycSq(old, c))[k] = CycRow(old) + ((c * v + k) \div jj)
              /\ CycRow(old) \in Nat /\ (c * v + k) \div jj \in Int
          BY <3>5, <4>7
        <5> DEFINE e == (c * v + k) \div jj
        <5> HIDE DEF e, s
        <5>2. CycRow(l) + Ahead(l, c) = l.ilo + s
          BY <4>4 DEF s
        <5>3. Quotients(CycSq(old, c))[k] = CycRow(old) + e /\ e \in Int
          BY <5>1 DEF e
        <5> DEFINE F == Quotients(CycSq(old, c))[k]
                   R == CycRow(l)
                   O == CycRow(old)
                   H == Ahead(l, c)
        <5>4. /\ R \in Int /\ O \in Int /\ H \in Int /\ s \in Int /\ l.ilo \in Int /\ e \in Int
              /\ R + H = l.ilo + s /\ F = O + e /\ g = (R - O) + H
          <6>1. O \in Int /\ e \in Int
            BY <5>1, <5>3
          <6>2. l.ilo \in Int /\ s \in Int /\ R \in Int /\ H \in Int
            BY <3>4, <4>2, <4>4, <4>6
          <6>3. R + H = l.ilo + s /\ F = O + e
            BY <5>2, <5>3
          <6>4. g = (R - O) + H
            OBVIOUS
          <6> QED BY <6>1, <6>2, <6>3, <6>4
        <5> HIDE DEF F, R, O, H, g
        <5>5. F + g = l.ilo + e + s
          BY <5>4
        <5> QED BY <5>5 DEF e, F
      <4>8. AcycAt(l, c, Turns(nloop(l), y, c)) = [k \in Lanes(v) |-> l.ilo + ((c * v + k) \div jj) + s]
        BY DEF AcycAt, v, d
      <4>9. Plus(Quotients(CycSq(old, c)), g) = [k \in Lanes(v) |-> Quotients(CycSq(old, c))[k] + g]
        <5> HIDE DEF g
        <5> QED BY <4>1 DEF Plus
      <4>10. BcycAt(l, c) = [k \in Lanes(v) |-> (c * v + k) % jj]
        BY DEF BcycAt, v
      <4> HIDE DEF s, g
      <4>11. Plus(Quotients(CycSq(old, c)), g) = AcycAt(l, c, Turns(nloop(l), y, c))
        BY <4>7, <4>8, <4>9
      <4>12. Remainders(CycSq(old, c)) = BcycAt(l, c)
        BY <3>5, <4>1, <4>10
      <4> QED BY <4>11, <4>12 DEF g
    <3>8. acyc'[i] = [c \in 0..(y - 1) |-> Plus(Quotients(CycSq(old, c)), (CycRow(l) - CycRow(old)) + Ahead(l, c))]
      BY <1>1, <3>4 DEF Precalculated, l, old
    <3>9. bcyc'[i] = [c \in 0..(y - 1) |-> Remainders(CycSq(old, c))]
      BY <1>1, <3>4 DEF l, old
    <3> QED BY <3>4, <3>7, <3>8, <3>9 DEF Cycled, l, y
  <2> QED BY <2>1, <2>2
<1>3. DOMAIN acyc' = DOMAIN loops /\ DOMAIN bcyc' = DOMAIN loops
  BY <1>1
<1> QED BY <1>1, <1>2, <1>3, NextEnter

-----------------------------------------------------------------------------
(* The steps of a loop.                                                    *)

LEMMA InductedNext ==
  ASSUME UNCHANGED generated, cur' = cur, NEW n,
         fp_sets_ab(L) =>
           /\ a' \in [Lanes(L.vl0) -> Int] /\ b' \in [Lanes(L.vl0) -> Lanes(jj)]
           /\ \A k \in Lanes(L.vl0) : a'[k] * jj + b'[k] = At(n, k)
           /\ L.vl0 % jj # 0 /\ jj % L.vl0 = 0 =>
                /\ \A k \in Lanes(L.vl0) : b'[k] = (n % period(L)) * L.vl0 + k
                /\ nloop(L) > period(L) /\ ~InStep(L) => tmod' = n % period(L)
  PROVE  Inducted(n)'
<1>1. L' = L /\ jj' = jj
  BY DEF generated, jj, L
<1>2. /\ nloop(L)' = nloop(L) /\ period(L)' = period(L) /\ InStep(L)' = InStep(L)
      /\ fp_sets_ab(L)' = fp_sets_ab(L)
  BY <1>1 DEF nloop, iijj, period, InStep, full_unroll, fp_sets_ab
<1>3. ASSUME NEW k PROVE At(n, k)' = At(n, k)
  BY <1>1 DEF At
<1>4. CASE ~fp_sets_ab(L)
  BY <1>2, <1>4 DEF Inducted
<1>5. CASE fp_sets_ab(L)
  <2>1. /\ a' \in [Lanes(L.vl0) -> Int] /\ b' \in [Lanes(L.vl0) -> Lanes(jj)]
        /\ \A k \in Lanes(L.vl0) : a'[k] * jj + b'[k] = At(n, k)'
    BY <1>3, <1>5
  <2>2. L.vl0 % jj # 0 /\ jj % L.vl0 = 0 =>
          /\ \A k \in Lanes(L.vl0) : b'[k] = (n % period(L)) * L.vl0 + k
          /\ nloop(L) > period(L) /\ ~InStep(L) => tmod' = n % period(L)
    BY <1>5
  <2> QED BY <1>1, <1>2, <2>1, <2>2 DEF Inducted
<1> QED BY <1>4, <1>5

LEMMA PositionedNext ==
  ASSUME UNCHANGED generated, cur' = cur, NEW n,
         L.vl0 % jj # 0 /\ jj % L.vl0 # 0 /\ ~cycpre(L) => sqij' = [k \in Lanes(L.vl0) |-> At(n, k)]
  PROVE  Positioned(n)'
<1>1. L' = L /\ jj' = jj
  BY DEF generated, jj, L
<1>2. cycpre(L)' = cycpre(L)
  BY <1>1 DEF cycpre
<1>3. [k \in Lanes(L.vl0) |-> At(n, k)'] = [k \in Lanes(L.vl0) |-> At(n, k)]
  BY <1>1 DEF At
<1> QED BY <1>1, <1>2, <1>3 DEF Positioned

(* Dividing positions that are below what the macro divides.               *)
LEMMA Divided ==
  ASSUME ExactFast, jj \in Nat \ {0}, NEW D, NEW s \in [D -> 0..(Safe - 1)]
  PROVE  /\ Quotients(s) \in [D -> Int] /\ Remainders(s) \in [D -> Lanes(jj)]
         /\ \A k \in D : Quotients(s)[k] * jj + Remainders(s)[k] = s[k]
<1>1. ASSUME NEW x \in 0..(Safe - 1)
      PROVE  /\ x \div jj \in Int /\ x % jj \in 0..(jj - 1) /\ (x \div jj) * jj + (x % jj) = x
  <2>1. x \in Int
    OBVIOUS
  <2>2. x \div jj \in Int /\ x % jj \in 0..(jj - 1) /\ x = jj * (x \div jj) + (x % jj)
    BY <2>1, DivFacts
  <2> DEFINE q == x \div jj
             r == x % jj
  <2>3. q \in Int /\ r \in Int /\ x = jj * q + r
    BY <2>2
  <2> HIDE DEF q, r
  <2>4. q * jj + r = x
    BY <2>3
  <2> QED BY <2>2, <2>4 DEF q, r
<1>2. ASSUME NEW k \in D
      PROVE  Quotients(s)[k] = s[k] \div jj /\ Remainders(s)[k] = s[k] % jj
  BY DEF ExactFast, Quotients, Remainders
<1>3. Quotients(s) \in [D -> Int]
  <2>1. Quotients(s) = [k \in D |-> Quotients(s)[k]]
    BY DEF Quotients
  <2> QED BY <1>1, <1>2, <2>1
<1>4. Remainders(s) \in [D -> Lanes(jj)]
  <2>1. Remainders(s) = [k \in D |-> Remainders(s)[k]]
    BY DEF Remainders
  <2> QED BY <1>1, <1>2, <2>1 DEF Lanes
<1> QED BY <1>1, <1>2, <1>3, <1>4

(* Positions of a call are below what the macro divides.                   *)
LEMMA AtBounds ==
  ASSUME Sound(L), NEW n \in Nat, n < nloop(L), NEW k \in Lanes(L.vl0)
  PROVE  At(n, k) \in 0..(Safe - 1) /\ At(n + 1, k) = At(n, k) + L.vl0 /\ At(0, k) = L.ilo * jj + k
<1> DEFINE v == L.vl0
           I == iijj(L)
<1>1. /\ v \in Nat \ {0} /\ jj \in Nat \ {0} /\ L.ilo \in Nat /\ I \in Nat \ {0}
      /\ nloop(L) = CeilDiv(I, v) /\ L.ilo * jj + I + v < Safe /\ Safe \in Nat
  BY WordAssumption DEF Sound
<1>2. k \in Nat /\ k < v
  BY <1>1 DEF Lanes
<1> HIDE DEF v, I
<1>3. n * v < I
  BY <1>1, CallCount
<1>4. n * v \in Nat /\ L.ilo * jj \in Nat
  BY <1>1
<1>5. At(n, k) = L.ilo * jj + n * v + k
  BY DEF At, v
<1>6. At(n + 1, k) = L.ilo * jj + (n + 1) * v + k
  BY DEF At, v
<1>7. (n + 1) * v = n * v + v
  BY <1>1
<1>8. At(0, k) = L.ilo * jj + k
  <2>1. 0 * v = 0
    BY <1>1
  <2> QED BY <1>2, <1>4, <2>1 DEF At, v
<1> DEFINE A == L.ilo * jj
           M == n * v
<1>9. A \in Nat /\ M \in Nat /\ At(n, k) = A + M + k /\ At(n + 1, k) = A + (M + v) + k /\ M < I /\ A + I + v < Safe
  BY <1>1, <1>3, <1>4, <1>5, <1>6, <1>7
<1> HIDE DEF A, M
<1>10. At(n, k) \in 0..(Safe - 1) /\ At(n + 1, k) = At(n, k) + v
  BY <1>1, <1>2, <1>9
<1> QED BY <1>8, <1>10 DEF v

(* On entering a loop the registers are those of its first call, and the   *)
(* precalculated rows are one turn before it.                              *)
LEMMA EnterStep ==
  ASSUME GenInv, Control, FastInv, LoopInv, Enter
  PROVE  LoopInv'
<1> DEFINE l == L
           v == l.vl0
           start == Sq(v, l.ilo * jj)
<1>1. /\ UNCHANGED generated /\ cur' = cur /\ cur \in DOMAIN loops /\ pc = "enter" /\ pc' = "call"
      /\ bcyc' = bcyc /\ acyc' = [acyc EXCEPT ![cur] = Rewound(l)]
      /\ sqij' = start /\ tmod' = 0 /\ u' = 0 /\ cnt' = iijj(l) /\ vl' = v
  BY DEF Enter, L, Control
<1>2. IF ~fp_sets_ab(l) THEN UNCHANGED <<a, b>>
      ELSE IF jj = 1 THEN a' = Sq(v, l.ilo) /\ b' = Same(v, 0)
      ELSE IF jj >= v THEN a' = Same(v, l.ilo) /\ b' = Sq(v, 0)
      ELSE a' = Quotients(start) /\ b' = Remainders(start)
  BY DEF Enter, L
<1>3. Sound(l)
  BY <1>1, SoundLoops DEF L
<1>4. /\ v \in Nat \ {0} /\ jj \in Nat \ {0} /\ l.ilo \in Nat /\ nloop(l) \in Nat \ {0}
      /\ l.unroll \in Nat \ {0} /\ iijj(l) \in Nat
  BY <1>3 DEF Sound
<1>5. PICK m \in 0..(nloop(L) - 1) :
        /\ DOMAIN acyc = DOMAIN loops /\ DOMAIN bcyc = DOMAIN loops
        /\ \A i \in DOMAIN loops : Cycled(loops[i], acyc[i], bcyc[i], Made(i, m))
  BY <1>1 DEF LoopInv
<1>6. \A i \in DOMAIN loops : Cycled(loops[i], acyc[i], bcyc[i], nloop(loops[i]))
  <2>1. \A i \in DOMAIN loops : Made(i, m) = nloop(loops[i])
    BY <1>1 DEF Made, InBody
  <2> QED BY <1>5, <2>1
<1>7. 0 % l.unroll = 0
  <2>1. (0 * l.unroll) % l.unroll = 0
    BY <1>4, MultipleMod
  <2>2. 0 * l.unroll = 0
    BY <1>4
  <2> QED BY <2>1, <2>2
<1> HIDE DEF l, v
<1>8. ASSUME NEW k \in Lanes(v)
      PROVE  At(0, k) \in 0..(Safe - 1) /\ At(0, k) = l.ilo * jj + k /\ k \in Nat /\ k < v
  <2>1. k \in Nat /\ k < v
    BY <1>4 DEF Lanes
  <2>2. At(0, k) \in 0..(Safe - 1) /\ At(0, k) = l.ilo * jj + k
    BY <1>3, <1>4, AtBounds DEF l, v
  <2> QED BY <2>1, <2>2
<1>9. start = [k \in Lanes(v) |-> At(0, k)]
  BY <1>8 DEF Sq
<1>10. Positioned(0)'
  BY <1>1, <1>9, PositionedNext DEF l, v
<1>11. ASSUME fp_sets_ab(l)
       PROVE  /\ a' \in [Lanes(v) -> Int] /\ b' \in [Lanes(v) -> Lanes(jj)]
              /\ \A k \in Lanes(v) : a'[k] * jj + b'[k] = At(0, k)
              /\ v % jj # 0 /\ jj % v = 0 =>
                   /\ \A k \in Lanes(v) : b'[k] = (0 % period(l)) * v + k
                   /\ 0 = 0 % period(l)
  <2>1. CASE jj = 1
    <3>1. a' = Sq(v, l.ilo) /\ b' = Same(v, 0)
      BY <1>2, <1>11, <2>1
    <3>2. a' \in [Lanes(v) -> Int] /\ \A k \in Lanes(v) : a'[k] = l.ilo + k
      BY <1>4, <1>8, <3>1 DEF Sq
    <3>3. b' \in [Lanes(v) -> Lanes(jj)] /\ \A k \in Lanes(v) : b'[k] = 0
      BY <2>1, <3>1 DEF Same, Lanes
    <3>4. v % jj = 0
      BY <1>4, <2>1
    <3>5. ASSUME NEW k \in Lanes(v) PROVE a'[k] * jj + b'[k] = At(0, k)
      BY <1>4, <1>8, <2>1, <3>2, <3>3, <3>5
    <3> QED BY <3>2, <3>3, <3>4, <3>5
  <2>2. CASE jj # 1 /\ jj >= v
    <3>1. a' = Same(v, l.ilo) /\ b' = Sq(v, 0)
      BY <1>2, <1>11, <2>2
    <3>2. a' \in [Lanes(v) -> Int] /\ \A k \in Lanes(v) : a'[k] = l.ilo
      BY <1>4, <3>1 DEF Same
    <3>3. b' \in [Lanes(v) -> Lanes(jj)] /\ \A k \in Lanes(v) : b'[k] = k
      BY <1>4, <1>8, <2>2, <3>1 DEF Sq, Lanes
    <3>4. ASSUME NEW k \in Lanes(v) PROVE a'[k] * jj + b'[k] = At(0, k)
      BY <1>8, <3>2, <3>3, <3>4
    <3>5. ASSUME v % jj # 0, jj % v = 0
          PROVE  /\ \A k \in Lanes(v) : b'[k] = (0 % period(l)) * v + k
                 /\ 0 = 0 % period(l)
      <4> DEFINE P == period(l)
      <4>1. P \in Nat \ {0}
        <5>1. jj \div v \in Int /\ jj = v * (jj \div v) + (jj % v)
          BY <1>4, DivFacts
        <5>2. jj \div v # 0
          BY <1>4, <3>5, <5>1
        <5>3. jj \div v \in Nat
          BY <1>4, FloorMultiple
        <5> QED BY <5>2, <5>3 DEF period, v
      <4> HIDE DEF P
      <4>2. 0 % P = 0
        <5>1. (0 * P) % P = 0 /\ 0 * P = 0
          BY <4>1, MultipleMod
        <5> QED BY <5>1
      <4>3. \A k \in Lanes(v) : (0 % P) * v + k = k
        BY <1>4, <1>8, <4>2
      <4> QED BY <3>3, <4>2, <4>3 DEF P
    <3> QED BY <3>2, <3>3, <3>4, <3>5
  <2>3. CASE jj # 1 /\ jj < v
    <3>1. a' = Quotients(start) /\ b' = Remainders(start)
      BY <1>2, <1>4, <1>11, <2>3
    <3>2. ExactFast
      <4>1. UsesDivmod(l)
        BY <2>3 DEF UsesDivmod, v
      <4> QED BY <1>1, <4>1 DEF FastInv, L, l
    <3>3. start \in [Lanes(v) -> 0..(Safe - 1)]
      BY <1>8, <1>9
    <3> HIDE DEF start
    <3>4. /\ a' \in [Lanes(v) -> Int] /\ b' \in [Lanes(v) -> Lanes(jj)]
          /\ \A k \in Lanes(v) : a'[k] * jj + b'[k] = start[k]
      BY <1>4, <3>1, <3>2, <3>3, Divided
    <3>5. jj % v # 0
      <4>1. jj % v \in 0..(v - 1) /\ jj \div v \in Int /\ jj = v * (jj \div v) + (jj % v)
        BY <1>4, DivFacts
      <4>2. jj \div v = 0
        <5>1. v * 0 <= jj /\ jj < v * 0 + v
          BY <1>4, <2>3
        <5> QED BY <1>4, <5>1, DivUnique
      <4>3. v * (jj \div v) = 0
        BY <1>4, <4>2
      <4> QED BY <1>4, <4>1, <4>3
    <3> QED BY <1>9, <3>4, <3>5
  <2> QED BY <1>4, <2>1, <2>2, <2>3
<1>12. Inducted(0)'
  BY <1>1, <1>11, InductedNext DEF l, v
<1>13. ASSUME NEW i \in DOMAIN loops
       PROVE  Cycled(loops[i], acyc'[i], bcyc'[i], IF i = cur THEN 0 ELSE nloop(loops[i]))
  <2>1. CASE i # cur
    BY <1>1, <1>5, <1>6, <2>1
  <2>2. CASE i = cur
    <3>1. acyc'[i] = Rewound(l) /\ bcyc'[i] = bcyc[i] /\ loops[i] = l
      BY <1>1, <1>5, <2>2 DEF L, l
    <3>2. /\ acyc[i] = [c \in Cycle(l) |-> AcycAt(l, c, Turns(nloop(l), l.cyc, c))]
          /\ bcyc[i] = [c \in Cycle(l) |-> BcycAt(l, c)]
      BY <1>6, <3>1 DEF Cycled
    <3>3. ASSUME NEW c \in Cycle(l)
          PROVE  Plus(acyc[cur][c], -(Turns(nloop(l), l.cyc, c) * cyc_aincr(l))) = AcycAt(l, c, Turns(0, l.cyc, c))
      <4> DEFINE t == Turns(nloop(l), l.cyc, c)
                 d == cyc_aincr(l)
      <4>1. cycpre(l)
        BY <3>3 DEF Cycle
      <4>2. d \in Nat /\ l.cyc \in Nat \ {0} /\ c \in 0..(l.cyc - 1)
        BY <1>3, <3>3, <4>1, CycleFacts
      <4>3. t \in Nat /\ Turns(0, l.cyc, c) = 0
        <5>1. nloop(l) \in Nat
          BY <1>4
        <5> QED BY <4>2, <5>1, TurnsFacts
      <4> HIDE DEF t, d
      <4>4. acyc[cur][c] = [k \in Lanes(v) |-> l.ilo + ((c * v + k) \div jj) + (t - 1) * d]
        BY <2>2, <3>2, <3>3 DEF AcycAt, t, d, v
      <4>5. ASSUME NEW k \in Lanes(v)
            PROVE  (l.ilo + ((c * v + k) \div jj) + (t - 1) * d) + (-(t * d))
                   = l.ilo + ((c * v + k) \div jj) + (0 - 1) * d
        <5> DEFINE x == c * v + k
        <5>1. x \in Int
          BY <1>4, <1>8, <4>2, <4>5
        <5> HIDE DEF x
        <5>2. x \div jj \in Int
          BY <1>4, <5>1, DivFacts
        <5> DEFINE e == x \div jj
                   A == (t - 1) * d
                   B == t * d
                   C == (0 - 1) * d
        <5>3. A \in Int /\ B \in Int /\ C \in Int /\ A - B = C
          BY <4>2, <4>3
        <5>4. e \in Int /\ l.ilo \in Int
          BY <1>4, <5>2
        <5> HIDE DEF e, A, B, C
        <5>5. (l.ilo + e + A) + (-B) = l.ilo + e + C
          BY <5>3, <5>4
        <5> QED BY <5>5 DEF e, A, B, C, x
      <4>6. Plus(acyc[cur][c], -(t * d)) = [k \in Lanes(v) |-> l.ilo + ((c * v + k) \div jj) + (0 - 1) * d]
        BY <4>4, <4>5 DEF Plus
      <4> QED BY <4>3, <4>6 DEF AcycAt, t, d, v
    <3>4. Rewound(l) = [c \in Cycle(l) |-> AcycAt(l, c, Turns(0, l.cyc, c))]
      BY <3>3 DEF Rewound
    <3> QED BY <2>2, <3>1, <3>2, <3>4 DEF Cycled
  <2> QED BY <2>1, <2>2
<1>14. DOMAIN acyc' = DOMAIN loops /\ DOMAIN bcyc' = DOMAIN loops
  BY <1>1, <1>5
<1>15. /\ 0 \in 0..(nloop(L) - 1) /\ u' = 0 % L.unroll /\ vl' = L.vl0 /\ cnt' = iijj(L) - 0 * L.vl0
       /\ 0 = IF pc' = "call" THEN 0 ELSE 0 + 1
  BY <1>1, <1>4, <1>7 DEF l, v
<1> QED BY <1>1, <1>10, <1>12, <1>13, <1>14, <1>15, NextBody

LEMMA NextTurn ==
  ASSUME NEW l, Sound(l), cycpre(l), NEW c \in Nat, NEW t \in Nat
  PROVE  Plus(AcycAt(l, c, t), cyc_aincr(l)) = AcycAt(l, c, t + 1)
<1> DEFINE v == l.vl0
           d == cyc_aincr(l)
<1>1. v \in Nat \ {0} /\ d \in Nat /\ jj \in Nat \ {0} /\ l.ilo \in Nat
  BY CycleFacts DEF Sound
<1> HIDE DEF v, d
<1>2. ASSUME NEW k \in Lanes(v)
      PROVE  (l.ilo + ((c * v + k) \div jj) + (t - 1) * d) + d
             = l.ilo + ((c * v + k) \div jj) + ((t + 1) - 1) * d
  <2> DEFINE x == c * v + k
  <2>1. x \in Int
    BY <1>1 DEF Lanes
  <2> HIDE DEF x
  <2>2. x \div jj \in Int
    BY <1>1, <2>1, DivFacts
  <2> DEFINE e == x \div jj
             A == (t - 1) * d
             B == ((t + 1) - 1) * d
  <2>3. A \in Int /\ B \in Int /\ A + d = B /\ e \in Int
    BY <1>1, <2>2
  <2> HIDE DEF e, A, B
  <2>4. (l.ilo + e + A) + d = l.ilo + e + B
    BY <1>1, <2>3
  <2> QED BY <2>4 DEF e, A, B, x
<1>3. AcycAt(l, c, t) = [k \in Lanes(v) |-> l.ilo + ((c * v + k) \div jj) + (t - 1) * d]
  BY DEF AcycAt, v, d
<1>4. AcycAt(l, c, t + 1) = [k \in Lanes(v) |-> l.ilo + ((c * v + k) \div jj) + ((t + 1) - 1) * d]
  BY DEF AcycAt, v, d
<1>5. Plus(AcycAt(l, c, t), d) = [k \in Lanes(v) |-> (l.ilo + ((c * v + k) \div jj) + (t - 1) * d) + d]
  BY <1>3 DEF Plus
<1> QED BY <1>2, <1>4, <1>5 DEF d

(* The call that a loop has come to: which copy of the body makes it, what *)
(* is left after it, and that the copy that leaves is that of the last one.*)
LEMMA CallFacts ==
  ASSUME GenInv, Control, Call, NEW n \in 0..(nloop(L) - 1), InCall(n)
  PROVE  /\ Sound(L) /\ n \in Nat /\ n < nloop(L) /\ n * L.vl0 \in Nat /\ n * L.vl0 < iijj(L)
         /\ cnt = iijj(L) - n * L.vl0 /\ cnt > 0 /\ vl = L.vl0
         /\ cnt' = iijj(L) - (n + 1) * L.vl0
         /\ (cnt' > 0 <=> n + 1 < nloop(L))
         /\ cnt' > 0 => vl' = L.vl0
         /\ n + 1 = nloop(L) => u = last_iter(L)
         /\ full_unroll(L) => u = n
         /\ cycpre(L) => u % L.cyc = n % L.cyc
         /\ ExitTest(L) \/ (full_unroll(L) /\ u = L.unroll - 1) => n + 1 = nloop(L)
<1> DEFINE l == L
           v == l.vl0
           I == iijj(l)
           N == nloop(l)
           un == l.unroll
<1>1. Sound(l) /\ pc = "call"
  BY SoundLoops DEF L, Control, Call
<1>2. /\ v \in Nat \ {0} /\ I \in Nat \ {0} /\ N \in Nat \ {0} /\ N = CeilDiv(I, v)
      /\ un \in Nat \ {0} /\ un <= N /\ l.cyc \in Nat
  BY <1>1 DEF Sound
<1>3. /\ u = n % un /\ vl = v /\ cnt = I - n * v
  BY <1>1 DEF InCall
<1>4. cnt' = cnt - v /\ vl' = CallLength(l)
  BY DEF Call, L
<1>5. n \in Nat /\ n + 1 \in Nat /\ n < N
  BY <1>2
<1>6. n * v < I /\ n * v \in Nat
  <2> HIDE DEF l, v, I, N
  <2> QED BY <1>2, <1>5, CallCount
<1>7. (n + 1) * v < I <=> n + 1 < N
  <2> HIDE DEF l, v, I, N
  <2> QED BY <1>2, <1>5, CallCount
<1>8. (n + 1) * v = n * v + v
  <2> HIDE DEF l, v
  <2> QED BY <1>2, <1>5
<1>9. cnt' = I - (n + 1) * v /\ cnt > 0 /\ (cnt' > 0 <=> n + 1 < N)
  <2> DEFINE M == n * v
             R == (n + 1) * v
  <2>1. M \in Nat /\ R = M + v /\ cnt = I - M /\ (R < I <=> n + 1 < N) /\ M < I
    BY <1>3, <1>6, <1>7, <1>8
  <2> HIDE DEF l, v, I, N, M, R
  <2>2. cnt' = I - R /\ cnt > 0 /\ (cnt' > 0 <=> n + 1 < N)
    BY <1>2, <1>4, <2>1
  <2> QED BY <2>2 DEF R
<1>10. cnt' > 0 => vl' = v
  <2> HIDE DEF v
  <2>1. cnt \in Int
    BY <1>2, <1>3, <1>6 DEF v
  <2>2. cnt' > 0 => cnt > v
    BY <1>2, <1>4, <2>1
  <2> QED BY <1>2, <1>3, <1>4, <2>1, <2>2 DEF CallLength, Least, v
<1>11. n + 1 = N => u = last_iter(l)
  <2>1. ((N % un) + un - 1) % un = (N - 1) % un
    <3> HIDE DEF N, un
    <3> QED BY <1>2, LastCopy
  <2>2. n + 1 = N => N - 1 = n
    BY <1>2, <1>5
  <2> QED BY <1>3, <2>1, <2>2 DEF last_iter
<1>12. full_unroll(l) => u = n
  <2>1. full_unroll(l) => un = N
    BY DEF full_unroll
  <2>2. n % N = n
    <3> HIDE DEF N
    <3>0. n \in Int /\ N \in Nat \ {0}
      BY <1>2, <1>5
    <3>1. n \div N \in Int /\ n % N \in 0..(N - 1) /\ n = N * (n \div N) + (n % N)
      BY <3>0, DivFacts
    <3>2. n \div N = 0
      <4>1. N * 0 <= n /\ n < N * 0 + N
        BY <1>2, <1>5
      <4> QED BY <1>2, <1>5, <4>1, DivUnique
    <3>3. N * (n \div N) = 0
      BY <1>2, <3>2
    <3> QED BY <1>5, <3>1, <3>3
  <2> QED BY <1>3, <2>1, <2>2
<1>13. cycpre(l) => u % l.cyc = n % l.cyc
  <2>1. cycpre(l) => un % l.cyc = 0 /\ l.cyc \in Nat \ {0}
    BY <1>2 DEF cycpre
  <2> HIDE DEF un
  <2> QED BY <1>2, <1>3, <1>5, <2>1, ModMod
<1>14. ExitTest(l) \/ (full_unroll(l) /\ u = l.unroll - 1) => n + 1 = N
  <2>1. ExitTest(l) => ~(cnt' > 0)
    <3> HIDE DEF v
    <3>1. cnt \in Int
      BY <1>2, <1>3, <1>6 DEF v
    <3> QED BY <1>2, <1>4, <3>1 DEF ExitTest, v
  <2>2. ExitTest(l) => n + 1 = N
    BY <1>2, <1>5, <1>9, <2>1
  <2>3. full_unroll(l) /\ u = un - 1 => n + 1 = N
    BY <1>2, <1>5, <1>12 DEF full_unroll
  <2> QED BY <2>2, <2>3
<1> QED BY <1>1, <1>3, <1>5, <1>6, <1>9, <1>10, <1>11, <1>12, <1>13, <1>14

LEMMA CallStep ==
  ASSUME GenInv, Control, LoopInv, Call
  PROVE  LoopInv'
<1> DEFINE l == L
<1>1. /\ UNCHANGED generated /\ pc = "call" /\ cur \in DOMAIN loops /\ bcyc' = bcyc /\ u' = u
      /\ sqij' = sqij /\ tmod' = tmod
      /\ acyc' = IF cycpre(l) THEN [acyc EXCEPT ![cur][u % l.cyc] = Plus(@, cyc_aincr(l))] ELSE acyc
      /\ fp_sets_ab(l) => a' = a /\ b' = b
      /\ IF ExitTest(l) \/ (full_unroll(l) /\ u = l.unroll - 1)
         THEN Leave ELSE pc' = "induce" /\ UNCHANGED <<pass, cur>>
  BY DEF Call, Control, L
<1>2. PICK n \in 0..(nloop(l) - 1) :
        /\ InCall(n) /\ Inducted(n) /\ Positioned(n)
        /\ DOMAIN acyc = DOMAIN loops /\ DOMAIN bcyc = DOMAIN loops
        /\ \A i \in DOMAIN loops : Cycled(loops[i], acyc[i], bcyc[i], Made(i, n))
  BY <1>1 DEF LoopInv, InBody
<1>3. /\ Sound(l) /\ n \in Nat /\ n < nloop(l)
      /\ cnt' = iijj(l) - (n + 1) * l.vl0
      /\ (cnt' > 0 <=> n + 1 < nloop(l))
      /\ cnt' > 0 => vl' = l.vl0
      /\ n + 1 = nloop(l) => u = last_iter(l)
      /\ cycpre(l) => u % l.cyc = n % l.cyc
      /\ ExitTest(l) \/ (full_unroll(l) /\ u = l.unroll - 1) => n + 1 = nloop(l)
  BY <1>2, CallFacts
<1>4. \A i \in DOMAIN loops : Made(i, n) = IF i = cur THEN n ELSE nloop(loops[i])
  BY <1>1 DEF Made, InBody
<1> HIDE DEF l
<1>5. ASSUME NEW i \in DOMAIN loops
      PROVE  Cycled(loops[i], acyc'[i], bcyc'[i], IF i = cur THEN n + 1 ELSE nloop(loops[i]))
  <2>1. CASE i # cur
    <3>1. acyc'[i] = acyc[i] /\ bcyc'[i] = bcyc[i]
      BY <1>1, <2>1
    <3> QED BY <1>2, <1>4, <2>1, <3>1
  <2>2. CASE i = cur
    <3>1. /\ loops[i] = l
          /\ acyc[i] = [c \in Cycle(l) |-> AcycAt(l, c, Turns(n, l.cyc, c))]
          /\ bcyc[i] = [c \in Cycle(l) |-> BcycAt(l, c)]
      BY <1>2, <1>4, <2>2 DEF Cycled, L, l
    <3>2. CASE ~cycpre(l)
      <4>1. Cycle(l) = {} /\ acyc'[i] = acyc[i] /\ bcyc'[i] = bcyc[i]
        BY <1>1, <3>2 DEF Cycle
      <4> QED BY <2>2, <3>1, <4>1 DEF Cycled
    <3>3. CASE cycpre(l)
      <4> DEFINE h == n % l.cyc
      <4>1. Cycle(l) = 0..(l.cyc - 1) /\ l.cyc \in Nat \ {0}
        BY <1>3, <3>3, CycleFacts
      <4>2. h \in 0..(l.cyc - 1)
        BY <1>3, <4>1, NextMod
      <4>3. acyc'[i] = [acyc[i] EXCEPT ![h] = Plus(@, cyc_aincr(l))]
        BY <1>1, <1>2, <1>3, <2>2, <3>3
      <4>4. ASSUME NEW c \in 0..(l.cyc - 1)
            PROVE  acyc'[i][c] = AcycAt(l, c, Turns(n + 1, l.cyc, c))
        <5>1. /\ Turns(n, l.cyc, c) \in Nat
              /\ Turns(n + 1, l.cyc, c) = Turns(n, l.cyc, c) + (IF c = n % l.cyc THEN 1 ELSE 0)
          BY <1>3, <4>1, TurnsFacts
        <5>2. CASE c = h
          <6>1. acyc'[i][c] = Plus(AcycAt(l, c, Turns(n, l.cyc, c)), cyc_aincr(l))
            BY <3>1, <4>1, <4>3, <5>2
          <6>2. Plus(AcycAt(l, c, Turns(n, l.cyc, c)), cyc_aincr(l)) = AcycAt(l, c, Turns(n, l.cyc, c) + 1)
            <7>1. c \in Nat
              BY <4>1
            <7> QED BY <1>3, <3>3, <5>1, <7>1, NextTurn
          <6> QED BY <5>1, <5>2, <6>1, <6>2
        <5>3. CASE c # h
          <6>1. acyc'[i][c] = AcycAt(l, c, Turns(n, l.cyc, c))
            BY <3>1, <4>1, <4>3, <5>3
          <6>2. Turns(n + 1, l.cyc, c) = Turns(n, l.cyc, c)
            BY <5>1, <5>3
          <6> QED BY <6>1, <6>2
        <5> QED BY <5>2, <5>3
      <4>5. acyc'[i] = [c \in Cycle(l) |-> AcycAt(l, c, Turns(n + 1, l.cyc, c))]
        <5>1. acyc'[i] = [c \in 0..(l.cyc - 1) |-> acyc'[i][c]]
          BY <3>1, <4>1, <4>3
        <5> QED BY <4>1, <4>4, <5>1
      <4> QED BY <1>1, <2>2, <3>1, <4>5 DEF Cycled
    <3> QED BY <3>2, <3>3
  <2> QED BY <2>1, <2>2
<1>6. DOMAIN acyc' = DOMAIN loops /\ DOMAIN bcyc' = DOMAIN loops
  BY <1>1, <1>2
<1>7. CASE ExitTest(l) \/ (full_unroll(l) /\ u = l.unroll - 1)
  <2>1. n + 1 = nloop(l) /\ Leave
    BY <1>1, <1>3, <1>7
  <2>2. \A i \in DOMAIN loops : Cycled(loops[i], acyc'[i], bcyc'[i], nloop(loops[i]))
    BY <1>5, <2>1 DEF L, l
  <2>3. /\ pc' \in {"enter", "done"}
        /\ pc' = "enter" => cur' \in DOMAIN loops
    <3>1. /\ pc' \in {"enter", "done"}
          /\ pc' = "enter" => cur' \in DOMAIN loops'
      BY <1>1, <2>1, LeaveControl
    <3> QED BY <1>1, <3>1 DEF generated
  <2> QED BY <1>1, <1>6, <2>2, <2>3, NextEnter
<1>8. CASE ~(ExitTest(l) \/ (full_unroll(l) /\ u = l.unroll - 1))
  <2>1. pc' = "induce" /\ cur' = cur
    BY <1>1, <1>8
  <2>2. Inducted(n)'
    <3>1. /\ fp_sets_ab(L) => a' = a /\ b' = b
          /\ tmod' = tmod
      BY <1>1 DEF l
    <3> QED BY <1>1, <1>2, <2>1, <3>1, InductedNext DEF Inducted
  <2>3. Positioned(n)'
    BY <1>1, <1>2, <2>1, PositionedNext DEF Positioned
  <2>4. cnt' > 0 \/ u' = l.unroll - 1
    <3>1. ASSUME ~(cnt' > 0), u # l.unroll - 1 PROVE FALSE
      <4>1. n + 1 = nloop(l)
        BY <1>3, <3>1 DEF Sound
      <4>2. cnt' = cnt - l.vl0
        BY DEF Call, L, l
      <4>3. cnt \in Int /\ l.vl0 \in Int
        <5>1. InCall(n) /\ n * L.vl0 \in Nat /\ cnt = iijj(L) - n * L.vl0 /\ iijj(L) \in Nat /\ L.vl0 \in Nat
          BY <1>2, CallFacts DEF Sound, l
        <5> QED BY <5>1 DEF l
      <4>4. cnt - l.vl0 <= 0
        BY <3>1, <4>2, <4>3
      <4>5. ExitTest(l)
        BY <1>3, <3>1, <4>1, <4>4 DEF ExitTest
      <4> QED BY <1>8, <4>5
    <3> QED BY <1>1, <3>1
  <2>5. u' = n % L.unroll /\ n \in 0..(nloop(L) - 1)
    BY <1>1, <1>2 DEF InCall, l
  <2>6. n + 1 = IF pc' = "call" THEN n ELSE n + 1
    BY <2>1
  <2> QED BY <1>1, <1>3, <1>5, <1>6, <2>1, <2>2, <2>3, <2>4, <2>5, <2>6, NextBody DEF l
<1> QED BY <1>7, <1>8

(* Moving on to the next call.                                             *)
LEMMA RowsStep ==
  ASSUME Sound(L), NEW n \in Nat, n + 1 < nloop(L), Inducted(n), fp_sets_ab(L), InduceRows(L)
  PROVE  /\ a' \in [Lanes(L.vl0) -> Int] /\ b' \in [Lanes(L.vl0) -> Lanes(jj)]
         /\ \A k \in Lanes(L.vl0) : a'[k] * jj + b'[k] = At(n + 1, k)
         /\ L.vl0 % jj = 0
<1> DEFINE v == L.vl0
           w == v \div jj
<1>1. v \in Nat \ {0} /\ jj \in Nat \ {0} /\ nloop(L) \in Nat
  BY DEF Sound
<1>2. v % jj = 0 /\ a' = Plus(a, w) /\ b' = b
  BY DEF InduceRows
<1>3. /\ a \in [Lanes(v) -> Int] /\ b \in [Lanes(v) -> Lanes(jj)]
      /\ \A k \in Lanes(v) : a[k] * jj + b[k] = At(n, k)
  BY DEF Inducted
<1>4. w \in Int /\ w * jj = v
  <2>1. v \in Int
    BY <1>1
  <2> HIDE DEF v
  <2>2. v \div jj \in Int /\ v = jj * (v \div jj) + (v % jj)
    BY <1>1, <2>1, DivFacts
  <2>3. w \in Int /\ v = jj * w + 0
    BY <1>2, <2>2
  <2> HIDE DEF w
  <2> QED BY <1>1, <2>3
<1> HIDE DEF v, w
<1>5. a' \in [Lanes(v) -> Int] /\ \A k \in Lanes(v) : a'[k] = a[k] + w
  BY <1>2, <1>3, <1>4 DEF Plus
<1>6. ASSUME NEW k \in Lanes(v) PROVE a'[k] * jj + b'[k] = At(n + 1, k)
  <2>1. At(n + 1, k) = At(n, k) + v /\ At(n, k) \in Int
    BY <1>1, AtBounds DEF v
  <2> DEFINE x == a[k]
             y == b[k]
             z == At(n, k)
  <2>2. x \in Int /\ y \in Int /\ z \in Int /\ x * jj + y = z
    BY <1>1, <1>3, <2>1 DEF Lanes
  <2>3. a'[k] = x + w /\ b'[k] = y
    BY <1>2, <1>5
  <2> HIDE DEF x, y, z
  <2>4. (x + w) * jj = x * jj + w * jj /\ x * jj \in Int
    BY <1>1, <1>4, <2>2
  <2>5. (x + w) * jj + y = z + v
    BY <1>1, <1>4, <2>2, <2>4
  <2> QED BY <2>1, <2>3, <2>5 DEF z
<1> QED BY <1>2, <1>3, <1>5, <1>6 DEF v

\* how often b starts again
LEMMA PeriodOfRow ==
  ASSUME Sound(L), L.vl0 % jj # 0, jj % L.vl0 = 0
  PROVE  period(L) \in Nat \ {0} /\ period(L) * L.vl0 = jj
<1> DEFINE v == L.vl0
           P == jj \div v
<1>1. v \in Nat \ {0} /\ jj \in Nat \ {0}
  BY DEF Sound
<1> HIDE DEF v
<1>2. P \in Int /\ jj = v * P + (jj % v)
  BY <1>1, DivFacts
<1>3. jj % v = 0
  BY DEF v
<1>4. P \in Nat
  BY <1>1, FloorMultiple
<1> HIDE DEF P
<1>5. P # 0 /\ P * v = jj
  BY <1>1, <1>2, <1>3, <1>4
<1> QED BY <1>4, <1>5 DEF period, P, v

LEMMA InRowStep ==
  ASSUME Sound(L), NEW n \in Nat, n + 1 < nloop(L), Inducted(n), fp_sets_ab(L), InduceInRow(L),
         u = n % L.unroll
  PROVE  /\ a' \in [Lanes(L.vl0) -> Int] /\ b' \in [Lanes(L.vl0) -> Lanes(jj)]
         /\ \A k \in Lanes(L.vl0) : a'[k] * jj + b'[k] = At(n + 1, k)
         /\ \A k \in Lanes(L.vl0) : b'[k] = ((n + 1) % period(L)) * L.vl0 + k
         /\ nloop(L) > period(L) /\ ~InStep(L) => tmod' = (n + 1) % period(L)
<1> DEFINE v == L.vl0
           P == period(L)
           N == nloop(L)
           r == n % P
           m == (n + 1) % P
<1>1. v \in Nat \ {0} /\ jj \in Nat \ {0} /\ N \in Nat /\ L.unroll \in Nat \ {0} /\ L.cyc \in Nat
  BY DEF Sound
<1>2. v % jj # 0 /\ jj % v = 0
  BY DEF InduceInRow
<1>3. P \in Nat \ {0} /\ P * v = jj
  BY <1>2, PeriodOfRow
<1>4. /\ a \in [Lanes(v) -> Int] /\ b \in [Lanes(v) -> Lanes(jj)]
      /\ \A k \in Lanes(v) : a[k] * jj + b[k] = At(n, k)
      /\ \A k \in Lanes(v) : b[k] = r * v + k
      /\ N > P /\ ~InStep(L) => tmod = r
  BY <1>2 DEF Inducted
<1>5. /\ r \in 0..(P - 1) /\ m = (IF r = P - 1 THEN 0 ELSE r + 1) /\ m = (r + 1) % P
  <2> HIDE DEF P
  <2> QED BY <1>3, NextMod
<1>6. N > P /\ ~InStep(L) => tmod' = m
  <2>1. tmod' = IF N <= P \/ InStep(L) THEN tmod ELSE (tmod + 1) % P
    BY DEF InduceInRow
  <2> HIDE DEF N, P, r, m
  <2> QED BY <1>1, <1>3, <1>4, <1>5, <2>1
<1>7. InStep(L) => ((u + 1) % L.cyc = 0 <=> m = 0)
  <2> SUFFICES ASSUME InStep(L) PROVE (u + 1) % P = m /\ L.cyc = P
    OBVIOUS
  <2>1. L.cyc = P
    BY <1>2 DEF InStep, Sound, CycleSound
  <2>2. CASE L.unroll % L.cyc = 0
    <3> DEFINE h == L.unroll
    <3>1. (n % h) % P = n % P
      <4>1. h \in Nat \ {0} /\ h % P = 0
        BY <1>1, <2>1, <2>2
      <4> HIDE DEF P, h
      <4> QED BY <1>3, <4>1, ModMod
    <3>2. u \in Nat /\ u % P = r
      <4>1. n % h \in Nat
        <5>1. h \in Nat \ {0}
          BY <1>1
        <5> HIDE DEF h
        <5> QED BY <5>1, NextMod
      <4> QED BY <3>1, <4>1
    <3>3. (u + 1) % P = (IF u % P = P - 1 THEN 0 ELSE (u % P) + 1)
      <4> HIDE DEF P
      <4> QED BY <1>3, <3>2, NextMod
    <3> QED BY <1>5, <2>1, <3>2, <3>3
  <2>3. CASE full_unroll(L)
    <3>1. n % N = n
      <4> HIDE DEF N, P
      <4>1. N \in Nat \ {0} /\ n \in Int /\ n < N
        BY <1>1 DEF N
      <4>2. n \div N \in Int /\ n % N \in 0..(N - 1) /\ n = N * (n \div N) + (n % N)
        BY <4>1, DivFacts
      <4>3. n \div N = 0
        <5>1. N * 0 <= n /\ n < N * 0 + N
          BY <4>1
        <5> QED BY <4>1, <5>1, DivUnique
      <4>4. N * (n \div N) = 0
        BY <4>1, <4>3
      <4> QED BY <4>1, <4>2, <4>4
    <3>2. u = n
      BY <2>3, <3>1 DEF full_unroll
    <3> QED BY <2>1, <3>2
  <2> QED BY <2>1, <2>2, <2>3 DEF InStep
<1> DEFINE reset == N > P /\ (IF InStep(L) THEN (u + 1) % L.cyc = 0 ELSE tmod' = 0)
<1>8. IF reset THEN a' = Plus(a, 1) /\ b' = Sq(v, 0) ELSE b' = Plus(b, v) /\ a' = a
  BY DEF InduceInRow
<1>9. reset <=> m = 0
  <2>1. m = 0 => N > P
    <3>1. ASSUME m = 0, N <= P PROVE FALSE
      <4>1. r = P - 1
        BY <1>3, <1>5, <3>1
      <4>2. P - 1 <= n
        <5>1. P \in Nat \ {0} /\ n \in Int
          BY <1>3
        <5>2. n \div P \in Nat /\ n \div P \in Int /\ n = P * (n \div P) + (n % P)
          <6> HIDE DEF P
          <6> QED BY <5>1, DivFacts, FloorMultiple
        <5> DEFINE q == n \div P
        <5>3. P * q >= 0 /\ P * q \in Int
          BY <5>1, <5>2
        <5> QED BY <4>1, <5>1, <5>2, <5>3
      <4> QED BY <1>1, <1>3, <3>1, <4>2
    <3> QED BY <1>1, <1>3, <3>1
  <2>2. CASE InStep(L)
    BY <1>7, <2>1, <2>2
  <2>3. CASE ~InStep(L)
    BY <1>6, <2>1, <2>3
  <2> QED BY <2>2, <2>3
<1>10. ASSUME NEW k \in Lanes(v)
       PROVE  /\ k \in Nat /\ k < v /\ At(n + 1, k) = At(n, k) + v /\ At(n, k) \in Int
              /\ a[k] \in Int /\ a[k] * jj + b[k] = At(n, k) /\ b[k] = r * v + k
  <2>1. k \in Nat /\ k < v
    BY <1>1 DEF Lanes
  <2>2. At(n + 1, k) = At(n, k) + v /\ At(n, k) \in Int
    BY <1>1, AtBounds
  <2> QED BY <1>4, <2>1, <2>2
<1> HIDE DEF v, P, N, r, m, reset
<1>11. CASE m = 0
  <2>1. a' = Plus(a, 1) /\ b' = Sq(v, 0)
    BY <1>8, <1>9, <1>11
  <2>2. a' \in [Lanes(v) -> Int] /\ \A k \in Lanes(v) : a'[k] = a[k] + 1
    BY <1>4, <2>1 DEF Plus
  <2>3. r = P - 1
    BY <1>3, <1>5, <1>11
  <2>4. v <= jj /\ r * v = jj - v
    <3>1. r * v = P * v - v /\ P * v >= v
      BY <1>1, <1>3, <2>3
    <3> QED BY <1>1, <1>3, <3>1
  <2>5. b' \in [Lanes(v) -> Lanes(jj)] /\ \A k \in Lanes(v) : b'[k] = k
    BY <1>1, <1>10, <2>1, <2>4 DEF Sq, Lanes
  <2>6. ASSUME NEW k \in Lanes(v)
        PROVE  a'[k] * jj + b'[k] = At(n + 1, k) /\ b'[k] = m * v + k
    <3> DEFINE x == a[k]
               y == b[k]
               z == At(n, k)
    <3>1. /\ x \in Int /\ z \in Int /\ k \in Nat /\ x * jj + y = z /\ y = r * v + k
          /\ At(n + 1, k) = z + v
      BY <1>10, <2>6
    <3>2. a'[k] = x + 1 /\ b'[k] = k
      BY <2>2, <2>5, <2>6
    <3> HIDE DEF x, y, z
    <3>3. (x + 1) * jj = x * jj + jj /\ x * jj \in Int
      BY <1>1, <3>1
    <3>4. (x + 1) * jj + k = z + v
      BY <1>1, <2>4, <3>1, <3>3
    <3>5. m * v + k = k
      BY <1>1, <1>11, <3>1
    <3> QED BY <3>1, <3>2, <3>4, <3>5
  <2> QED BY <1>6, <2>2, <2>5, <2>6 DEF v, P, N, m
<1>12. CASE m # 0
  <2>1. b' = Plus(b, v) /\ a' = a
    BY <1>8, <1>9, <1>12
  <2>2. m = r + 1 /\ m < P /\ m \in Nat /\ r \in Nat
    BY <1>3, <1>5, <1>12
  <2>3. m * v = r * v + v /\ m * v + v <= jj /\ m * v \in Nat /\ r * v \in Nat
    <3>1. (m + 1) * v <= P * v
      BY <1>1, <1>3, <2>2
    <3>2. (m + 1) * v = m * v + v
      BY <1>1, <2>2
    <3> QED BY <1>1, <1>3, <2>2, <3>1, <3>2
  <2>4. ASSUME NEW k \in Lanes(v)
        PROVE  a'[k] * jj + b'[k] = At(n + 1, k) /\ b'[k] = m * v + k /\ b'[k] \in Lanes(jj)
    <3>1. b'[k] = b[k] + v
      BY <1>4, <2>1, <2>4 DEF Plus
    <3>2. b'[k] = m * v + k
      BY <1>1, <1>10, <2>3, <2>4, <3>1
    <3>3. b'[k] \in Lanes(jj)
      BY <1>1, <1>10, <2>3, <2>4, <3>2 DEF Lanes
    <3> DEFINE A == a[k] * jj
    <3>4. A \in Int /\ A + b[k] = At(n, k) /\ b[k] \in Int
      BY <1>1, <1>10, <2>3, <2>4
    <3> HIDE DEF A
    <3>5. A + (b[k] + v) = At(n + 1, k)
      BY <1>1, <1>10, <2>4, <3>4
    <3> QED BY <2>1, <3>1, <3>2, <3>3, <3>5 DEF A
  <2>5. b' = [k \in Lanes(v) |-> b'[k]]
    BY <1>4, <2>1 DEF Plus
  <2> QED BY <1>4, <1>6, <2>1, <2>4, <2>5 DEF v, P, N, m
<1> QED BY <1>11, <1>12

LEMMA PositionsStep ==
  ASSUME FastInv, cur \in DOMAIN loops, Sound(L), NEW n \in Nat, n + 1 < nloop(L),
         Positioned(n), InducePositions(L)
  PROVE  /\ ~cycpre(L) => sqij' = [k \in Lanes(L.vl0) |-> At(n + 1, k)]
         /\ L.vl0 % jj # 0 /\ jj % L.vl0 # 0
         /\ fp_sets_ab(L) =>
              /\ a' \in [Lanes(L.vl0) -> Int] /\ b' \in [Lanes(L.vl0) -> Lanes(jj)]
              /\ \A k \in Lanes(L.vl0) : a'[k] * jj + b'[k] = At(n + 1, k)
<1> DEFINE v == L.vl0
<1>1. v \in Nat \ {0} /\ jj \in Nat \ {0} /\ nloop(L) \in Nat
  BY DEF Sound
<1>2. /\ v % jj # 0 /\ jj % v # 0
      /\ sqij' = IF cycpre(L) THEN sqij ELSE Plus(sqij, v)
      /\ fp_sets_ab(L) => a' = Quotients(sqij') /\ b' = Remainders(sqij')
  BY DEF InducePositions
<1>3. ASSUME NEW k \in Lanes(v)
      PROVE  At(n + 1, k) = At(n, k) + v /\ At(n + 1, k) \in 0..(Safe - 1)
  <2>1. At(n + 1, k) = At(n, k) + v
    BY <1>1, AtBounds
  <2>2. At(n + 1, k) \in 0..(Safe - 1)
    BY <1>1, AtBounds
  <2> QED BY <2>1, <2>2
<1>4. ASSUME ~cycpre(L) PROVE sqij' = [k \in Lanes(v) |-> At(n + 1, k)]
  <2>1. sqij = [k \in Lanes(v) |-> At(n, k)]
    BY <1>2, <1>4 DEF Positioned
  <2> HIDE DEF v
  <2>2. Plus(sqij, v) = [k \in Lanes(v) |-> At(n, k) + v]
    BY <2>1 DEF Plus
  <2> QED BY <1>2, <1>3, <1>4, <2>2
<1>5. ASSUME fp_sets_ab(L)
      PROVE  /\ a' \in [Lanes(v) -> Int] /\ b' \in [Lanes(v) -> Lanes(jj)]
             /\ \A k \in Lanes(v) : a'[k] * jj + b'[k] = At(n + 1, k)
  <2>1. ~cycpre(L)
    BY <1>5, CycleFacts
  <2>2. UsesDivmod(L)
    <3>1. v < jj /\ nloop(L) > 1
      BY <1>1, <1>2, <1>5 DEF fp_sets_ab
    <3> QED BY <1>2, <3>1 DEF UsesDivmod
  <2>3. ExactFast
    BY <2>2 DEF FastInv, L
  <2>4. sqij' = [k \in Lanes(v) |-> At(n + 1, k)]
    BY <1>4, <2>1
  <2>5. sqij' \in [Lanes(v) -> 0..(Safe - 1)]
    BY <1>3, <2>4
  <2>6. /\ Quotients(sqij') \in [Lanes(v) -> Int] /\ Remainders(sqij') \in [Lanes(v) -> Lanes(jj)]
        /\ \A k \in Lanes(v) : Quotients(sqij')[k] * jj + Remainders(sqij')[k] = sqij'[k]
    BY <1>1, <2>3, <2>5, Divided
  <2>7. a' = Quotients(sqij') /\ b' = Remainders(sqij')
    BY <1>2, <1>5
  <2> QED BY <2>4, <2>6, <2>7
<1> QED BY <1>2, <1>4, <1>5

(* After the last pairs a loop is left, and never before.                  *)
LEMMA InduceFacts ==
  ASSUME GenInv, Control, Induce, NEW n \in 0..(nloop(L) - 1), InCall(n)
  PROVE  /\ Sound(L) /\ n \in Nat /\ n < nloop(L)
         /\ cnt' = cnt /\ cnt = iijj(L) - (n + 1) * L.vl0
         /\ u = n % L.unroll /\ u' = (n + 1) % L.unroll
         /\ cnt > 0 => vl = L.vl0
         /\ (cnt > 0 <=> n + 1 < nloop(L))
         /\ (LoopTest(L) <=> cnt > 0)
<1> DEFINE v == L.vl0
           I == iijj(L)
           N == nloop(L)
           un == L.unroll
<1>1. Sound(L) /\ pc = "induce"
  BY SoundLoops DEF L, Control, Induce
<1>2. v \in Nat \ {0} /\ I \in Nat \ {0} /\ N \in Nat \ {0} /\ N = CeilDiv(I, v) /\ un \in Nat \ {0}
  BY <1>1 DEF Sound
<1>3. /\ u = n % un /\ cnt = I - (n + 1) * v
      /\ cnt > 0 => vl = v
      /\ cnt > 0 \/ u = un - 1
  BY <1>1 DEF InCall
<1>4. cnt' = cnt /\ u' = (u + 1) % un
  BY DEF Induce, L
<1>5. n \in Nat /\ n + 1 \in Nat /\ n < N
  BY <1>2
<1>6. cnt > 0 <=> n + 1 < N
  <2>1. (n + 1) * v < I <=> n + 1 < N
    <3> HIDE DEF v, I, N
    <3> QED BY <1>2, <1>5, CallCount
  <2> DEFINE R == (n + 1) * v
  <2>2. R \in Int /\ cnt = I - R /\ (R < I <=> n + 1 < N)
    BY <1>2, <1>3, <1>5, <2>1
  <2> HIDE DEF R, I, N
  <2> QED BY <1>2, <2>2
<1>7. u' = (n + 1) % un
  <2>1. (n + 1) % un = ((n % un) + 1) % un
    <3> HIDE DEF un
    <3> QED BY <1>2, <1>5, NextMod
  <2> QED BY <1>3, <1>4, <2>1
<1>8. LoopTest(L) <=> cnt > 0
  BY <1>3 DEF LoopTest
<1> QED BY <1>1, <1>3, <1>4, <1>5, <1>6, <1>7, <1>8

LEMMA InduceStep ==
  ASSUME GenInv, Control, FastInv, LoopInv, Induce
  PROVE  LoopInv'
<1>1. /\ UNCHANGED generated /\ pc = "induce" /\ cur \in DOMAIN loops
      /\ vl' = vl /\ acyc' = acyc /\ bcyc' = bcyc
      /\ InduceRows(L) \/ InduceInRow(L) \/ InducePositions(L)
      /\ IF LoopTest(L) THEN pc' = "call" /\ UNCHANGED <<pass, cur>> ELSE Leave
  BY DEF Induce, Control, L
<1>2. PICK n \in 0..(nloop(L) - 1) :
        /\ InCall(n) /\ Inducted(n) /\ Positioned(n)
        /\ DOMAIN acyc = DOMAIN loops /\ DOMAIN bcyc = DOMAIN loops
        /\ \A i \in DOMAIN loops : Cycled(loops[i], acyc[i], bcyc[i], Made(i, n))
  BY <1>1 DEF LoopInv, InBody
<1>3. /\ Sound(L) /\ n \in Nat /\ n < nloop(L)
      /\ cnt' = cnt /\ cnt = iijj(L) - (n + 1) * L.vl0
      /\ u = n % L.unroll /\ u' = (n + 1) % L.unroll
      /\ cnt > 0 => vl = L.vl0
      /\ (cnt > 0 <=> n + 1 < nloop(L))
      /\ (LoopTest(L) <=> cnt > 0)
  BY <1>2, InduceFacts
<1>4. \A i \in DOMAIN loops : Made(i, n) = IF i = cur THEN n + 1 ELSE nloop(loops[i])
  BY <1>1 DEF Made, InBody
<1>5. \A i \in DOMAIN loops : Cycled(loops[i], acyc'[i], bcyc'[i], IF i = cur THEN n + 1 ELSE nloop(loops[i]))
  BY <1>1, <1>2, <1>4
<1>6. DOMAIN acyc' = DOMAIN loops /\ DOMAIN bcyc' = DOMAIN loops
  BY <1>1, <1>2
<1>7. CASE ~LoopTest(L)
  <2>1. n + 1 = nloop(L) /\ Leave
    BY <1>1, <1>3, <1>7 DEF Sound
  <2>2. \A i \in DOMAIN loops : Cycled(loops[i], acyc'[i], bcyc'[i], nloop(loops[i]))
    BY <1>5, <2>1 DEF L
  <2>3. /\ pc' \in {"enter", "done"}
        /\ pc' = "enter" => cur' \in DOMAIN loops
    <3>1. /\ pc' \in {"enter", "done"}
          /\ pc' = "enter" => cur' \in DOMAIN loops'
      BY <1>1, <2>1, LeaveControl
    <3> QED BY <1>1, <3>1 DEF generated
  <2> QED BY <1>1, <1>6, <2>2, <2>3, NextEnter
<1>8. CASE LoopTest(L)
  <2>1. pc' = "call" /\ cur' = cur /\ n + 1 < nloop(L) /\ cnt > 0 /\ vl' = L.vl0
    BY <1>1, <1>3, <1>8
  <2> SUFFICES Inducted(n + 1)' /\ Positioned(n + 1)'
    <3>1. n + 1 \in 0..(nloop(L) - 1) /\ n + 1 = (IF pc' = "call" THEN n + 1 ELSE (n + 1) + 1)
      BY <1>3, <2>1 DEF Sound
    <3>2. cnt' = iijj(L) - (n + 1) * L.vl0 /\ u' = (n + 1) % L.unroll
      BY <1>3
    <3> QED BY <3>1, <3>2, <1>1, <1>5, <1>6, <2>1, NextBody
  <2>2. CASE InduceRows(L)
    <3>1. L.vl0 % jj = 0
      BY <2>2 DEF InduceRows
    <3>2. Inducted(n + 1)'
      <4>1. fp_sets_ab(L) =>
              /\ a' \in [Lanes(L.vl0) -> Int] /\ b' \in [Lanes(L.vl0) -> Lanes(jj)]
              /\ \A k \in Lanes(L.vl0) : a'[k] * jj + b'[k] = At(n + 1, k)
        BY <1>2, <1>3, <2>1, <2>2, RowsStep
      <4> QED BY <1>1, <2>1, <3>1, <4>1, InductedNext
    <3>3. Positioned(n + 1)'
      BY <1>1, <2>1, <3>1, PositionedNext
    <3> QED BY <3>2, <3>3
  <2>3. CASE InduceInRow(L)
    <3>1. jj % L.vl0 = 0
      BY <2>3 DEF InduceInRow
    <3>2. Inducted(n + 1)'
      <4>1. fp_sets_ab(L) =>
              /\ a' \in [Lanes(L.vl0) -> Int] /\ b' \in [Lanes(L.vl0) -> Lanes(jj)]
              /\ \A k \in Lanes(L.vl0) : a'[k] * jj + b'[k] = At(n + 1, k)
              /\ \A k \in Lanes(L.vl0) : b'[k] = ((n + 1) % period(L)) * L.vl0 + k
              /\ nloop(L) > period(L) /\ ~InStep(L) => tmod' = (n + 1) % period(L)
        BY <1>2, <1>3, <2>1, <2>3, InRowStep
      <4> QED BY <1>1, <2>1, <4>1, InductedNext
    <3>3. Positioned(n + 1)'
      BY <1>1, <2>1, <3>1, PositionedNext
    <3> QED BY <3>2, <3>3
  <2>4. CASE InducePositions(L)
    <3>1. /\ ~cycpre(L) => sqij' = [k \in Lanes(L.vl0) |-> At(n + 1, k)]
          /\ L.vl0 % jj # 0 /\ jj % L.vl0 # 0
          /\ fp_sets_ab(L) =>
               /\ a' \in [Lanes(L.vl0) -> Int] /\ b' \in [Lanes(L.vl0) -> Lanes(jj)]
               /\ \A k \in Lanes(L.vl0) : a'[k] * jj + b'[k] = At(n + 1, k)
      BY <1>1, <1>2, <1>3, <2>1, <2>4, PositionsStep
    <3>2. Inducted(n + 1)'
      BY <1>1, <2>1, <3>1, InductedNext
    <3>3. Positioned(n + 1)'
      BY <1>1, <2>1, <3>1, PositionedNext
    <3> QED BY <3>2, <3>3
  <2> QED BY <1>1, <2>2, <2>3, <2>4
<1> QED BY <1>7, <1>8

-----------------------------------------------------------------------------
(* The invariant.                                                          *)

LEMMA InitInv == Init => IInv
<1> SUFFICES ASSUME Init PROVE IInv
  OBVIOUS
<1>1. GenInv
  BY GenInit
<1>2. Control /\ LoopInv
  BY JobAssumption DEF Init, Control, LoopInv
<1>3. FastInv
  BY DEF Init, FastInv
<1> QED BY <1>1, <1>2, <1>3 DEF IInv

LEMMA StutterLoopInv ==
  ASSUME LoopInv, UNCHANGED vars
  PROVE  LoopInv'
<1>1. /\ loops' = loops /\ jj' = jj /\ L' = L /\ UNCHANGED generated /\ cur' = cur /\ pc' = pc
      /\ a' = a /\ b' = b /\ sqij' = sqij /\ tmod' = tmod /\ acyc' = acyc /\ bcyc' = bcyc
      /\ u' = u /\ vl' = vl /\ cnt' = cnt
  BY DEF vars, generated, registers, jj, L
<1> SUFFICES ASSUME pc' \in {"enter", "call", "induce"}
             PROVE  \E n \in 0..(nloop(L)' - 1) :
                      /\ InBody' => InCall(n)' /\ Inducted(n)' /\ Positioned(n)'
                      /\ DOMAIN acyc' = DOMAIN loops' /\ DOMAIN bcyc' = DOMAIN loops'
                      /\ \A i \in DOMAIN loops' : Cycled(loops[i], acyc[i], bcyc[i], Made(i, n))'
  BY DEF LoopInv
<1>2. PICK n \in 0..(nloop(L) - 1) :
        /\ InBody => InCall(n) /\ Inducted(n) /\ Positioned(n)
        /\ DOMAIN acyc = DOMAIN loops /\ DOMAIN bcyc = DOMAIN loops
        /\ \A i \in DOMAIN loops : Cycled(loops[i], acyc[i], bcyc[i], Made(i, n))
  BY <1>1 DEF LoopInv
<1>3. nloop(L)' = nloop(L) /\ iijj(L)' = iijj(L) /\ InBody' = InBody
  BY <1>1 DEF nloop, iijj, InBody
<1>4. InCall(n) => InCall(n)'
  BY <1>1, <1>3 DEF InCall
<1>5. Inducted(n) => Inducted(n)'
  BY <1>1, InductedNext DEF Inducted
<1>6. Positioned(n) => Positioned(n)'
  BY <1>1, PositionedNext DEF Positioned
<1>7. ASSUME NEW i \in DOMAIN loops
      PROVE  Cycled(loops[i], acyc[i], bcyc[i], Made(i, n))'
  <2>1. Made(i, n)' = Made(i, n)
    BY <1>1 DEF Made, InBody, nloop, iijj
  <2>2. \A x : Cycled(loops[i], acyc'[i], bcyc'[i], x) => Cycled(loops[i], acyc[i], bcyc[i], x)'
    BY <1>1, CycledUnmoved
  <2> QED BY <1>1, <1>2, <2>1, <2>2 DEF Cycled
<1> QED BY <1>1, <1>2, <1>3, <1>4, <1>5, <1>6, <1>7

LEMMA StepInv == IInv /\ [Next]_vars => IInv'
<1> SUFFICES ASSUME IInv, [Next]_vars PROVE IInv'
  OBVIOUS
<1>1. GenInv /\ Control /\ FastInv /\ LoopInv
  BY DEF IInv
<1>2. GenInv' /\ Control' /\ FastInv'
  BY <1>1, GenStep, ControlStep, FastStep
<1>3. ASSUME Generate PROVE LoopInv'
  BY <1>3 DEF Generate, LoopInv
<1>4. ASSUME Generated PROVE LoopInv'
  BY <1>4 DEF Generated, LoopInv
<1>5. ASSUME Precalc PROVE LoopInv'
  BY <1>1, <1>5, PrecalcStep
<1>6. ASSUME Enter PROVE LoopInv'
  BY <1>1, <1>6, EnterStep
<1>7. ASSUME Call PROVE LoopInv'
  BY <1>1, <1>7, CallStep
<1>8. ASSUME Induce PROVE LoopInv'
  BY <1>1, <1>8, InduceStep
<1>9. ASSUME UNCHANGED vars PROVE LoopInv'
  BY <1>1, <1>9, StutterLoopInv
<1> QED BY <1>2, <1>3, <1>4, <1>5, <1>6, <1>7, <1>8, <1>9 DEF IInv, Next

(* The registers of the generated program are those of the call it has     *)
(* come to, in every loop of every job and in every pass: counter, copy of *)
(* the body, index vectors, positions, reset counter and precalculated     *)
(* vectors (fl7-unroll.cpp:311-437, 446-495, 545-690).                     *)
THEOREM RegistersOfTheCall == Spec => []LoopInv
<1>1. Init => IInv
  BY InitInv
<1>2. IInv /\ [Next]_vars => IInv'
  BY StepInv
<1>3. IInv => LoopInv
  BY DEF IInv
<1> QED BY <1>1, <1>2, <1>3, PTL DEF Spec

-----------------------------------------------------------------------------
(* The pairs of a call.                                                    *)

LEMMA ShorterThanRow ==
  ASSUME Sound(L), ~fp_sets_ab(L)
  PROVE  L.vl0 % jj # 0 /\ jj % L.vl0 # 0 /\ jj # 1 /\ jj < L.vl0 /\ UsesDivmod(L)
<1> DEFINE v == L.vl0
<1>1. v \in Nat \ {0} /\ jj \in Nat \ {0}
  BY DEF Sound
<1>2. v >= jj /\ v % jj # 0
  BY <1>1 DEF fp_sets_ab
<1> HIDE DEF v
<1>3. jj # v
  <2>1. (1 * jj) % jj = 0 /\ 1 * jj = jj
    BY <1>1, MultipleMod
  <2> QED BY <1>2, <2>1
<1>4. jj # 1
  BY <1>1, <1>2
<1>5. jj < v
  BY <1>1, <1>2, <1>3
<1>6. jj % v # 0
  <2>1. jj \div v \in Int /\ jj = v * (jj \div v) + (jj % v)
    BY <1>1, DivFacts
  <2>2. jj \div v = 0
    <3>1. v * 0 <= jj /\ jj < v * 0 + v
      BY <1>1, <1>5
    <3> QED BY <1>1, <3>1, DivUnique
  <2>3. v * (jj \div v) = 0
    BY <1>1, <2>2
  <2> QED BY <1>1, <2>1, <2>3
<1> QED BY <1>2, <1>4, <1>5, <1>6 DEF v, UsesDivmod

(* The vector length of a call is the number of pairs due, up to vl0;      *)
(* where all copies are there, it is vl0.                                  *)
LEMMA LengthOfCall ==
  ASSUME GenInv, Control, Call, NEW n \in 0..(nloop(L) - 1), InCall(n)
  PROVE  CallLength(L) = IF full_unroll(L) THEN L.vl0 ELSE Least(cnt, L.vl0)
<1> DEFINE v == L.vl0
           I == iijj(L)
<1>1. /\ Sound(L) /\ n \in Nat /\ n < nloop(L) /\ n * v \in Nat /\ n * v < I
      /\ cnt = I - n * v /\ cnt > 0 /\ vl = v
      /\ cnt' = I - (n + 1) * v
      /\ (cnt' > 0 <=> n + 1 < nloop(L))
      /\ n + 1 = nloop(L) => u = last_iter(L)
  BY CallFacts
<1>2. v \in Nat \ {0} /\ I \in Nat \ {0} /\ nloop(L) \in Nat
  BY <1>1 DEF Sound
<1>3. cnt \in Int
  <2> DEFINE M == n * v
  <2>1. M \in Int /\ cnt = I - M
    BY <1>1
  <2> HIDE DEF M, I
  <2> QED BY <1>2, <2>1
<1>4. ASSUME cnt >= v PROVE Least(cnt, v) = v
  BY <1>2, <1>3, <1>4 DEF Least
<1>5. CASE full_unroll(L)
  BY <1>1, <1>5 DEF CallLength, ReducesLength
<1>6. CASE ~full_unroll(L) /\ ReducesLength(L)
  BY <1>6 DEF CallLength
<1>7. CASE ~full_unroll(L) /\ ~ReducesLength(L)
  <2>1. CallLength(L) = v
    BY <1>1, <1>7 DEF CallLength
  <2>2. cnt >= v
    <3>1. CASE u # last_iter(L)
      <4>1. cnt' > 0
        BY <1>1, <1>2, <3>1
      <4>2. cnt' = cnt - v
        BY DEF Call, L
      <4> HIDE DEF v
      <4> QED BY <1>2, <1>3, <4>1, <4>2
    <3>2. CASE I % v = 0
      <4> HIDE DEF v, I
      <4>1. I \in Int
        BY <1>2
      <4>2. I \div v \in Int /\ I = v * (I \div v) + (I % v)
        BY <1>2, <4>1, DivFacts
      <4> DEFINE q == I \div v
      <4>3. q \in Int /\ I = v * q
        BY <1>2, <3>2, <4>2
      <4> HIDE DEF q
      <4>4. n < q
        <5>1. CASE q <= n
          <6>1. v * q <= v * n /\ v * n = n * v
            BY <1>1, <1>2, <4>3, <5>1
          <6> QED BY <1>1, <4>3, <6>1
        <5> QED BY <1>1, <4>3, <5>1
      <4>5. v * (n + 1) <= v * q
        BY <1>1, <1>2, <4>3, <4>4
      <4>6. v * (n + 1) = n * v + v
        BY <1>1, <1>2
      <4> QED BY <1>1, <1>2, <1>3, <4>3, <4>5, <4>6 DEF v, I
    <3> QED BY <1>7, <3>1, <3>2 DEF ReducesLength
  <2> QED BY <1>4, <1>7, <2>1, <2>2
<1> QED BY <1>5, <1>6, <1>7

LEMMA PairsOfCall ==
  ASSUME GenInv, Control, FastInv, Call, NEW n \in 0..(nloop(L) - 1),
         InCall(n), Inducted(n), Positioned(n),
         DOMAIN acyc = DOMAIN loops, Cycled(L, acyc[cur], bcyc[cur], n)
  PROVE  LET m == IF full_unroll(L) THEN L.vl0 ELSE Least(cnt, L.vl0)
         IN  /\ call'.loop = cur /\ call'.due = cnt /\ DOMAIN call'.pairs = Lanes(m)
             /\ \A k \in Lanes(m) :
                  /\ call'.pairs[k][1] * jj + call'.pairs[k][2] = At(n, k)
                  /\ call'.pairs[k][2] \in Lanes(jj) /\ call'.pairs[k][1] \in Int
                  /\ call'.pairs[k] = <<call'.pairs[k][1], call'.pairs[k][2]>>
<1> DEFINE l == L
           v == l.vl0
           m == IF full_unroll(l) THEN v ELSE Least(cnt, v)
           positions == IF job.maxun = 0 THEN sqij ELSE Cut(sqij, m)
           A == IF cycpre(l) THEN acyc'[cur][u % l.cyc] ELSE a'
           B == IF cycpre(l) THEN bcyc[cur][u % l.cyc] ELSE b'
<1>1. CallLength(l) = m
  BY LengthOfCall
<1>2. /\ call' = [loop |-> cur, due |-> cnt, pairs |-> [k \in Lanes(m) |-> <<A[k], B[k]>>]]
      /\ acyc' = IF cycpre(l) THEN [acyc EXCEPT ![cur][u % l.cyc] = Plus(@, cyc_aincr(l))] ELSE acyc
      /\ IF fp_sets_ab(l) \/ cycpre(l) THEN a' = a /\ b' = b
         ELSE a' = Quotients(positions) /\ b' = Remainders(positions)
      /\ pc = "call" /\ cur \in DOMAIN loops
  BY <1>1 DEF Call, L, Control
<1>3. /\ Sound(l) /\ n \in Nat /\ n < nloop(l) /\ cnt > 0
      /\ n * v \in Nat /\ cnt = iijj(l) - n * v
      /\ cycpre(l) => u % l.cyc = n % l.cyc
  BY CallFacts
<1>4. v \in Nat \ {0} /\ jj \in Nat \ {0} /\ l.ilo \in Nat
  BY <1>3 DEF Sound
<1>5. Lanes(m) \subseteq Lanes(v) /\ cnt \in Int
  <2>1. cnt \in Int
    <3> DEFINE M == n * v
    <3>1. M \in Int /\ cnt = iijj(l) - M /\ iijj(l) \in Int
      BY <1>3 DEF Sound
    <3> HIDE DEF M, l
    <3> QED BY <3>1
  <2>2. m \in Int /\ m <= v
    BY <1>4, <2>1 DEF Least
  <2> HIDE DEF m, v
  <2> QED BY <1>4, <2>1, <2>2 DEF Lanes
<1> HIDE DEF m
<1>6. ASSUME NEW k \in Lanes(v)
      PROVE  At(n, k) \in 0..(Safe - 1) /\ At(n, k) = l.ilo * jj + n * v + k
  <2>1. At(n, k) \in 0..(Safe - 1)
    BY <1>3, AtBounds
  <2> QED BY <2>1 DEF At
<1>7. ASSUME NEW k \in Lanes(m)
      PROVE  A[k] * jj + B[k] = At(n, k) /\ B[k] \in Lanes(jj) /\ A[k] \in Int
  <2>0. k \in Lanes(v)
    BY <1>5, <1>7
  <2>1. CASE cycpre(l)
    <3> DEFINE c == n % l.cyc
               t == Turns(n + 1, l.cyc, c)
    <3>1. /\ c \in 0..(l.cyc - 1)
          /\ AcycAt(l, c, t)[k] * jj + BcycAt(l, c)[k] = l.ilo * jj + n * l.vl0 + k
          /\ BcycAt(l, c)[k] \in Lanes(jj)
      BY <1>3, <2>0, <2>1, CyclicPairs
    <3>2. Cycle(l) = 0..(l.cyc - 1) /\ l.cyc \in Nat \ {0} /\ cyc_aincr(l) \in Nat
      BY <1>3, <2>1, CycleFacts
    <3>3. /\ acyc[cur] = [h \in Cycle(l) |-> AcycAt(l, h, Turns(n, l.cyc, h))]
          /\ bcyc[cur] = [h \in Cycle(l) |-> BcycAt(l, h)]
      BY DEF Cycled
    <3>4. Turns(n, l.cyc, c) \in Nat /\ t = Turns(n, l.cyc, c) + 1
      BY <1>3, <3>1, <3>2, TurnsFacts
    <3> HIDE DEF l, c, t
    <3>5. acyc'[cur][c] = Plus(AcycAt(l, c, Turns(n, l.cyc, c)), cyc_aincr(l))
      <4>1. acyc' = [acyc EXCEPT ![cur][c] = Plus(@, cyc_aincr(l))]
        BY <1>2, <1>3, <2>1 DEF c
      <4> QED BY <1>2, <3>1, <3>2, <3>3, <4>1
    <3>6. Plus(AcycAt(l, c, Turns(n, l.cyc, c)), cyc_aincr(l)) = AcycAt(l, c, t)
      <4>1. c \in Nat
        BY <3>1, <3>2
      <4> QED BY <1>3, <2>1, <3>4, <4>1, NextTurn
    <3>7. A = AcycAt(l, c, t) /\ B = BcycAt(l, c)
      BY <1>3, <2>1, <3>1, <3>2, <3>3, <3>5, <3>6 DEF c
    <3>8. AcycAt(l, c, t)[k] \in Int
      <4> DEFINE x == c * v + k
                 s == (t - 1) * cyc_aincr(l)
      <4>1. x \in Int /\ s \in Int
        <5>1. c \in Nat /\ k \in Nat /\ t \in Nat /\ v \in Nat
          <6> HIDE DEF v
          <6>1. v \in Nat
            BY <1>4
          <6>2. k \in Lanes(v)
            BY <1>5
          <6>3. k \in Nat
            BY <6>1, <6>2 DEF Lanes
          <6>4. c \in Nat /\ t \in Nat
            BY <3>1, <3>2, <3>4
          <6> QED BY <6>1, <6>3, <6>4
        <5> HIDE DEF v
        <5>2. c * v \in Nat /\ (t - 1) * cyc_aincr(l) \in Int
          BY <3>2, <5>1
        <5> QED BY <5>1, <5>2
      <4>2. x \div jj \in Int
        <5> HIDE DEF x
        <5> QED BY <1>4, <4>1, DivFacts
      <4>3. AcycAt(l, c, t)[k] = l.ilo + (x \div jj) + s
        BY <2>0 DEF AcycAt
      <4> HIDE DEF x, s
      <4> QED BY <1>4, <4>1, <4>2, <4>3
    <3> HIDE DEF A, B
    <3> QED BY <1>6, <2>0, <3>1, <3>7, <3>8
  <2>2. CASE ~cycpre(l) /\ fp_sets_ab(l)
    <3>1. A = a /\ B = b
      BY <1>2, <2>2
    <3>2. /\ a \in [Lanes(v) -> Int] /\ b \in [Lanes(v) -> Lanes(jj)]
          /\ \A h \in Lanes(v) : a[h] * jj + b[h] = At(n, h)
      BY <2>2 DEF Inducted
    <3> HIDE DEF A, B
    <3> QED BY <2>0, <3>1, <3>2
  <2>3. CASE ~cycpre(l) /\ ~fp_sets_ab(l)
    <3>1. l.vl0 % jj # 0 /\ jj % l.vl0 # 0 /\ UsesDivmod(l)
      BY <1>3, <2>3, ShorterThanRow
    <3>2. sqij = [h \in Lanes(v) |-> At(n, h)]
      BY <2>3, <3>1 DEF Positioned
    <3>3. ExactFast
      BY <1>2, <3>1 DEF FastInv, L
    <3> DEFINE D == IF job.maxun = 0 THEN Lanes(v) ELSE Lanes(m)
    <3>4. positions = [h \in D |-> At(n, h)] /\ k \in D /\ D \subseteq Lanes(v)
      BY <1>5, <1>7, <2>0, <3>2 DEF Cut
    <3>5. positions \in [D -> 0..(Safe - 1)]
      BY <1>6, <3>4
    <3>6. A = Quotients(positions) /\ B = Remainders(positions)
      BY <1>2, <2>3
    <3> HIDE DEF positions, D, A, B
    <3>7. /\ Quotients(positions) \in [D -> Int] /\ Remainders(positions) \in [D -> Lanes(jj)]
          /\ \A h \in D : Quotients(positions)[h] * jj + Remainders(positions)[h] = positions[h]
      BY <1>4, <3>3, <3>5, Divided
    <3> QED BY <3>4, <3>6, <3>7
  <2> QED BY <2>1, <2>2, <2>3
<1> HIDE DEF A, B
<1>8. /\ call'.loop = cur /\ call'.due = cnt /\ DOMAIN call'.pairs = Lanes(m)
      /\ \A k \in Lanes(m) : call'.pairs[k] = <<A[k], B[k]>>
  BY <1>2
<1> QED BY <1>7, <1>8 DEF m

CallInv == IInv /\ CallVisits

\* a call that has been made stays what it was
LEMMA CallUnmoved ==
  ASSUME IInv, CallVisits, UNCHANGED generated, call' = call
  PROVE  CallVisits'
<1>1. loops' = loops /\ jj' = jj
  BY DEF generated, jj
<1> SUFFICES ASSUME call.loop # 0
             PROVE  (LET l == loops[call.loop]
                         n == IF full_unroll(l) THEN l.vl0 ELSE Least(call.due, l.vl0)
                     IN  /\ call.due > 0 /\ DOMAIN call.pairs = Lanes(n)
                         /\ \A k \in Lanes(n) :
                              /\ call.pairs[k][1] * jj + call.pairs[k][2]
                                   = l.ilo * jj + (iijj(l) - call.due) + k
                              /\ call.pairs[k][2] \in Lanes(jj))'
  BY <1>1 DEF CallVisits
<1> DEFINE l == loops[call.loop]
<1>2. /\ full_unroll(loops[call.loop])' = full_unroll(l)
      /\ iijj(loops[call.loop])' = iijj(l)
  BY <1>1 DEF full_unroll, nloop, iijj
<1> QED BY <1>1, <1>2 DEF CallVisits

LEMMA CallVisitsStep ==
  ASSUME CallInv, [Next]_vars
  PROVE  CallVisits'
<1>1. IInv /\ CallVisits /\ GenInv /\ Control /\ FastInv /\ LoopInv
  BY DEF CallInv, IInv
<1>2. CASE Generate
  BY <1>1, <1>2 DEF Generate, Control, CallVisits
<1>3. CASE UNCHANGED generated /\ call' = call
  BY <1>1, <1>3, CallUnmoved
<1>4. Generated \/ Precalc \/ Enter \/ Induce \/ UNCHANGED vars => UNCHANGED generated /\ call' = call
  BY DEF Generated, Precalc, Enter, Induce, vars
<1>5. CASE Call
  <2> DEFINE l == L
             m == IF full_unroll(l) THEN l.vl0 ELSE Least(cnt, l.vl0)
  <2>1. pc = "call" /\ cur \in DOMAIN loops /\ UNCHANGED generated
    BY <1>1, <1>5 DEF Call, Control
  <2>2. PICK n \in 0..(nloop(L) - 1) :
          /\ InCall(n) /\ Inducted(n) /\ Positioned(n)
          /\ DOMAIN acyc = DOMAIN loops
          /\ \A i \in DOMAIN loops : Cycled(loops[i], acyc[i], bcyc[i], Made(i, n))
    BY <1>1, <2>1 DEF LoopInv, InBody
  <2>3. Cycled(L, acyc[cur], bcyc[cur], n)
    <3>1. Made(cur, n) = n
      BY <2>1 DEF Made, InBody
    <3> QED BY <2>1, <2>2, <3>1 DEF L
  <2>4. /\ call'.loop = cur /\ call'.due = cnt /\ DOMAIN call'.pairs = Lanes(m)
        /\ \A k \in Lanes(m) : /\ call'.pairs[k][1] * jj + call'.pairs[k][2] = At(n, k)
                               /\ call'.pairs[k][2] \in Lanes(jj)
    BY <1>1, <1>5, <2>2, <2>3, PairsOfCall
  <2>5. cnt > 0 /\ cnt = iijj(l) - n * l.vl0 /\ n * l.vl0 \in Nat /\ iijj(l) \in Nat
    BY <1>1, <1>5, <2>2, CallFacts DEF Sound
  <2>6. ASSUME NEW k PROVE At(n, k) = l.ilo * jj + (iijj(l) - cnt) + k
    <3> DEFINE M == n * l.vl0
    <3>1. iijj(l) - cnt = M
      <4>1. M \in Int /\ iijj(l) \in Int /\ cnt = iijj(l) - M
        BY <2>5
      <4> HIDE DEF M, l
      <4> QED BY <4>1
    <3> QED BY <3>1 DEF At
  <2>7. /\ loops' = loops /\ jj' = jj /\ loops[cur] = l
    BY <2>1 DEF generated, jj, L
  <2>8. /\ full_unroll(loops[call.loop])' = full_unroll(l)
        /\ iijj(loops[call.loop])' = iijj(l)
        /\ loops'[call'.loop] = l
    BY <2>4, <2>7 DEF full_unroll, nloop, iijj
  <2> HIDE DEF l
  <2>9. (LET h == loops[call.loop]
             x == IF full_unroll(h) THEN h.vl0 ELSE Least(call.due, h.vl0)
         IN  /\ call.due > 0 /\ DOMAIN call.pairs = Lanes(x)
             /\ \A k \in Lanes(x) :
                  /\ call.pairs[k][1] * jj + call.pairs[k][2] = h.ilo * jj + (iijj(h) - call.due) + k
                  /\ call.pairs[k][2] \in Lanes(jj))'
    BY <2>4, <2>5, <2>6, <2>7, <2>8
  <2> QED BY <2>9 DEF CallVisits
<1> QED BY <1>2, <1>3, <1>4, <1>5 DEF Next

(* Lane k of every kernel call has the k-th pair that is due, and no call  *)
(* but the last of a fully unrolled loop hands out a pair that is not, for *)
(* every job (fl7-unroll.cpp:446-690).                                     *)
THEOREM EveryCallVisits == Spec => []CallVisits
<1>1. Init => CallInv
  <2>1. Init => CallVisits
    BY DEF Init, CallVisits
  <2> QED BY <2>1, InitInv DEF CallInv
<1>2. CallInv /\ [Next]_vars => CallInv'
  <2>1. CallInv /\ [Next]_vars => CallVisits'
    BY CallVisitsStep
  <2> QED BY <2>1, StepInv DEF CallInv
<1>3. CallInv => CallVisits
  BY DEF CallInv
<1> QED BY <1>1, <1>2, <1>3, PTL DEF Spec

-----------------------------------------------------------------------------
(* The double loop.                                                        *)

AfterPair(p) == IF p[2] + 1 < jj THEN <<p[1], p[2] + 1>> ELSE <<p[1] + 1, 0>>
pairsLeft == (job.end - nextPair[1]) * jj - nextPair[2]

(* A step that calls no kernel and goes to no other pair is a stutter.     *)
LEMMA AsStutter ==
  ASSUME job' = job, nextPair' = nextPair, passesOver' = passesOver, call' = call
  PROVE  UNCHANGED Abstract!doubleVars
<1>1. jj' = jj
  BY DEF jj
<1> QED BY <1>1 DEF Abstract!doubleVars

(* A visit of the pairs that are due, told without the abstract variables. *)
LEMMA AsVisit ==
  ASSUME job' = job, passesOver < Passes, NEW n \in 1..pairsLeft,
         duePairs' \in [0..(n - 1) -> Nat \X Nat],
         duePairs'[0] = nextPair,
         \A k \in 1..(n - 1) : duePairs'[k] = AfterPair(duePairs'[k - 1]),
         IF n = pairsLeft THEN nextPair' = <<job.z, 0>> /\ passesOver' = passesOver + 1
         ELSE nextPair' = AfterPair(duePairs'[n - 1]) /\ passesOver' = passesOver
  PROVE  Due!Visit
<1>1. jj' = jj
  BY DEF jj
<1>2. \A p : Due!Succ(p) = AfterPair(p)
  BY DEF Due!Succ, AfterPair
<1>3. Due!Left = pairsLeft /\ Due!First = <<job.z, 0>>
  BY DEF Due!Left, Due!First, pairsLeft
<1>4. [z |-> job.z, end |-> job.end, jj |-> jj]' = [z |-> job.z, end |-> job.end, jj |-> jj]
  BY <1>1
<1>5. IF n = Due!Left THEN nextPair' = Due!First /\ passesOver' = passesOver + 1
      ELSE nextPair' = Due!Succ(duePairs'[n - 1]) /\ passesOver' = passesOver
  BY <1>2, <1>3
<1>6. \A k \in 1..(n - 1) : duePairs'[k] = Due!Succ(duePairs'[k - 1])
  BY <1>2
<1>7. n \in 1..Due!Left
  BY <1>3
<1> QED BY <1>4, <1>5, <1>6, <1>7 DEF Due!Visit

(* When a call hands out only what is due, that is all it hands out.       *)
LEMMA AllAreDue ==
  ASSUME Due!Visit, duePairs' = call'.pairs
  PROVE  Abstract!Visit
<1>1. /\ Abstract!Left = Due!Left /\ Abstract!First = Due!First
      /\ \A p : Abstract!Succ(p) = Due!Succ(p)
  BY DEF Abstract!Left, Due!Left, Abstract!First, Due!First, Abstract!Succ, Due!Succ
<1> QED BY <1>1 DEF Due!Visit, Abstract!Visit

LEMMA AsInit == Init => Abstract!DoubleInit
<1> SUFFICES ASSUME Init PROVE Abstract!DoubleInit
  OBVIOUS
<1>1. nextPair = <<job.z, 0>> /\ passesOver = 0 /\ call.pairs = <<>>
  BY DEF Init, nextPair, passesOver, PassOver
<1> QED BY <1>1 DEF Abstract!DoubleInit, Abstract!First

(* Positions and pairs are the same thing, and their order is the same.    *)
LEMMA PairUnique ==
  ASSUME jj \in Nat \ {0}, NEW q \in Int, NEW r \in Lanes(jj)
  PROVE  Pair(q * jj + r) = <<q, r>>
<1> DEFINE x == q * jj + r
           m == q * jj
<1>1. r \in 0..(jj - 1) /\ m \in Int /\ x = m + r /\ m = jj * q
  BY DEF Lanes
<1>2. x \in Int /\ jj * q <= x /\ x < jj * q + jj
  <2> HIDE DEF m
  <2> QED BY <1>1
<1> HIDE DEF x
<1>3. x \div jj = q
  BY <1>2, DivUnique
<1>4. x \div jj \in Int /\ x % jj \in 0..(jj - 1) /\ x = jj * (x \div jj) + (x % jj)
  BY <1>2, DivFacts
<1>5. x % jj = r
  <2>1. x = jj * q + (x % jj)
    BY <1>3, <1>4
  <2>2. x = jj * q + r
    BY <1>1
  <2> HIDE DEF m
  <2> QED BY <1>1, <1>4, <2>1, <2>2
<1> QED BY <1>3, <1>5 DEF Pair, x

LEMMA PairFacts ==
  ASSUME jj \in Nat \ {0}, NEW x \in Nat
  PROVE  /\ Pair(x) \in Nat \X Nat /\ Pair(x)[2] \in Lanes(jj)
         /\ Pair(x)[1] * jj + Pair(x)[2] = x
         /\ AfterPair(Pair(x)) = Pair(x + 1)
<1> DEFINE q == x \div jj
           r == x % jj
<1>1. x \in Int
  OBVIOUS
<1>2. q \in Int /\ r \in 0..(jj - 1) /\ x = jj * q + r
  BY <1>1, DivFacts
<1>3. q \in Nat
  BY FloorMultiple
<1>4. Pair(x)[1] = q /\ Pair(x)[2] = r /\ Pair(x) = <<q, r>>
  BY DEF Pair
<1> HIDE DEF q, r
<1>5. q * jj + r = x /\ (q + 1) * jj = q * jj + jj /\ q * jj \in Int
  BY <1>2, <1>3
<1>6. AfterPair(Pair(x)) = Pair(x + 1)
  <2>1. CASE r + 1 < jj
    <3>1. Pair(q * jj + (r + 1)) = <<q, r + 1>>
      <4>1. r + 1 \in Lanes(jj)
        BY <1>2, <2>1 DEF Lanes
      <4> QED BY <1>2, <4>1, PairUnique
    <3>2. q * jj + (r + 1) = x + 1
      BY <1>2, <1>5
    <3> QED BY <1>4, <2>1, <3>1, <3>2 DEF AfterPair
  <2>2. CASE ~(r + 1 < jj)
    <3>1. Pair((q + 1) * jj + 0) = <<q + 1, 0>>
      <4>1. 0 \in Lanes(jj) /\ q + 1 \in Int
        BY <1>2 DEF Lanes
      <4> QED BY <4>1, PairUnique
    <3>2. (q + 1) * jj + 0 = x + 1
      BY <1>2, <1>5, <2>2
    <3> QED BY <1>4, <2>2, <3>1, <3>2 DEF AfterPair
  <2> QED BY <2>1, <2>2
<1> QED BY <1>2, <1>3, <1>4, <1>5, <1>6 DEF Lanes

LEMMA FirstOfRow ==
  ASSUME jj \in Nat \ {0}, NEW i \in Int
  PROVE  Pair(i * jj) = <<i, 0>>
<1>1. 0 \in Lanes(jj)
  BY DEF Lanes
<1>2. Pair(i * jj + 0) = <<i, 0>>
  BY <1>1, PairUnique
<1>3. i * jj + 0 = i * jj
  OBVIOUS
<1> QED BY <1>2, <1>3

(* Where a loop ends the next one begins, and the last one ends the range. *)
LEMMA LoopsFollow ==
  ASSUME GenInv, Control, pc # "generate", NEW i \in DOMAIN loops
  PROVE  /\ Len(loops) \in Nat \ {0} /\ DOMAIN loops = 1..Len(loops) /\ i <= Len(loops)
         /\ loops[1].ilo = job.z
         /\ loops[i].ilo \in Nat /\ loops[i].ii \in Nat \ {0} /\ jj \in Nat \ {0} /\ job.end \in Nat
         /\ i = Len(loops) => loops[i].ilo + loops[i].ii = job.end
         /\ i < Len(loops) => /\ i + 1 \in DOMAIN loops
                              /\ loops[i + 1].ilo = loops[i].ilo + loops[i].ii
                              /\ loops[i].ilo + loops[i].ii < job.end
<1>1. loops \in Seq(LoopType) /\ loops # <<>> /\ From = job.end
  BY DEF GenInv, Control
<1>2. Len(loops) \in Nat \ {0} /\ DOMAIN loops = 1..Len(loops)
  BY <1>1
<1>3. \A h \in DOMAIN loops : /\ loops[h].ilo \in Nat /\ loops[h].ii \in Nat \ {0}
                              /\ loops[h].ilo + loops[h].ii <= job.end
                              /\ loops[h].ilo = IF h = 1 THEN job.z ELSE loops[h - 1].ilo + loops[h - 1].ii
  <2>1. Tiles
    BY DEF GenInv, SuggestionSound
  <2>2. \A h \in DOMAIN loops : loops[h] \in LoopType
    BY <1>1
  <2>3. \A h \in DOMAIN loops : loops[h].ilo \in Nat /\ loops[h].ii \in Nat \ {0}
    BY <2>2 DEF LoopType
  <2> QED BY <2>1, <2>3 DEF Tiles
<1>4. jj \in Nat \ {0} /\ job.end \in Nat
  BY JobFacts DEF GenInv
<1>5. 1 \in DOMAIN loops /\ loops[1].ilo = job.z
  BY <1>2, <1>3
<1>6. i = Len(loops) => loops[i].ilo + loops[i].ii = job.end
  BY <1>1, <1>2 DEF From
<1>7. ASSUME i < Len(loops)
      PROVE  /\ i + 1 \in DOMAIN loops
             /\ loops[i + 1].ilo = loops[i].ilo + loops[i].ii
             /\ loops[i].ilo + loops[i].ii < job.end
  <2>1. i + 1 \in DOMAIN loops /\ i + 1 # 1 /\ (i + 1) - 1 = i
    BY <1>2, <1>7
  <2>2. loops[i + 1].ilo = loops[i].ilo + loops[i].ii
    BY <1>3, <2>1
  <2>3. /\ loops[i + 1].ilo \in Nat /\ loops[i + 1].ii \in Nat \ {0}
        /\ loops[i + 1].ilo + loops[i + 1].ii <= job.end
    BY <1>3, <2>1
  <2> QED BY <1>4, <2>1, <2>2, <2>3
<1> QED BY <1>2, <1>3, <1>4, <1>5, <1>6, <1>7

(* Leaving a loop: the next pair is the one after its last row.            *)
LEMMA AfterLeave ==
  ASSUME GenInv, Control, pc \in {"call", "induce"}, UNCHANGED generated, Leave
  PROVE  /\ cur = Len(loops) => nextPair' = <<job.z, 0>> /\ passesOver' = pass + 1
         /\ cur # Len(loops) => nextPair' = Pair(L.ilo * jj + iijj(L)) /\ passesOver' = pass
<1>1. /\ loops' = loops /\ job' = job /\ jj' = jj /\ pc' \in {"enter", "done"} /\ cur \in DOMAIN loops
      /\ pc # "generate"
  BY LeaveControl DEF generated, jj, Control
<1>2. /\ Len(loops) \in Nat /\ cur \in Nat /\ cur <= Len(loops) /\ jj \in Nat \ {0}
      /\ loops[1].ilo = job.z /\ loops[cur].ilo \in Nat /\ loops[cur].ii \in Nat /\ job.z \in Nat
      /\ cur < Len(loops) => loops[cur + 1].ilo = loops[cur].ilo + loops[cur].ii
  <2>1. /\ Len(loops) \in Nat \ {0} /\ DOMAIN loops = 1..Len(loops) /\ cur <= Len(loops)
        /\ loops[1].ilo = job.z
        /\ loops[cur].ilo \in Nat /\ loops[cur].ii \in Nat \ {0} /\ jj \in Nat \ {0}
        /\ cur < Len(loops) => loops[cur + 1].ilo = loops[cur].ilo + loops[cur].ii
    BY <1>1, LoopsFollow
  <2>2. job.z \in Nat
    BY JobFacts DEF GenInv
  <2> QED BY <1>1, <2>1, <2>2
<1>3. ~PassOver'
  BY <1>1 DEF PassOver
<1>4. passesOver' = pass'
  BY <1>3 DEF passesOver
<1>5. pc' = "done" => nextPair' = <<job.z, 0>>
  BY <1>1 DEF nextPair
<1>6. pc' = "enter" => nextPair' = Pair(loops[cur'].ilo * jj)
  BY <1>1, <1>3 DEF nextPair, L, Pair
<1>7. CASE cur = Len(loops)
  <2>1. cur' = 1 /\ pass' = pass + 1
    BY <1>2, <1>7 DEF Leave
  <2>2. Pair(job.z * jj) = <<job.z, 0>>
    <3>1. job.z \in Int /\ jj \in Nat \ {0}
      BY <1>2
    <3> QED BY <3>1, FirstOfRow
  <2> QED BY <1>1, <1>2, <1>4, <1>5, <1>6, <1>7, <2>1, <2>2
<1>8. CASE cur # Len(loops)
  <2>1. cur' = cur + 1 /\ pass' = pass /\ pc' = "enter"
    BY <1>2, <1>8 DEF Leave
  <2>2. loops[cur + 1].ilo * jj = L.ilo * jj + iijj(L)
    <3> DEFINE x == loops[cur].ilo
               y == loops[cur].ii
    <3>1. x \in Nat /\ y \in Nat /\ loops[cur + 1].ilo = x + y
      BY <1>2, <1>8
    <3> HIDE DEF x, y
    <3>2. (x + y) * jj = x * jj + y * jj
      BY <1>2, <3>1
    <3> QED BY <3>1, <3>2 DEF L, iijj, x, y
  <2> QED BY <1>4, <1>6, <1>8, <2>1, <2>2
<1> QED BY <1>7, <1>8

(* A kernel call visits the pairs that are due, in their order.            *)
LEMMA CallVisitsDue ==
  ASSUME IInv, Call
  PROVE  Due!Visit
<1> DEFINE v == L.vl0
           I == iijj(L)
           h == Least(cnt, v)
<1>1. GenInv /\ Control /\ FastInv /\ LoopInv
  BY DEF IInv
<1>2. /\ pc = "call" /\ cur \in DOMAIN loops /\ UNCHANGED generated /\ job' = job /\ pass < Passes
      /\ pc # "generate" /\ jj' = jj /\ loops' = loops
  BY <1>1 DEF Call, Control, generated, jj
<1>3. PICK n \in 0..(nloop(L) - 1) :
        /\ InCall(n) /\ Inducted(n) /\ Positioned(n)
        /\ DOMAIN acyc = DOMAIN loops
        /\ \A i \in DOMAIN loops : Cycled(loops[i], acyc[i], bcyc[i], Made(i, n))
  BY <1>1, <1>2 DEF LoopInv, InBody
<1>4. Cycled(L, acyc[cur], bcyc[cur], n)
  <2>1. Made(cur, n) = n
    BY <1>2 DEF Made, InBody
  <2> QED BY <1>2, <1>3, <2>1 DEF L
<1>5. LET m == IF full_unroll(L) THEN L.vl0 ELSE Least(cnt, L.vl0)
      IN  /\ call'.due = cnt /\ DOMAIN call'.pairs = Lanes(m)
          /\ \A k \in Lanes(m) :
               /\ call'.pairs[k][1] * jj + call'.pairs[k][2] = At(n, k)
               /\ call'.pairs[k][2] \in Lanes(jj) /\ call'.pairs[k][1] \in Int
               /\ call'.pairs[k] = <<call'.pairs[k][1], call'.pairs[k][2]>>
  BY <1>1, <1>3, <1>4, PairsOfCall
<1>6. /\ Sound(L) /\ n \in Nat /\ n < nloop(L) /\ n * v \in Nat /\ n * v < I
      /\ cnt = I - n * v /\ cnt > 0 /\ cnt' = I - (n + 1) * v
      /\ (cnt' > 0 <=> n + 1 < nloop(L))
      /\ ExitTest(L) \/ (full_unroll(L) /\ u = L.unroll - 1) => n + 1 = nloop(L)
  BY <1>1, <1>3, CallFacts
<1>7. v \in Nat \ {0} /\ I \in Nat \ {0} /\ jj \in Nat \ {0} /\ L.ilo \in Nat /\ nloop(L) \in Nat
  BY <1>6 DEF Sound
<1> DEFINE M == n * v
           R == L.ilo * jj
           p == R + M
<1>8. /\ M \in Nat /\ R \in Nat /\ p \in Nat /\ cnt = I - M /\ M < I /\ cnt \in Nat \ {0}
      /\ cnt' = cnt - v
  <2>1. M \in Nat /\ cnt = I - M /\ M < I /\ cnt > 0
    BY <1>6
  <2>2. R \in Nat
    BY <1>7
  <2>3. cnt' = cnt - v
    BY DEF Call, L
  <2> HIDE DEF M, R, I
  <2> QED BY <1>7, <2>1, <2>2, <2>3
<1>9. /\ h \in 1..cnt /\ h <= v /\ M + h <= I
      /\ (M + h = I <=> cnt' <= 0)
  <2> HIDE DEF M, I, v
  <2> QED BY <1>7, <1>8 DEF Least
<1>10. nextPair = Pair(p) /\ passesOver = pass
  <2>1. nextPair = Pair(R + Least(I - cnt, I)) /\ passesOver = pass
    BY <1>2 DEF nextPair, passesOver, PassOver
  <2>2. Least(I - cnt, I) = M
    <3> HIDE DEF M, I
    <3> QED BY <1>7, <1>8 DEF Least
  <2> QED BY <2>1, <2>2
<1>11. /\ duePairs' = [k \in Lanes(h) |-> call'.pairs[k]]
       /\ \A k \in Lanes(h) : call'.pairs[k] = Pair(p + k)
  <2> DEFINE m == IF full_unroll(L) THEN v ELSE h
  <2>1. Lanes(m) \cap Lanes(cnt) = Lanes(h) /\ Lanes(h) \subseteq Lanes(m)
    <3> DEFINE H == h
    <3>1. h \in Nat /\ h <= v /\ h <= cnt /\ (h = v \/ h = cnt)
      BY <1>7, <1>8, <1>9 DEF Least
    <3> HIDE DEF h, v
    <3> QED BY <1>7, <1>8, <3>1 DEF Lanes
  <2>2. duePairs' = [k \in Lanes(h) |-> call'.pairs[k]]
    <3>1. duePairs' = [k \in DOMAIN call'.pairs \cap Lanes(call'.due) |-> call'.pairs[k]]
      BY DEF duePairs, Lanes
    <3>2. DOMAIN call'.pairs = Lanes(m) /\ call'.due = cnt
      BY <1>5
    <3> HIDE DEF m, h
    <3> QED BY <2>1, <3>1, <3>2
  <2>3. ASSUME NEW k \in Lanes(h) PROVE call'.pairs[k] = Pair(p + k)
    <3> DEFINE q == call'.pairs[k][1]
               r == call'.pairs[k][2]
    <3>1. q * jj + r = At(n, k) /\ r \in Lanes(jj) /\ q \in Int /\ call'.pairs[k] = <<q, r>>
      BY <1>5, <2>1
    <3> HIDE DEF q, r
    <3>2. Pair(q * jj + r) = <<q, r>>
      BY <1>7, <3>1, PairUnique
    <3>3. At(n, k) = p + k
      BY DEF At
    <3> QED BY <3>1, <3>2, <3>3
  <2> QED BY <2>2, <2>3
<1>12. ASSUME NEW k \in Lanes(h)
       PROVE  Pair(p + k) \in Nat \X Nat /\ AfterPair(Pair(p + k)) = Pair(p + (k + 1))
  <2>1. p + k \in Nat /\ (p + k) + 1 = p + (k + 1)
    <3>1. k \in Nat
      BY <1>9 DEF Lanes
    <3> HIDE DEF p
    <3> QED BY <1>8, <3>1
  <2> HIDE DEF p
  <2> QED BY <1>7, <2>1, PairFacts
<1> DEFINE E == job.end * jj
           S == R + I
<1>13. pairsLeft = E - p /\ E \in Nat
  <2> DEFINE x == Pair(p)[1]
             y == Pair(p)[2]
  <2>1. x \in Nat /\ y \in Nat /\ x * jj + y = p
    <3>1. Pair(p) \in Nat \X Nat /\ Pair(p)[1] * jj + Pair(p)[2] = p
      <4> HIDE DEF p
      <4> QED BY <1>7, <1>8, PairFacts
    <3> HIDE DEF p
    <3> QED BY <3>1
  <2>2. pairsLeft = (job.end - x) * jj - y
    BY <1>10 DEF pairsLeft
  <2> HIDE DEF x, y, p
  <2>3. job.end \in Nat
    BY <1>1, JobFacts DEF GenInv
  <2>4. (job.end - x) * jj = job.end * jj - x * jj /\ x * jj \in Nat /\ job.end * jj \in Nat
    BY <1>7, <2>1, <2>3
  <2> QED BY <1>8, <2>1, <2>2, <2>4
<1>14. S <= E /\ (S = E <=> cur = Len(loops)) /\ S \in Nat
  <2> DEFINE e == L.ilo + L.ii
  <2>1. /\ cur = Len(loops) => e = job.end
        /\ cur # Len(loops) => e < job.end
        /\ L.ilo \in Nat /\ L.ii \in Nat /\ job.end \in Nat
    <3>1. /\ Len(loops) \in Nat /\ DOMAIN loops = 1..Len(loops) /\ cur <= Len(loops)
          /\ loops[cur].ilo \in Nat /\ loops[cur].ii \in Nat \ {0} /\ job.end \in Nat
          /\ cur = Len(loops) => loops[cur].ilo + loops[cur].ii = job.end
          /\ cur < Len(loops) => loops[cur].ilo + loops[cur].ii < job.end
      BY <1>1, <1>2, LoopsFollow
    <3> QED BY <1>2, <3>1 DEF L
  <2>2. S = e * jj
    <3>1. (L.ilo + L.ii) * jj = L.ilo * jj + L.ii * jj
      BY <1>7, <2>1
    <3> QED BY <3>1 DEF iijj
  <2>3. e \in Nat /\ e <= job.end
    BY <2>1
  <2> HIDE DEF e, S
  <2>4. e < job.end => e * jj < job.end * jj
    <3>1. ASSUME e < job.end PROVE e * jj < job.end * jj
      <4>1. (e + 1) * jj <= job.end * jj
        <5> DEFINE x == e + 1
                   y == job.end
        <5>1. x \in Nat /\ y \in Nat /\ x <= y /\ jj \in Nat
          BY <1>7, <2>1, <2>3, <3>1
        <5> HIDE DEF x, y
        <5>2. x * jj <= y * jj
          BY <5>1
        <5> QED BY <5>2 DEF x, y
      <4>2. (e + 1) * jj = e * jj + jj /\ e * jj \in Nat /\ job.end * jj \in Nat
        BY <1>7, <2>1, <2>3
      <4> QED BY <1>7, <4>1, <4>2
    <3> QED BY <3>1
  <2>5. e * jj \in Nat /\ job.end * jj \in Nat
    BY <1>7, <2>1, <2>3
  <2>6. e < job.end \/ e = job.end
    BY <2>1, <2>3
  <2>7. e * jj <= E /\ (e * jj = E <=> e = job.end)
    BY <2>4, <2>5, <2>6
  <2> QED BY <2>1, <2>2, <2>3, <2>5, <2>6, <2>7
<1>15. /\ h \in 1..pairsLeft
       /\ (h = pairsLeft <=> cnt' <= 0 /\ cur = Len(loops))
       /\ p + h <= S /\ (p + h = S <=> cnt' <= 0)
  <2> HIDE DEF h, M, I, R, E
  <2> QED BY <1>7, <1>8, <1>9, <1>13, <1>14
<1>16. IF h = pairsLeft THEN nextPair' = <<job.z, 0>> /\ passesOver' = passesOver + 1
       ELSE nextPair' = Pair(p + h) /\ passesOver' = passesOver
  <2>1. CASE ExitTest(L) \/ (full_unroll(L) /\ u = L.unroll - 1)
    <3>1. Leave
      BY <2>1 DEF Call, L
    <3>2. cnt' <= 0
      <4>1. ~(cnt' > 0) /\ cnt' \in Int
        BY <1>6, <1>7, <1>8, <2>1
      <4> QED BY <4>1
    <3>3. /\ cur = Len(loops) => nextPair' = <<job.z, 0>> /\ passesOver' = pass + 1
          /\ cur # Len(loops) => nextPair' = Pair(S) /\ passesOver' = pass
      BY <1>1, <1>2, <3>1, AfterLeave
    <3>4. p + h = S
      BY <1>15, <3>2
    <3> HIDE DEF p, h, S
    <3> QED BY <1>10, <1>15, <3>2, <3>3, <3>4
  <2>2. CASE ~(ExitTest(L) \/ (full_unroll(L) /\ u = L.unroll - 1))
    <3>1. pc' = "induce" /\ pass' = pass /\ cur' = cur
      BY <2>2 DEF Call, L
    <3>2. L' = L /\ iijj(L)' = I
      BY <1>2, <3>1 DEF L, iijj
    <3>3. PassOver' <=> cnt' <= 0 /\ cur = Len(loops)
      BY <1>2, <3>1 DEF PassOver
    <3>4. /\ PassOver' => nextPair' = <<job.z, 0>> /\ passesOver' = pass + 1
          /\ ~PassOver' => nextPair' = Pair(L.ilo * jj + Least(I - cnt', I)) /\ passesOver' = pass
      BY <1>2, <3>1, <3>2 DEF nextPair, passesOver, Pair, Least
    <3>5. L.ilo * jj + Least(I - cnt', I) = p + h
      <4> HIDE DEF I, M, v
      <4>1. Least(I - cnt', I) = M + h
        BY <1>7, <1>8 DEF Least
      <4> DEFINE H == h
      <4>2. H \in Int /\ Least(I - cnt', I) = M + H
        BY <1>9, <4>1
      <4> HIDE DEF R, H
      <4>3. R + (M + H) = (R + M) + H
        BY <1>8, <4>2
      <4> QED BY <4>2, <4>3 DEF R, H
    <3> HIDE DEF p, h
    <3> QED BY <1>10, <1>15, <3>3, <3>4, <3>5
  <2> QED BY <2>1, <2>2
<1>17. duePairs' \in [0..(h - 1) -> Nat \X Nat]
  <2> HIDE DEF h
  <2> QED BY <1>11, <1>12 DEF Lanes
<1>18. duePairs'[0] = nextPair
  <2>1. 0 \in Lanes(h) /\ p + 0 = p
    <3> HIDE DEF h, p
    <3> QED BY <1>8, <1>9 DEF Lanes
  <2> HIDE DEF h, p
  <2> QED BY <1>10, <1>11, <2>1
<1>19. ASSUME NEW k \in 1..(h - 1) PROVE duePairs'[k] = AfterPair(duePairs'[k - 1])
  <2> HIDE DEF h, p
  <2>1. k \in Lanes(h) /\ k - 1 \in Lanes(h) /\ (k - 1) + 1 = k
    BY <1>9 DEF Lanes
  <2> QED BY <1>11, <1>12, <2>1
<1>20. Pair(p + h) = AfterPair(duePairs'[h - 1])
  <2> HIDE DEF h, p
  <2>1. h - 1 \in Lanes(h) /\ (h - 1) + 1 = h
    BY <1>9 DEF Lanes
  <2> QED BY <1>11, <1>12, <2>1
<1> HIDE DEF h, p
<1> QED BY <1>2, <1>10, <1>15, <1>16, <1>17, <1>18, <1>19, <1>20, AsVisit

(* Unless a fully unrolled loop overhangs, a call has no more pairs than    *)
(* are due.                                                                *)
LEMMA NoneButDue ==
  ASSUME IInv, Call, ~Overhangs
  PROVE  duePairs' = call'.pairs
<1>1. GenInv /\ Control /\ LoopInv /\ pc = "call" /\ cur \in DOMAIN loops
  BY DEF IInv, Call, Control
<1>2. PICK n \in 0..(nloop(L) - 1) : InCall(n)
  BY <1>1 DEF LoopInv, InBody
<1>3. CallLength(L) = IF full_unroll(L) THEN L.vl0 ELSE Least(cnt, L.vl0)
  BY <1>1, <1>2, LengthOfCall
<1>4. L.vl0 \in Nat \ {0} /\ cnt \in Nat
  <2>1. /\ Sound(L) /\ n * L.vl0 \in Nat /\ n * L.vl0 < iijj(L) /\ cnt = iijj(L) - n * L.vl0
    BY <1>1, <1>2, CallFacts
  <2> DEFINE M == n * L.vl0
  <2>2. M \in Nat /\ M < iijj(L) /\ cnt = iijj(L) - M
    BY <2>1
  <2> HIDE DEF M
  <2> QED BY <2>1, <2>2 DEF Sound
<1>5. CallLength(L) \in Nat /\ CallLength(L) <= cnt
  BY <1>1, <1>3, <1>4 DEF Overhangs, Least
<1>6. Lanes(CallLength(L)) \cap Lanes(cnt) = Lanes(CallLength(L))
  BY <1>4, <1>5 DEF Lanes
<1>7. /\ call'.due = cnt /\ DOMAIN call'.pairs = Lanes(CallLength(L))
      /\ call'.pairs = [k \in Lanes(CallLength(L)) |-> call'.pairs[k]]
  BY DEF Call, L
<1>8. duePairs' = [k \in DOMAIN call'.pairs \cap Lanes(call'.due) |-> call'.pairs[k]]
  BY DEF duePairs, Lanes
<1> QED BY <1>6, <1>7, <1>8

LEMMA CallRefines ==
  ASSUME IInv, Call
  PROVE  IF Overhangs THEN Due!Visit ELSE Abstract!Visit
BY CallVisitsDue, NoneButDue, AllAreDue

(* The other steps leave the next pair where it is.                        *)

LEMMA EnterRefines ==
  ASSUME IInv, Enter
  PROVE  UNCHANGED Abstract!doubleVars
<1>1. GenInv /\ Control
  BY DEF IInv
<1>2. /\ UNCHANGED generated /\ job' = job /\ jj' = jj /\ pc = "enter" /\ pc' = "call" /\ call' = call
      /\ pass' = pass /\ cur' = cur /\ cur \in DOMAIN loops /\ cnt' = iijj(L) /\ L' = L
  BY <1>1 DEF Enter, generated, jj, L, Control
<1>3. Sound(L)
  BY <1>1, <1>2, SoundLoops DEF L
<1>4. iijj(L) \in Nat \ {0} /\ L.ilo \in Nat /\ jj \in Nat
  BY <1>3 DEF Sound
<1>5. ~PassOver /\ ~PassOver' /\ nextPair = Pair(L.ilo * jj)
  BY <1>2 DEF PassOver, nextPair
<1>6. nextPair' = Pair(L.ilo * jj + Least(iijj(L) - cnt', iijj(L)))
  <2>1. iijj(L)' = iijj(L)
    BY <1>2 DEF iijj
  <2> QED BY <1>2, <1>5, <2>1 DEF nextPair, Pair, Least
<1>7. Least(iijj(L) - cnt', iijj(L)) = 0
  BY <1>2, <1>4 DEF Least
<1>8. L.ilo * jj + 0 = L.ilo * jj
  BY <1>4
<1>9. nextPair' = nextPair /\ passesOver' = passesOver
  BY <1>2, <1>5, <1>6, <1>7, <1>8 DEF passesOver
<1> QED BY <1>2, <1>9, AsStutter

LEMMA InduceRefines ==
  ASSUME IInv, Induce
  PROVE  UNCHANGED Abstract!doubleVars
<1>1. GenInv /\ Control /\ LoopInv
  BY DEF IInv
<1>2. /\ UNCHANGED generated /\ job' = job /\ jj' = jj /\ pc = "induce" /\ call' = call
      /\ cur \in DOMAIN loops /\ cnt' = cnt
      /\ IF LoopTest(L) THEN pc' = "call" /\ UNCHANGED <<pass, cur>> ELSE Leave
  BY <1>1 DEF Induce, generated, jj, L, Control
<1>3. PICK n \in 0..(nloop(L) - 1) : InCall(n)
  BY <1>1, <1>2 DEF LoopInv, InBody
<1>4. /\ Sound(L) /\ (LoopTest(L) <=> cnt > 0) /\ n \in Nat
      /\ cnt = iijj(L) - (n + 1) * L.vl0
  BY <1>1, <1>3, InduceFacts
<1>5. /\ iijj(L) \in Nat \ {0} /\ cnt \in Int
  <2>1. iijj(L) \in Nat \ {0} /\ L.vl0 \in Nat
    BY <1>4 DEF Sound
  <2> DEFINE R == (n + 1) * L.vl0
  <2>2. R \in Int /\ cnt = iijj(L) - R
    BY <1>4, <2>1
  <2> HIDE DEF R
  <2> QED BY <2>1, <2>2
<1>6. CASE LoopTest(L)
  <2>1. pc' = "call" /\ pass' = pass /\ cur' = cur /\ L' = L /\ cnt > 0
    BY <1>2, <1>4, <1>6 DEF L, generated
  <2>2. ~PassOver /\ ~PassOver'
    BY <1>5, <2>1 DEF PassOver
  <2>3. iijj(L)' = iijj(L)
    BY <1>2, <2>1 DEF iijj
  <2>4. nextPair' = nextPair /\ passesOver' = passesOver
    BY <1>2, <2>1, <2>2, <2>3 DEF nextPair, passesOver, Pair, Least
  <2> QED BY <1>2, <2>4, AsStutter
<1>7. CASE ~LoopTest(L)
  <2>1. Leave /\ cnt <= 0
    BY <1>2, <1>4, <1>5, <1>7
  <2>2. /\ cur = Len(loops) => nextPair' = <<job.z, 0>> /\ passesOver' = pass + 1
        /\ cur # Len(loops) => nextPair' = Pair(L.ilo * jj + iijj(L)) /\ passesOver' = pass
    BY <1>1, <1>2, <2>1, AfterLeave
  <2>3. PassOver <=> cur = Len(loops)
    BY <1>2, <2>1 DEF PassOver
  <2>4. Least(iijj(L) - cnt, iijj(L)) = iijj(L)
    BY <1>5, <2>1 DEF Least
  <2>5. nextPair' = nextPair /\ passesOver' = passesOver
    BY <1>2, <2>2, <2>3, <2>4 DEF nextPair, passesOver
  <2> QED BY <1>2, <2>5, AsStutter
<1> QED BY <1>6, <1>7

LEMMA PrecalcRefines ==
  ASSUME IInv, Precalc
  PROVE  UNCHANGED Abstract!doubleVars
<1>1. GenInv /\ Control
  BY DEF IInv
<1>2. /\ job' = job /\ jj' = jj /\ loops' = loops /\ pc = "precalc" /\ pc' = "enter" /\ call' = call
      /\ pass' = pass /\ cur' = 1 /\ loops # <<>>
  BY <1>1 DEF Precalc, generated, jj, Control
<1>3. /\ loops[1].ilo = job.z /\ jj \in Nat \ {0} /\ job.z \in Nat
  <2>1. 1 \in DOMAIN loops
    <3>1. loops \in Seq(LoopType)
      BY <1>1 DEF GenInv
    <3> QED BY <1>2, <3>1
  <2>2. loops[1].ilo = job.z /\ jj \in Nat \ {0}
    BY <1>1, <1>2, <2>1, LoopsFollow
  <2>3. job.z \in Nat
    BY <1>1, JobFacts DEF GenInv
  <2> QED BY <2>2, <2>3
<1>4. ~PassOver /\ ~PassOver' /\ nextPair = <<job.z, 0>>
  BY <1>2 DEF PassOver, nextPair
<1>5. nextPair' = Pair(job.z * jj)
  BY <1>2, <1>3, <1>4 DEF nextPair, L, Pair
<1>6. Pair(job.z * jj) = <<job.z, 0>>
  <2>1. job.z \in Int
    BY <1>3
  <2> QED BY <1>3, <2>1, FirstOfRow
<1>7. nextPair' = nextPair /\ passesOver' = passesOver
  BY <1>2, <1>4, <1>5, <1>6 DEF passesOver
<1> QED BY <1>2, <1>7, AsStutter

LEMMA NextRefines ==
  IInv /\ [Next]_vars =>
    [IF Overhangs THEN Due!Visit ELSE Abstract!Visit]_(Abstract!doubleVars)
<1> SUFFICES ASSUME IInv, [Next]_vars
             PROVE  \/ IF Overhangs THEN Due!Visit ELSE Abstract!Visit
                    \/ UNCHANGED Abstract!doubleVars
  OBVIOUS
<1>1. ASSUME Generate \/ Generated PROVE UNCHANGED Abstract!doubleVars
  <2>1. /\ job' = job /\ pc = "generate" /\ pc' \in {"generate", "precalc"} /\ pass' = pass /\ call' = call
    BY <1>1 DEF Generate, Generated, generated
  <2>2. nextPair' = nextPair /\ passesOver' = passesOver
    BY <2>1 DEF nextPair, passesOver, PassOver
  <2> QED BY <2>1, <2>2, AsStutter
<1>2. ASSUME UNCHANGED vars PROVE UNCHANGED Abstract!doubleVars
  <2>1. /\ job' = job /\ jj' = jj /\ loops' = loops /\ L' = L /\ pc' = pc /\ pass' = pass /\ call' = call
        /\ cur' = cur /\ cnt' = cnt
    BY <1>2 DEF vars, generated, jj, L
  <2>2. iijj(L)' = iijj(L) /\ PassOver' = PassOver
    BY <2>1 DEF iijj, PassOver
  <2>3. nextPair' = nextPair /\ passesOver' = passesOver
    BY <2>1, <2>2 DEF nextPair, passesOver, Pair, Least
  <2> QED BY <2>1, <2>3, AsStutter
<1> QED BY <1>1, <1>2, PrecalcRefines, EnterRefines, CallRefines, InduceRefines DEF Next

(* The generated program hands its kernel the pairs of the double loop and *)
(* no others, in order, in every pass, for every job - except in the last  *)
(* call of a fully unrolled loop whose pairs do not fill it: there the     *)
(* pairs due come first, and pairs past the end of the loop follow, since  *)
(* the shorter length is not set (fl7-unroll.cpp:569-572).                 *)
THEOREM RunsDoubleLoop == Spec => DoubleLoopUpToOverhang
<1>1. Init => IInv
  BY InitInv
<1>2. IInv /\ [Next]_vars => IInv'
  BY StepInv
<1>3. Spec => []IInv
  BY <1>1, <1>2, PTL DEF Spec
<1> QED BY <1>3, AsInit, NextRefines, PTL DEF Spec, DoubleLoopUpToOverhang
=============================================================================
