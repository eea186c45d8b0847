------------------------------- MODULE FuseLoop -------------------------------
(***************************************************************************)
(* The fused loops of src/loops/fl7-unroll.cpp and fl7-nounroll.cpp: the   *)
(* program they generate for                                               *)
(*     for (i = z; i < end; ++i) for (j = 0; j < jj; ++j) kernel(i, j)     *)
(* runs the kernel on vectors of pairs (a[k], b[k]).  The range of i may   *)
(* be split in three; each part is a loop of its own, whose body is        *)
(* repeated unroll times.  Vector instructions for a and b make the pairs  *)
(* of the next call out of those of the last one.                          *)
(*                                                                         *)
(* First the loops are generated, then the generated program runs: the     *)
(* precalculation in the outer block once, then the loops in the inner     *)
(* block, Passes times.  A vector register is a function from its lanes,   *)
(* numbered from 0.                                                        *)
(***************************************************************************)
EXTENDS UnrollSuggest, Sequences

CONSTANTS Jobs,   \* [z, lo, hi, end, jj, vlen, maxun]: what is asked for
          Passes  \* how often the enclosing loops come to the inner block

\* the operands of every division are below what its macro was checked for
ASSUME JobAssumption ==
  /\ Passes \in Nat \ {0}
  /\ Jobs \subseteq [z : Nat, lo : Nat, hi : Nat, end : Nat, jj : Nat \ {0},
                     vlen : Int, maxun : Nat]
  /\ \A w \in Jobs : /\ w.z <= w.lo /\ w.lo <= w.hi /\ w.hi <= w.end /\ w.z < w.end
                     /\ MaxLength(w.vlen) <= MVL
                     /\ w.end * w.jj + MVL < Safe
ASSUME SafeAssumption == Safe <= Word

VARIABLES job,   \* what is asked for
          loops, \* the loops generated so far, in the order of their i
          fast,  \* the division macro for jj, once a loop has needed it
          pc,    \* "generate", "precalc", then per loop "enter", "call", "induce"; "done"
          pass,  \* passes of the inner block that are over
          cur,   \* the loop that is running
          u,     \* the copy of its body that comes next
          cnt,   \* pairs of this loop that have not been handed out
          vl,    \* the vector length
          a, b,  \* the index vectors of loops that have no precalculated ones
          sqij,  \* the positions they are divided from, i * jj + j
          tmod,  \* counts calls up to the reset of b
          acyc,  \* per loop, the precalculated index vectors
          bcyc,
          call   \* the last kernel call: [loop, due, pairs]

generated == <<job, loops, fast>>
registers == <<a, b, sqij, tmod>>
vars == <<generated, pc, pass, cur, u, cnt, vl, registers, acyc, bcyc, call>>

jj == job.jj

-----------------------------------------------------------------------------
(* The loops.  A generated loop is [ilo, ii, vl0, unroll, cyc, sugg]: it   *)
(* runs i from ilo for ii rows with vector length vl0.                     *)

iijj(l) == l.ii * jj
nloop(l) == CeilDiv(iijj(l), l.vl0)
full_unroll(l) == l.unroll = nloop(l)

\* which copy of the body has the last pairs, and so checks the vector length
last_iter_part(l) == nloop(l) % l.unroll
last_iter(l) == ((nloop(l) % l.unroll) + l.unroll - 1) % l.unroll

\* precalculated vectors are used; every turn they move on by cyc_aincr rows
cycpre(l) == l.cyc > 0 /\ l.unroll % l.cyc = 0 /\ jj <= l.vl0
cyc_aincr(l) == (l.cyc * l.vl0) \div jj

\* a and b are set before the loop, and then by induction
fp_sets_ab(l) == nloop(l) = 1 \/ l.vl0 < jj \/ l.vl0 % jj = 0

\* b starts again with every row: after how many calls
period(l) == jj \div l.vl0
\* ... which the copy of the body knows when the copies are in step with it
InStep(l) == l.cyc > 0 /\ (l.unroll % l.cyc = 0 \/ full_unroll(l))

\* any number of copies: what keeps the number of full rounds, or all of them
AnyUnroll(n, maxun) ==
  IF n < 4 THEN Least(n, maxun)
  ELSE IF n % maxun = 0 THEN maxun
  ELSE CHOOSE un \in 1..maxun : /\ n \div un = n \div maxun
                                /\ \A v \in 1..(un - 1) : n \div v # n \div maxun

Copies_unbounded(us, n) ==
  IF job.maxun = 0 THEN 1
  ELSE IF us.unroll = 0 THEN AnyUnroll(n, job.maxun) ELSE us.unroll
Copies(us, n) ==
  IF job.maxun = 0 THEN 1
  ELSE Least(n, IF us.unroll = 0 THEN AnyUnroll(n, job.maxun) ELSE us.unroll)

Loop(ilo, ihi, us) ==
  [ilo |-> ilo, ii |-> ihi - ilo, vl0 |-> us.vl,
   unroll |-> Copies(us, CeilDiv((ihi - ilo) * jj, us.vl)),
   cyc |-> IF job.maxun = 0 THEN 0 ELSE us.cycle,
   sugg |-> us]

\* the program divides by jj
UsesDivmod(l) == \/ jj # 1 /\ jj < l.vl0
                 \/ nloop(l) > 1 /\ jj > l.vl0 /\ jj % l.vl0 # 0

b_period_max == IF job.maxun = 0 THEN -8 ELSE job.maxun

-----------------------------------------------------------------------------
(* Vector instructions *)

Lanes(n) == 0..(n - 1)
Sq(n, x) == [k \in Lanes(n) |-> x + k]
Same(n, x) == [k \in Lanes(n) |-> x]
Plus(v, x) == [k \in DOMAIN v |-> v[k] + x]
Cut(v, n) == [k \in Lanes(n) |-> v[k]]
Quotients(v) == [k \in DOMAIN v |-> DIVMOD(fast, jj, v[k]).div]
Remainders(v) == [k \in DOMAIN v |-> DIVMOD(fast, jj, v[k]).mod]

-----------------------------------------------------------------------------
(* Generation *)

NoMacro == [mul |-> 0, add |-> 0, shift |-> 1]

Init == /\ job \in Jobs
        /\ loops = <<>> /\ fast = NoMacro
        /\ pc = "generate" /\ pass = 0 /\ cur = 1
        /\ u = 0 /\ cnt = 0 /\ vl = 0
        /\ a = <<>> /\ b = <<>> /\ sqij = <<>> /\ tmod = 0
        /\ acyc = <<>> /\ bcyc = <<>>
        /\ call = [loop |-> 0, due |-> 0, pairs |-> <<>>]

\* where the next part of the range starts: after the last generated loop
From == IF loops = <<>> THEN job.z
        ELSE loops[Len(loops)].ilo + loops[Len(loops)].ii

\* one part of the range that is not empty; the macro is written by the first
\* loop that divides, for the positions of that loop
Generate ==
  /\ pc = "generate" /\ From < job.end
  /\ \E ihi \in {job.lo, job.hi, job.end} :
       /\ ihi > From /\ \A e \in {job.lo, job.hi, job.end} : e > From => ihi <= e
       /\ \E us \in vl_unroll(job.vlen, ihi - From, jj, b_period_max) :
            LET l == Loop(From, ihi, us)
            IN  /\ loops' = Append(loops, l)
                /\ fast' = IF UsesDivmod(l) /\ fast = NoMacro
                           THEN mk_FASTDIV(jj, iijj(l) + l.vl0) ELSE fast
  /\ UNCHANGED <<job, pc, pass, cur, u, cnt, vl, registers, acyc, bcyc, call>>

Generated == /\ pc = "generate" /\ From = job.end
             /\ pc' = "precalc"
             /\ UNCHANGED <<generated, pass, cur, u, cnt, vl, registers, acyc, bcyc, call>>

-----------------------------------------------------------------------------
(* The precalculated vectors of the outer block *)

Cycle(l) == IF cycpre(l) THEN 0..(l.cyc - 1) ELSE {}

\* how often vector c has been used in n calls
Turns(n, cyc, c) == (n \div cyc) + (IF c < n % cyc THEN 1 ELSE 0)

\* they are made for the last full round of a pass
CycRow(l) == l.ilo + ((nloop(l) \div l.cyc) - 1) * cyc_aincr(l)
CycSq(l, c) == Sq(l.vl0, CycRow(l) * jj + c * l.vl0)

\* divisions that an earlier loop has done are taken over with a correction
Alike(l, m) == cycpre(m) /\ m.vl0 = l.vl0 /\ m.cyc = l.cyc
FirstAlike(i) == CHOOSE h \in 1..i : /\ Alike(loops[i], loops[h])
                                     /\ \A g \in 1..(h - 1) : ~Alike(loops[i], loops[g])

\* the vectors that are used once more than the others are one turn ahead
Ahead(l, c) == IF c < nloop(l) % l.cyc THEN cyc_aincr(l) ELSE 0

Precalculated(i) ==
  LET l == loops[i]
      old == loops[FirstAlike(i)]
  IN  [c \in Cycle(l) |-> Plus(Quotients(CycSq(old, c)), (CycRow(l) - CycRow(old)) + Ahead(l, c))]

Precalc ==
  /\ pc = "precalc"
  /\ acyc' = [i \in DOMAIN loops |-> Precalculated(i)]
  /\ bcyc' = [i \in DOMAIN loops |->
                [c \in Cycle(loops[i]) |-> Remainders(CycSq(loops[FirstAlike(i)], c))]]
  /\ pc' = "enter"
  /\ UNCHANGED <<generated, pass, cur, u, cnt, vl, registers, call>>

-----------------------------------------------------------------------------
(* A loop of the inner block *)

\* the precalculated rows go back to one turn before the first
Rewound_evenly(l) == [c \in Cycle(l) |-> Plus(acyc[cur][c], -((nloop(l) \div l.cyc) * cyc_aincr(l)))]
Rewound(l) == [c \in Cycle(l) |-> Plus(acyc[cur][c], -(Turns(nloop(l), l.cyc, c) * cyc_aincr(l)))]

Enter ==
  /\ pc = "enter"
  /\ LET l == loops[cur]
         start == Sq(l.vl0, l.ilo * jj)
     IN  /\ acyc' = [acyc EXCEPT ![cur] = Rewound(l)]
         /\ IF ~fp_sets_ab(l) THEN UNCHANGED <<a, b>>
            ELSE IF jj = 1 THEN a' = Sq(l.vl0, l.ilo) /\ b' = Same(l.vl0, 0)
            ELSE IF jj >= l.vl0 THEN a' = Same(l.vl0, l.ilo) /\ b' = Sq(l.vl0, 0)
            ELSE a' = Quotients(start) /\ b' = Remainders(start)
         /\ sqij' = start
         /\ tmod' = 0 /\ u' = 0 /\ cnt' = iijj(l) /\ vl' = l.vl0
  /\ pc' = "call"
  /\ UNCHANGED <<generated, pass, cur, bcyc, call>>

\* the loop is left: on to the next one, the next pass, or the end
Leave_first == IF cur < Len(loops)
               THEN cur' = 1 /\ pc' = "enter" /\ UNCHANGED pass
               ELSE /\ cur' = 1 /\ pass' = pass + 1
                    /\ pc' = IF pass + 1 < Passes THEN "enter" ELSE "done"
Leave == IF cur < Len(loops)
         THEN cur' = cur + 1 /\ pc' = "enter" /\ UNCHANGED pass
         ELSE /\ cur' = 1 /\ pass' = pass + 1
              /\ pc' = IF pass + 1 < Passes THEN "enter" ELSE "done"

\* in a loop that is fully unrolled, the shorter last length is not set
ReducesLength(l) == u = last_iter(l) /\ iijj(l) % l.vl0 # 0 /\ ~full_unroll(l)
CallLength(l) == IF ReducesLength(l) THEN Least(cnt, l.vl0) ELSE vl

\* the test after the last pairs, when that is inside the body
ExitTest(l) == u = last_iter(l) /\ u # l.unroll - 1 /\ cnt - l.vl0 <= 0

Call ==
  /\ pc = "call"
  /\ LET l == loops[cur]
         n == CallLength(l)
         positions == IF job.maxun = 0 THEN sqij ELSE Cut(sqij, n)
         A == IF cycpre(l) THEN acyc'[cur][u % l.cyc] ELSE a'
         B == IF cycpre(l) THEN bcyc[cur][u % l.cyc] ELSE b'
     IN  /\ acyc' = IF cycpre(l)
                    THEN [acyc EXCEPT ![cur][u % l.cyc] = Plus(@, cyc_aincr(l))]
                    ELSE acyc
         /\ IF fp_sets_ab(l) \/ cycpre(l) THEN UNCHANGED <<a, b>>
            ELSE a' = Quotients(positions) /\ b' = Remainders(positions)
         /\ vl' = n
         /\ call' = [loop |-> cur, due |-> cnt, pairs |-> [k \in Lanes(n) |-> <<A[k], B[k]>>]]
         /\ cnt' = cnt - l.vl0
         /\ IF ExitTest(l) \/ (full_unroll(l) /\ u = l.unroll - 1)
            THEN Leave
            ELSE pc' = "induce" /\ UNCHANGED <<pass, cur>>
  /\ UNCHANGED <<generated, u, sqij, tmod, bcyc>>

\* whole rows fit the vector: b stays
InduceRows(l) == /\ l.vl0 % jj = 0
                 /\ a' = Plus(a, l.vl0 \div jj)
                 /\ UNCHANGED <<b, sqij, tmod>>

\* the vector fits a row a whole number of times: a stays, until b starts again
InduceInRow_early(l) ==
  /\ l.vl0 % jj # 0 /\ jj % l.vl0 = 0
  /\ tmod' = IF nloop(l) <= period(l) \/ InStep(l) THEN tmod ELSE (tmod + 1) % period(l)
  /\ LET reset == /\ nloop(l) > period(l)
                  /\ IF InStep(l) THEN u % l.cyc = 0 ELSE tmod' = 0
     IN  IF reset THEN a' = Plus(a, 1) /\ b' = Sq(l.vl0, 0)
                  ELSE b' = Plus(b, l.vl0) /\ UNCHANGED a
  /\ UNCHANGED sqij
InduceInRow(l) ==
  /\ l.vl0 % jj # 0 /\ jj % l.vl0 = 0
  /\ tmod' = IF nloop(l) <= period(l) \/ InStep(l) THEN tmod ELSE (tmod + 1) % period(l)
  /\ LET reset == /\ nloop(l) > period(l)
                  /\ IF InStep(l) THEN (u + 1) % l.cyc = 0 ELSE tmod' = 0
     IN  IF reset THEN a' = Plus(a, 1) /\ b' = Sq(l.vl0, 0)
                  ELSE b' = Plus(b, l.vl0) /\ UNCHANGED a
  /\ UNCHANGED sqij

\* neither: the positions move on, and are divided here or before the call
InducePositions(l) ==
  /\ l.vl0 % jj # 0 /\ jj % l.vl0 # 0
  /\ sqij' = IF cycpre(l) THEN sqij ELSE Plus(sqij, l.vl0)
  /\ IF fp_sets_ab(l) THEN a' = Quotients(sqij') /\ b' = Remainders(sqij')
                      ELSE UNCHANGED <<a, b>>
  /\ UNCHANGED tmod

\* the test in the head of the loop
LoopTest(l) == u = l.unroll - 1 => cnt > 0

Induce ==
  /\ pc = "induce"
  /\ LET l == loops[cur]
     IN  /\ InduceRows(l) \/ InduceInRow(l) \/ InducePositions(l)
         /\ u' = (u + 1) % l.unroll
         /\ IF LoopTest(l) THEN pc' = "call" /\ UNCHANGED <<pass, cur>> ELSE Leave
  /\ UNCHANGED <<generated, cnt, vl, acyc, bcyc, call>>

Next == Generate \/ Generated \/ Precalc \/ Enter \/ Call \/ Induce

\* the generator and the generated program run on
Spec == Init /\ [][Next]_vars /\ WF_vars(Next)

-----------------------------------------------------------------------------
(* Properties *)

\* the loops make up the range, each of them in at least one call, and what is
\* suggested for a loop is what its body is written for
Tiles == \A i \in DOMAIN loops :
           /\ loops[i].ii > 0
           /\ loops[i].ilo = IF i = 1 THEN job.z ELSE loops[i - 1].ilo + loops[i - 1].ii
           /\ loops[i].ilo + loops[i].ii <= job.end

\* no vector is longer than what was asked for, and looking for a shorter one
\* adds at most 5% to the calls
LengthSound(l) ==
  /\ l.vl0 \in 1..MaxLength(job.vlen)
  /\ MaxLength(job.vlen) = MVL =>
       100 * nloop(l) <= 105 * CeilDiv(iijj(l), MVL) + 99

UnrollSound(l) ==
  /\ l.unroll \in 1..nloop(l)
  /\ job.maxun > 0 => l.unroll <= job.maxun
  /\ l.sugg.suggested \in {"NLOOP", "JJPOW2_NLOOP"} => l.sugg.unroll = nloop(l)

\* the vectors that are precalculated fit the copies of the body, b starts again
\* after them, and no loop has both these and a, b of its own
CycleSound(l) ==
  /\ l.cyc \in 0..job.maxun
  /\ l.sugg.suggested \in {"CYC", "JJPOW2_CYC"} => l.sugg.unroll % l.sugg.cycle = 0
  /\ cycpre(l) => /\ ~fp_sets_ab(l) /\ jj > 1
                  /\ l.cyc = nloop(l) \/ cyc_aincr(l) * jj = l.cyc * l.vl0
  /\ l.cyc > 0 /\ l.vl0 % jj # 0 /\ jj % l.vl0 = 0 => l.cyc = period(l)

\* Suggestions keep what str(UnrollSuggest) and the generator assert of them
\* (fuseloop.cpp:171-245, fl7-unroll.cpp:282-283, 450), and the 5% of the search
\* for an alternative (fuseloop.cpp:483-700).
SuggestionSound == Tiles /\ \A i \in DOMAIN loops : LET l == loops[i]
                                                   IN LengthSound(l) /\ UnrollSound(l) /\ CycleSound(l)

L == loops[cur]
InBody == pc \in {"call", "induce"}

\* the loop has come to call n: u is the copy of the body that makes it, and
\* the copies that are left over are never run
InCall(n) == /\ u = n % L.unroll
             /\ pc = "call" \/ cnt > 0 => vl = L.vl0
             /\ cnt = iijj(L) - (IF pc = "call" THEN n ELSE n + 1) * L.vl0
             /\ pc = "induce" => cnt > 0 \/ u = L.unroll - 1

\* the position in lane k of call n
At(n, k) == L.ilo * jj + n * L.vl0 + k

\* the index vectors that are set before the loop and then moved on are those
\* of call n, with what the next move needs to know
Inducted(n) == fp_sets_ab(L) =>
  /\ a \in [Lanes(L.vl0) -> Int] /\ b \in [Lanes(L.vl0) -> Lanes(jj)]
  /\ \A k \in Lanes(L.vl0) : a[k] * jj + b[k] = At(n, k)
  /\ L.vl0 % jj # 0 /\ jj % L.vl0 = 0 =>
       /\ \A k \in Lanes(L.vl0) : b[k] = (n % period(L)) * L.vl0 + k
       /\ nloop(L) > period(L) /\ ~InStep(L) => tmod = n % period(L)

\* so are the positions they are divided from
Positioned(n) == L.vl0 % jj # 0 /\ jj % L.vl0 # 0 /\ ~cycpre(L) =>
  sqij = [k \in Lanes(L.vl0) |-> At(n, k)]

\* a precalculated vector that has been used t times: as its last use had it, or
\* one turn before the first
AcycAt(l, c, t) == [k \in Lanes(l.vl0) |->
                      l.ilo + ((c * l.vl0 + k) \div jj) + (t - 1) * cyc_aincr(l)]
BcycAt(l, c) == [k \in Lanes(l.vl0) |-> (c * l.vl0 + k) % jj]

\* the precalculated vectors of a loop after m calls of a pass
Cycled(l, av, bv, m) == /\ av = [c \in Cycle(l) |-> AcycAt(l, c, Turns(m, l.cyc, c))]
                        /\ bv = [c \in Cycle(l) |-> BcycAt(l, c)]

Made(i, n) == IF i # cur \/ ~InBody THEN nloop(loops[i]) ELSE IF pc = "call" THEN n ELSE n + 1

\* The registers of the generated program are those of the call it has come
\* to: counter, copy of the body, index vectors, positions, reset counter and
\* precalculated vectors belong together, in every loop and every pass
\* (fl7-unroll.cpp:311-437, 446-495, 545-690).
LoopInv == pc \in {"enter", "call", "induce"} =>
  \E n \in 0..(nloop(L) - 1) :
    /\ InBody => InCall(n) /\ Inducted(n) /\ Positioned(n)
    /\ DOMAIN acyc = DOMAIN loops /\ DOMAIN bcyc = DOMAIN loops
    /\ \A i \in DOMAIN loops : Cycled(loops[i], acyc[i], bcyc[i], Made(i, n))

\* Lane k of a kernel call has the k-th pair that is due, with j inside its
\* range; a call hands out no pair that is not due, except in a loop that is
\* fully unrolled: there the shorter length of the last call is only written as
\* a comment (fl7-unroll.cpp:567-573), and the call has pairs past the last row.
CallVisits == call.loop # 0 =>
  LET l == loops[call.loop]
      n == IF full_unroll(l) THEN l.vl0 ELSE Least(call.due, l.vl0)
  IN  /\ call.due > 0 /\ DOMAIN call.pairs = Lanes(n)
      /\ \A k \in Lanes(n) :
           /\ call.pairs[k][1] * jj + call.pairs[k][2] = l.ilo * jj + (iijj(l) - call.due) + k
           /\ call.pairs[k][2] \in Lanes(jj)

\* the last call of a pass has been made, all that is left is to leave its loop
PassOver == pc = "induce" /\ cnt <= 0 /\ cur = Len(loops)
Pair(x) == <<x \div jj, x % jj>>

nextPair == IF pc \in {"generate", "precalc", "done"} \/ PassOver THEN <<job.z, 0>>
            ELSE IF pc = "enter" THEN Pair(L.ilo * jj)
            ELSE Pair(L.ilo * jj + Least(iijj(L) - cnt, iijj(L)))
passesOver == IF PassOver THEN pass + 1 ELSE pass

\* the double loop visits all the pairs that the kernel is called with
Abstract == INSTANCE DoubleLoop WITH limits <- [z |-> job.z, end |-> job.end, jj |-> jj],
  next <- nextPair, pass <- passesOver, batch <- call.pairs

\* the same, if those were ignored that are not due
duePairs == [k \in DOMAIN call.pairs \cap Lanes(call.due) |-> call.pairs[k]]
Due == INSTANCE DoubleLoop WITH limits <- [z |-> job.z, end |-> job.end, jj |-> jj],
  next <- nextPair, pass <- passesOver, batch <- duePairs

\* the call to come is the last of a fully unrolled loop, and shorter than vl0
Overhangs == pc = "call" /\ full_unroll(L) /\ cnt < L.vl0

\* The generated program runs the double loop: the kernel gets the pairs that
\* are next in the order of the plain loops and no others, in every pass and
\* across the parts of a split range.  The exception is the last call of a loop
\* that is fully unrolled and whose pairs do not fill it: its kernel gets pairs
\* past the end of the loop as well - past the range, or pairs of the next part,
\* which visits them again (fl7-unroll.cpp:569-572; ref_vloop2,
\* fuseloop.cpp:742-748, shortens this call).  There only the pairs due are right.
DoubleLoopUpToOverhang ==
  /\ Abstract!DoubleInit
  /\ [][IF Overhangs THEN Due!Visit ELSE Abstract!Visit]_(Abstract!doubleVars)


\* The loops are generated and the generated program comes to its end.
LoopFinishes == <>(pc = "done")
=============================================================================
