----------------------------- MODULE UnrollSuggest -----------------------------
(***************************************************************************)
(* src/fuseloop.cpp: which vector length and which unrolling to use for a  *)
(* double loop of ii * jj pairs that is run as one loop over vectors.      *)
(*                                                                         *)
(* A suggestion is [suggested, vl, unroll, cycle]: the strategy, the       *)
(* vector length, how often the body is repeated (0 when any number will   *)
(* do) and after how many calls the b vectors repeat (0 when that is not   *)
(* used).                                                                  *)
(***************************************************************************)
EXTENDS FastDiv

CONSTANTS MVL,   \* longest vector (256)
          Align  \* latency steps of the vector length (32)

ASSUME LengthAssumption == /\ MVL \in Nat \ {0} /\ Align \in Nat \ {0}
                           /\ MVL % Align = 0

Least(i, j) == IF i < j THEN i ELSE j
Most(i, j) == IF i < j THEN j ELSE i
CeilDiv(n, d) == (n + d - 1) \div d

\* how many times i has to be taken to reach a multiple of j
Period(i, j) == CHOOSE k \in 1..j : (k * i) % j = 0 /\ \A h \in 1..(k - 1) : (h * i) % j # 0
lcm(i, j) == i * Period(i, j)

-----------------------------------------------------------------------------
(* A vector length that spreads nitems evenly over the calls they need *)

Evenly(nitems) == CeilDiv(nitems, CeilDiv(nitems, MVL))

ve_vlen_suggest_equ(nitems) ==
  LET nLoops == CeilDiv(nitems, MVL)
  IN  IF nitems <= MVL THEN nitems
      ELSE IF nitems % nLoops # 0 /\ nitems % Evenly(nitems) = 0 THEN MVL
      ELSE Evenly(nitems)

\* the same, in latency steps, unless the last call is nearly full anyway
RoundUpTo(n, step) == CeilDiv(n, step) * step
ve_vlen_suggest(nitems) ==
  LET nLoops == CeilDiv(nitems, MVL)
  IN  IF nitems <= MVL THEN nitems
      ELSE IF (nitems % MVL) + Align >= MVL THEN MVL
      ELSE IF nitems % nLoops = 0 THEN nitems \div nLoops
      ELSE IF nitems % Evenly(nitems) = 0 THEN MVL
      ELSE RoundUpTo(Evenly(nitems), Align)

-----------------------------------------------------------------------------
(* The suggestion at a given vector length *)

unroll_suggest(vl, ii, jj, b_period_max) ==
  LET nloop == CeilDiv(ii * jj, vl)
      bmax == IF b_period_max < 0 THEN -b_period_max ELSE b_period_max
      b_period == lcm(vl, jj) \div vl
      bcyc_regs == Least(nloop, b_period)
      Suggest(s, unroll, cycle) == [suggested |-> s, vl |-> vl, unroll |-> unroll, cycle |-> cycle]
      Cyclic(s, c) == Suggest(s, (bmax \div c) * c, c)
  IN  IF nloop = 1 THEN [Suggest("NLOOP1", 0, 0) EXCEPT !.vl = ii * jj]
      ELSE IF vl % jj = 0 THEN Suggest("VLMODJJ", 0, 0)
      ELSE IF jj % vl = 0 /\ nloop <= jj \div vl
           THEN Suggest("JJMODVL_NORESET", Least(bmax, nloop), 0)
      ELSE IF jj % vl = 0
           THEN IF jj \div vl <= bmax THEN Cyclic("JJMODVL_RESET", jj \div vl)
                                      ELSE Suggest("JJMODVL_RESET", bmax, 0)
      ELSE IF nloop < bmax
           THEN IF jj \in Pow THEN Suggest("JJPOW2_NLOOP", nloop, nloop)
                              ELSE Suggest("NLOOP", nloop, 0)
      ELSE IF bcyc_regs < bmax
           THEN Cyclic(IF jj \in Pow THEN "JJPOW2_CYC" ELSE "CYC",
                       IF jj \in Pow THEN bcyc_regs ELSE b_period)
      ELSE Suggest(IF jj \in Pow THEN "JJPOW2_BIG" ELSE "DIVMOD", Least(bmax, nloop), 0)

-----------------------------------------------------------------------------
(* An alternative at a smaller vector length.  Which of the lengths that   *)
(* are scanned is taken depends on an estimate of the number of vector     *)
(* operations; here it may be any of them, or none.                        *)

\* how far down to look: at the longest vector, as long as the number of calls
\* grows by 5% at most
vl_min(vl, iijj) ==
  IF vl = MVL
  THEN CeilDiv(iijj, (105 * CeilDiv(iijj, vl) + 99) \div 100)
  ELSE Most(1, (7 * vl) \div 8)
vl_max(vl) == Most(1, vl - 1)

\* powers of two without precalculated vectors never beat a periodic reset
Skipped(u, us) == /\ u.suggested = "JJMODVL_RESET"
                  /\ us.suggested \in {"JJPOW2_NLOOP", "JJPOW2_BIG"}

Scanned(u, ii, jj, b_period_max) ==
  {us \in {unroll_suggest(vll, ii, jj, b_period_max) :
             vll \in vl_min(u.vl, ii * jj)..vl_max(u.vl)} : ~Skipped(u, us)}

\* when none is taken: the same number of calls with work spread evenly
Balanced(u, ii, jj, b_period_max) ==
  IF u.vl = MVL /\ ve_vlen_suggest_equ(ii * jj) <= vl_max(u.vl)
  THEN {unroll_suggest(IF ve_vlen_suggest(ii * jj) <= vl_max(u.vl)
                       THEN ve_vlen_suggest(ii * jj)
                       ELSE ve_vlen_suggest_equ(ii * jj), ii, jj, b_period_max)}
  ELSE {u}

Alternatives(u, ii, jj, b_period_max) ==
  Scanned(u, ii, jj, b_period_max) \cup Balanced(u, ii, jj, b_period_max)

\* a negative length asks for an alternative below it, and 0 is the longest
MaxLength(vl0) == IF vl0 = 0 THEN MVL ELSE IF vl0 < 0 THEN -vl0 ELSE vl0
vl_unroll(vl0, ii, jj, b_period_max) ==
  LET u == unroll_suggest(MaxLength(vl0), ii, jj, b_period_max)
  IN  IF vl0 > 0 THEN {u} ELSE Alternatives(u, ii, jj, b_period_max)
=============================================================================
