-------------------------------- MODULE FastDiv --------------------------------
(***************************************************************************)
(* Division of unsigned numbers by a constant with a multiplication, an    *)
(* addition and a shift: src/intutil.c and src/ve_fastdiv.c make the       *)
(* constants, src/ve_divmod.cpp writes the macros FASTDIV_jj and DIVMOD_jj *)
(* that the generated vector loops use.                                    *)
(*                                                                         *)
(* A shift is represented by the power of two it divides by.               *)
(***************************************************************************)
EXTENDS Integers

CONSTANTS Word,  \* 2^32: operands and divisors are below it
          Safe,  \* 2^FASTDIV_B, one more than FASTDIV_SAFEMAX
          Pow    \* the powers of two from 1 to Word

ASSUME WordAssumption == Word \in Nat \ {0} /\ Safe \in Nat \ {0}
\* every divisor lies between two powers of two, and divides none of their
\* multiples by Word unless it is one of them
ASSUME PowAssumption == /\ Pow \subseteq Nat \ {0}
                        /\ \A d \in 1..(Word - 1) :
                             /\ \E p \in Pow : p <= d /\ d < 2 * p
                             /\ \A p \in Pow : d \notin Pow => (p * Word) % d # 0

ulog2(v) == CHOOSE p \in Pow : p <= v /\ v < 2 * p

FASTDIV_CMASK == Safe * Safe - 1

\* [mul, add, shift] for any operand: the multiplier is rounded up when that
\* is precise enough, and down with a correction otherwise
fastdiv_make(divisor) ==
  IF divisor \in Pow
  THEN [mul |-> 1, add |-> 0, shift |-> divisor]
  ELSE LET m == ulog2(divisor) * Word
           mul == m \div divisor
           e == divisor - (m % divisor)
       IN  IF e < ulog2(divisor)
           THEN [mul |-> mul + 1, add |-> 0, shift |-> m]
           ELSE [mul |-> mul, add |-> mul, shift |-> m]

\* two operations instead of three, for small operands
computeM_uB(d) == FASTDIV_CMASK \div d + 1

ThreeOps(f) == f.mul # 1 /\ f.add # 0
mk_FASTDIV(jj, vIn_hi) ==
  LET jj_fastdiv == fastdiv_make(jj)
  IN  IF ThreeOps(jj_fastdiv) /\ vIn_hi > 0 /\ vIn_hi <= Safe - 1
      THEN [mul |-> computeM_uB(jj), add |-> 0, shift |-> FASTDIV_CMASK + 1]
      ELSE jj_fastdiv

FASTDIV(f, x) == (x * f.mul + f.add) \div f.shift

\* the remainder: a mask when one operation divides, else multiply and subtract
DIVMOD(f, jj, x) ==
  [div |-> FASTDIV(f, x),
   mod |-> IF f.mul = 1 THEN x % jj ELSE x - FASTDIV(f, x) * jj]
=============================================================================
