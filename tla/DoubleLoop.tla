------------------------------ MODULE DoubleLoop ------------------------------
(***************************************************************************)
(* What a fused loop promises: run Passes times over all pairs             *)
(*     for (i = z; i < end; ++i) for (j = 0; j < jj; ++j) kernel(i, j)     *)
(* in this order, handing the kernel any number of consecutive pairs at a  *)
(* time (ref_vloop2 of src/fuseloop.cpp is the reference of the tests).    *)
(***************************************************************************)
EXTENDS Integers

CONSTANTS Passes  \* how often the enclosing loops come here

VARIABLES limits, \* [z, end, jj]: the limits of the loops
          next,   \* the next pair to visit, <<i, j>>
          pass,   \* how many times all pairs have been visited
          batch   \* the pairs handed to the kernel last, numbered from 0

doubleVars == <<limits, next, pass, batch>>

First == <<limits.z, 0>>

Succ(p) == IF p[2] + 1 < limits.jj THEN <<p[1], p[2] + 1>> ELSE <<p[1] + 1, 0>>

\* the pairs that are left in this pass
Left == (limits.end - next[1]) * limits.jj - next[2]

DoubleInit == next = First /\ pass = 0 /\ batch = <<>>

Visit == /\ pass < Passes
         /\ \E n \in 1..Left :
              /\ batch' \in [0..(n - 1) -> Nat \X Nat]
              /\ batch'[0] = next
              /\ \A k \in 1..(n - 1) : batch'[k] = Succ(batch'[k - 1])
              /\ IF n = Left
                 THEN next' = First /\ pass' = pass + 1
                 ELSE next' = Succ(batch'[n - 1]) /\ UNCHANGED pass
         /\ UNCHANGED limits

DoubleSpec == DoubleInit /\ [][Visit]_doubleVars
=============================================================================
