------------------------------- MODULE MCSpill -------------------------------
(* Model checking of Spill.  Lengths and alignments are those of the C     *)
(* types scaled down; they leave alignment gaps and holes of each size.    *)
EXTENDS Spill

MCShapes == {[len |-> 1, align |-> 1], [len |-> 2, align |-> 4]}

\* bound: symbols and scopes together, so that three symbols share the global
\* scope, or two have a scope that can be closed and opened again
MaxIds == 4

MCNext == Next /\ maxidSym' + maxidSco' <= MaxIds
MCSpec == SpillInit /\ [][MCNext]_vars
=============================================================================
