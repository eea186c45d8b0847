----------------------------- MODULE MCSymScope -----------------------------
(* Model checking of SymScope: three scopes and four symbols are enough    *)
(* for scopes to be reopened in another order, for names to clash in a     *)
(* scope that was reopened, and for two newsym calls to fail in a row.     *)
EXTENDS SymScope
=============================================================================
