------------------------------- MODULE MCS2R -------------------------------
(* Model checking of S2R: four symbols compete for two registers, so that  *)
(* a weak symbol can share its register with a strong one and with another *)
(* weak one, and move to the other register.                               *)
EXTENDS S2R
=============================================================================
