------------------------------- MODULE MCCblock -------------------------------
(* Model checking of Cblock and CblockFind: every tree of four blocks, so  *)
(* that a scope with its last/undefs and one more block, before or after   *)
(* the define, is among them.                                              *)
EXTENDS CblockFind
=============================================================================
