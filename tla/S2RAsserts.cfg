CONSTANTS
  Sids = {s1, s2, s3}
  Regs = {r1, r2}
  rBad = rBad
  sBad = sBad
SPECIFICATION Spec
INVARIANTS AssertsHold
CHECK_DEADLOCK FALSE
