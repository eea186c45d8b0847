CONSTANTS
  Sids = {s1, s2, s3, s4}
  Regs = {r1, r2}
  rBad = rBad
  sBad = sBad
SPECIFICATION Spec
INVARIANTS TypeOK FourStates WeakListed
PROPERTIES StalenessOrder ImplementsMap
CHECK_DEADLOCK FALSE
