SPECIFICATION Spec
CONSTANTS
  Word = 256
  Safe = 128
  Pow <- MCPow
  MVL = 8
  Align = 2
  Jobs <- MCJobs
  Passes = 2
INVARIANTS SuggestionSound LoopInv CallVisits
PROPERTIES DoubleLoopUpToOverhang LoopFinishes
CHECK_DEADLOCK FALSE
