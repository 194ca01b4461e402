\* A holder is killed and two processes find its lock stale.
SPECIFICATION Spec
CONSTANTS
  Procs = {p1, p2, p3}
  Keys = {k1}
  MaxTokens = 2
  MaxOps = 1
  MaxKills = 1
  Overrun = FALSE
  None = None
SYMMETRY Symmetry
INVARIANTS MutualExclusion
CHECK_DEADLOCK FALSE
