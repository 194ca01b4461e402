\* Two processes, one of which may be killed; no live holder outlasts the 30 s.
SPECIFICATION Spec
CONSTANTS
  Procs = {p1, p2}
  Keys = {k1}
  MaxTokens = 3
  MaxOps = 2
  MaxKills = 1
  Overrun = FALSE
  None = None
SYMMETRY Symmetry
INVARIANTS TypeOK NoChangeIsUndone NewestTokenKept MutualExclusion
CHECK_DEADLOCK FALSE
