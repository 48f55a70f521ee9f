SPECIFICATION MockSpec
CONSTANTS
  Callers = {c1, c2}
  Handles = {h1, h2, h3}
  Queued <- FewQueued
  Innermost = TRUE
  MaxAsks = 2
SYMMETRY MockAlike
INVARIANTS
  LogNests
