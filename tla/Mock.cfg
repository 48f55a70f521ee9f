SPECIFICATION MockSpec
CONSTANTS
  Callers = {c1, c2, c3}
  Handles = {h1, h2}
  Queued <- FewQueued
  Innermost = FALSE
  MaxAsks = 3
SYMMETRY MockAlike
INVARIANTS
  MockTypeOK
  NeverPanics
  LogComplete
  AnsweredOnce
  AnsweredInTurn
