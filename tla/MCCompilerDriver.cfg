CONSTANTS
  Shapes <- MCShapes
  Threshold = 1
  MaxDeopt = 2
  GraphIds = 2
  OuterDeoptIds = {0, 3}

SPECIFICATION FairSpec

INVARIANT TypeOK
INVARIANT IsolateStateRestored
INVARIANT OptimizationFailureFallsBack
INVARIANT CompiledOrError

\* The function may run its installed code for good without calling the
\* compiler again.
CHECK_DEADLOCK FALSE
PROPERTY CompileReturns
