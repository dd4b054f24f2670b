CONSTANTS
  Program <- MCSharedProgram
  Spare <- MCSpare

SPECIFICATION Spec
CHECK_DEADLOCK FALSE

INVARIANT TypeOK
INVARIANT UseListBijection
INVARIANT InstrListWellFormed
PROPERTY DefUseRefinement
