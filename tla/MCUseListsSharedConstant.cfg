CONSTANTS
  Program <- MCSharedProgram
  Spare <- MCSpare

SPECIFICATION Spec
CHECK_DEADLOCK FALSE

INVARIANT DefsDominateUses
