CONSTANTS
  Program <- MCProgram
  Spare <- MCSpare

SPECIFICATION Spec
CHECK_DEADLOCK FALSE

INVARIANT DefsDominateUses
