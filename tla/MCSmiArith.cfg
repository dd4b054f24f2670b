CONSTANTS
  W = 8
  NonSmiWords <- MCNonSmiWords
  MintValues <- MCMintValues
  MaxArrayLength = 3
  EqSmiWords = {0, 2}
  EqHeap <- MCEqHeap

SPECIFICATION MCSpec

INVARIANT TypeOK
INVARIANT SmiResultExact
INVARIANT NoDeoptOnSmiResult
INVARIANT SmiComparisonCorrect
INVARIANT ChecksAdmitExactly
INVARIANT IndexedAccessInBounds
INVARIANT MintAndExact
INVARIANT PolymorphicCallDispatchesOnReceiver
INVARIANT EqualityAgreesWithDart
INVARIANT RelationalAgreesWithDart
INVARIANT RegisterContract

\* Each behaviour executes one instruction and stops.
CHECK_DEADLOCK FALSE
