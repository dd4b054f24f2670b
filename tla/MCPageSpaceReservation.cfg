CONSTANTS
  p1 = p1
  p2 = p2
  p3 = p3
  PageIds <- MCPageIds
  NULL = NULL
  HeapPageHeader = 1
  VMPageSize = 2
  PageSize = 4
  MaxCapacity = 8
  ObjectSizes = {1, 2, 3, 13, 14, 15}
  WordBits = 5
  GcGaps = {2}
  GcDurations = {0, 1}
  MaxCollections = 2
  HeapGrowthRatio = 10
  HeapGrowthRate = 1
  GcTimeRatio = 3
  HistoryLength = 4

SPECIFICATION SpecWithReservationFailure
SYMMETRY MCSymmetry

INVARIANT ReservationFailureReturnsNull
