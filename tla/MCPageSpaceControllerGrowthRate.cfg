CONSTANTS
  HeapGrowthRatio = 50
  HeapGrowthRate = 1
  GcTimeRatio = 30
  HistoryLength = 4
  PageSize = 2
  MaxInUse = 4
  SmallSizes = {1}
  GcGaps = {1, 3}
  GcDurations = {0, 1, 2}
  MaxCollections = 3

SPECIFICATION Spec

PROPERTY EnoughSpaceGrantsGrowthRate
