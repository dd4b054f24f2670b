CONSTANTS
  MaxBlocks = 4
  ExtraGraphs <- MCExtraGraphs
  VarCount = 2
  MaxCatchEntries = 1
  Bodies <- MCStoreBodies
  MaxPathLen = 1

SPECIFICATION Spec
CHECK_DEADLOCK FALSE

INVARIANT TypeOK
INVARIANT DiscoveryOrdersSound
INVARIANT DominatorTreeCorrect
INVARIANT FrontierCorrect
INVARIANT PhisAtIteratedFrontier
