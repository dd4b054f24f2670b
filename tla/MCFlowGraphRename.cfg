\* Rename on every catch-free builder graph of four blocks (straight line,
\* diamonds, loops with a back edge to a join), each block holding a load, a
\* store, both, or neither; and on the seven-block graphs of MCExtraGraphs
\* (joins inside a loop, phis feeding phis), each block holding one load,
\* one store or neither.  Paths of up to seven blocks go twice round a loop
\* of the four-block graphs.
CONSTANTS
  MaxBlocks = 4
  ExtraGraphs <- MCExtraGraphs
  VarCount = 1
  MaxCatchEntries = 0
  Bodies <- MCRenameBodies
  MaxPathLen = 7

SPECIFICATION Spec
\* The pipeline stops once renamed: ComputeSSA has nothing left to do.
CHECK_DEADLOCK FALSE

INVARIANT SsaPreservesValues
INVARIANT LivePhisCover
